--------------------------- MODULE CopyMoveProofs ---------------------------
(***************************************************************************)
(* Theorems about a copy or move job, for every tree it may start with,    *)
(* every number of entries, names and roots, every scenario, and whatever  *)
(* the others do between its steps.                                        *)
(*                                                                         *)
(* The inductive invariant has five parts, each proved on top of those     *)
(* before it. Base: the tree is well placed, and what the job holds has    *)
(* its type and kind. OwnOK: a directory the job made is known to it, and  *)
(* nothing it takes up is. WriteOK: a half written file stands under a     *)
(* name nobody looks at, and a finished one is whole. MoveOK: what a move  *)
(* recorded is backed by a flushed copy, whose name is flushed by the time *)
(* the source goes. FlagsOK: the types of the flags.                       *)
(***************************************************************************)
EXTENDS CopyMove, SequenceTheorems, WellFoundedInduction, TLAPS

-----------------------------------------------------------------------------
(* The tree: places and names, and what a step of the others does.         *)
\* A place is a directory and a name in it, or nowhere.
Slots == (Node \cup {Stage}) \X (Name \cup {Temp})
Places == {Nowhere} \cup Slots

LEMMA SlotFacts ==
  ASSUME NEW d \in Node \cup {Stage}, NEW x \in Name \cup {Temp}
  PROVE  <<d, x>> \in Places /\ <<d, x>> # Nowhere
BY DEF Places, Slots, Nowhere

LEMMA PlaceParts ==
  ASSUME NEW p \in Places, p # Nowhere
  PROVE  p = <<p[1], p[2]>> /\ p[1] \in Node \cup {Stage} /\ p[2] \in Name \cup {Temp}
BY DEF Places, Slots

\* A name that is found names the node that stands there.
LEMMA LookupFound ==
  ASSUME NEW d, NEW x, Lookup(d, x) # None
  PROVE  Lookup(d, x) \in Node /\ at[Lookup(d, x)] = <<d, x>>
BY DEF Lookup

LEMMA LookupFree ==
  ASSUME NEW d, NEW x, Lookup(d, x) = None, NEW n \in Node
  PROVE  at[n] # <<d, x>>
<1> DEFINE s == {m \in Node : at[m] = <<d, x>>}
<1> SUFFICES ASSUME n \in s PROVE FALSE
  OBVIOUS
<1>1. Lookup(d, x) \in s
  BY DEF Lookup
<1> QED
  BY <1>1, NodeAssumption

OneEach == \A m, n \in Node : at[m] = at[n] /\ at[m] # Nowhere => m = n

LEMMA LookupIs ==
  ASSUME OneEach, NEW d \in Node \cup {Stage}, NEW x \in Name \cup {Temp},
         NEW n \in Node, at[n] = <<d, x>>
  PROVE  Lookup(d, x) = n
<1>1. Lookup(d, x) # None
  BY LookupFree
<1>2. at[Lookup(d, x)] = at[n] /\ at[n] # Nowhere
  BY <1>1, LookupFound, SlotFacts
<1> QED
  BY <1>1, <1>2, LookupFound DEF OneEach

\* A node is spare that is not in use.
LEMMA SpareUnused ==
  ASSUME Unused # {}
  PROVE  Spare \in Node /\ kind[Spare] = "none"
BY DEF Spare, Unused

\* A tree has one node under a name.
WellPlaced(a) ==
    /\ a \in [Node -> Places]
    /\ \A m, n \in Node : a[m] = a[n] /\ a[m] # Nowhere => m = n

LEMMA RenamedPlaces ==
  ASSUME WellPlaced(at), NEW n \in Node, NEW d \in Node \cup {Stage}, NEW x \in Name \cup {Temp}
  PROVE  /\ WellPlaced(Renamed(n, d, x))
         /\ Renamed(n, d, x)[n] = <<d, x>>
         /\ \A m \in Node \ {n} :
              /\ at[m] = <<d, x>> => Renamed(n, d, x)[m] = Nowhere
              /\ at[m] # <<d, x>> => Renamed(n, d, x)[m] = at[m]
BY SlotFacts DEF WellPlaced, Renamed, Places

LEMMA UnlinkedPlaces ==
  ASSUME WellPlaced(at), NEW n \in Node
  PROVE  /\ WellPlaced(Unlinked(n))
         /\ Unlinked(n)[n] = Nowhere
         /\ \A m \in Node \ {n} : Unlinked(n)[m] = at[m]
BY DEF WellPlaced, Unlinked, Places

LEMMA PutPlaces ==
  ASSUME WellPlaced(at), NEW n \in Node, NEW p \in Places,
         p = Nowhere \/ \A m \in Node : at[m] # p
  PROVE  WellPlaced([at EXCEPT ![n] = p])
BY DEF WellPlaced

\* The tree has one entry under a name, and what has a place is in use.
WorldOK ==
    /\ sc \in Scenarios
    /\ WellPlaced(at)
    /\ kind \in [Node -> Kinds] /\ data \in [Node -> Content]
    /\ stamp \in [Node -> Nat] /\ clock \in Nat /\ budget \in Nat
    /\ theirs \subseteq Node
    /\ \A n \in Node : at[n] # Nowhere => kind[n] # "none"
    /\ Dst \in Node /\ kind[Dst] = "dir" /\ kind[Top] = "dir"

\* What a step of the others may do to the tree.
OthersDid ==
    /\ budget > 0 /\ budget' = budget - 1 /\ clock' = clock /\ theirs \subseteq theirs'
    /\ \A n \in Node :
        /\ kind[n] # "none" => kind'[n] = kind[n]
        /\ kind[n] # "none" /\ at[n] = Nowhere => at'[n] = Nowhere
        /\ n \notin theirs' => /\ at'[n] = at[n] /\ kind'[n] = kind[n]
                               /\ data'[n] = data[n] /\ stamp'[n] = stamp[n]
        /\ at'[n] \in {at[n], Nowhere} \cup Node \X Name
        /\ stamp'[n] \in {stamp[n], clock}
        /\ data'[n] = data[n] \/ /\ data'[n] = <<"theirs", budget>>
                                 /\ stamp'[n] = clock /\ kind[n] # "link"

LEMMA FreshContent == ASSUME budget \in Nat PROVE Fresh \in Content
BY DEF Fresh, Content

LEMMA DstSame == ASSUME sc' = sc PROVE Dst' = Dst
BY DEF Dst, start

LEMMA RewriteWorld ==
  ASSUME WorldOK, NEW n \in Visible, OthersRewrite(n), sc' = sc
  PROVE  WorldOK' /\ OthersDid
<1>1. n \in Node /\ n # Top
  BY DEF Visible
<1>2. Dst' = Dst
  BY DstSame
<1> QED
  BY <1>1, <1>2, FreshContent DEF WorldOK, OthersRewrite, Act, OthersDid, Fresh

LEMMA RemoveWorld ==
  ASSUME WorldOK, NEW n \in Visible, OthersRemove(n), sc' = sc
  PROVE  WorldOK' /\ OthersDid
<1>1. n \in Node /\ n # Top
  BY DEF Visible
<1>2. Dst' = Dst
  BY DstSame
<1>3. WellPlaced(at') /\ at'[n] = Nowhere /\ \A m \in Node \ {n} : at'[m] = at[m]
  BY <1>1, UnlinkedPlaces DEF WorldOK, OthersRemove
<1> QED
  BY <1>1, <1>2, <1>3 DEF WorldOK, OthersRemove, Act, OthersDid

LEMMA PutWorld ==
  ASSUME WorldOK, NEW d \in Node, NEW x \in Name, OthersPut(d, x), sc' = sc
  PROVE  WorldOK' /\ OthersDid
<1> DEFINE n == Spare
           old == Lookup(d, x)
<1>1. n \in Node /\ kind[n] = "none" /\ at[n] = Nowhere
  BY SpareUnused DEF OthersPut, WorldOK
<1>2. Dst' = Dst
  BY DstSame
<1>3. /\ at' = Renamed(n, d, x) /\ kind' = [kind EXCEPT ![n] = "file"]
      /\ data' = [data EXCEPT ![n] = Fresh] /\ stamp' = [stamp EXCEPT ![n] = clock]
      /\ theirs' = theirs \cup ({n, old} \ {None})
  BY DEF OthersPut
<1>4. WellPlaced(at') /\ at'[n] = <<d, x>>
  BY <1>1, <1>3, RenamedPlaces DEF WorldOK
<1>5. old = None \/ old \in Node
  BY LookupFound
<1>6. n \in theirs'
  BY <1>1, <1>3, NodeAssumption
<1>7. ASSUME NEW m \in Node, m # n
      PROVE  /\ at'[m] \in {at[m], Nowhere}
             /\ m \notin theirs' => at'[m] = at[m]
             /\ at[m] = Nowhere => at'[m] = Nowhere
  <2>1. CASE at[m] = <<d, x>>
    <3>1. old = m
      BY <2>1, LookupIs DEF WorldOK, WellPlaced, OneEach
    <3>2. at'[m] = Nowhere
      BY <2>1, <1>3, <1>7 DEF Renamed
    <3> QED
      BY <3>1, <3>2, <1>3, <1>7, NodeAssumption
  <2>2. CASE at[m] # <<d, x>>
    BY <2>2, <1>1, <1>3, <1>7, RenamedPlaces DEF WorldOK
  <2> QED
    BY <2>1, <2>2
<1>8. Act
  BY DEF OthersPut
<1> HIDE DEF n, old
<1>15. Fresh \in Content
  BY FreshContent DEF WorldOK
<1>16. budget' \in Nat /\ clock' = clock
  BY <1>8 DEF WorldOK, Act
<1>17. kind' \in [Node -> Kinds]
  BY <1>3 DEF WorldOK, Kinds
<1>11. Fresh \in Content /\ kind' \in [Node -> Kinds] /\ budget' \in Nat /\ clock' = clock
  BY <1>15, <1>16, <1>17
<1>12. \A m \in Node : at'[m] # Nowhere => kind'[m] # "none"
  BY <1>1, <1>3, <1>7 DEF WorldOK
<1>9. WorldOK'
  BY <1>1, <1>2, <1>3, <1>4, <1>5, <1>11, <1>12 DEF WorldOK
<1>13. ASSUME NEW m \in Node
       PROVE  /\ kind[m] # "none" => kind'[m] = kind[m]
              /\ at'[m] \in {at[m], Nowhere} \cup Node \X Name
              /\ stamp'[m] \in {stamp[m], clock}
              /\ data'[m] = data[m] \/ /\ data'[m] = Fresh
                                       /\ stamp'[m] = clock /\ kind[m] # "link"
  <2>1. CASE m = n
    BY <2>1, <1>1, <1>3, <1>4 DEF WorldOK
  <2>2. CASE m # n
    BY <2>2, <1>3, <1>7 DEF WorldOK
  <2> QED
    BY <2>1, <2>2
<1>14. ASSUME NEW m \in Node
       PROVE  /\ kind[m] # "none" /\ at[m] = Nowhere => at'[m] = Nowhere
              /\ m \notin theirs' => /\ at'[m] = at[m] /\ kind'[m] = kind[m]
                                     /\ data'[m] = data[m] /\ stamp'[m] = stamp[m]
  <2>1. CASE m = n
    BY <2>1, <1>1, <1>6
  <2>2. CASE m # n
    BY <2>2, <1>3, <1>7 DEF WorldOK
  <2> QED
    BY <2>1, <2>2
<1>10. OthersDid
  BY <1>3, <1>8, <1>13, <1>14 DEF OthersDid, Act, Fresh
<1> QED
  BY <1>9, <1>10

LEMMA ShiftWorld ==
  ASSUME WorldOK, NEW n \in Visible, NEW d \in Node, NEW x \in Name, OthersShift(n, d, x), sc' = sc
  PROVE  WorldOK' /\ OthersDid
<1>1. n \in Node /\ n # Top /\ at[n] # Nowhere
  BY DEF Visible
<1>2. Dst' = Dst
  BY DstSame
<1>3. at' = Renamed(n, d, x) /\ \A m \in Node : at[m] # <<d, x>>
  BY LookupFree DEF OthersShift
<1>4. WellPlaced(at') /\ at'[n] = <<d, x>>
  BY <1>1, <1>3, RenamedPlaces DEF WorldOK
<1>5. ASSUME NEW m \in Node, m # n
      PROVE  at'[m] = at[m]
  BY <1>3, <1>5 DEF Renamed
<1>6. Act /\ stamp' = [stamp EXCEPT ![n] = clock] /\ theirs' = theirs \cup {n}
      /\ UNCHANGED <<kind, data>>
  BY DEF OthersShift
<1>7. \A m \in Node : at'[m] # Nowhere => kind'[m] # "none"
  BY <1>1, <1>5, <1>6 DEF WorldOK
<1>8. WorldOK'
  BY <1>1, <1>2, <1>4, <1>6, <1>7 DEF WorldOK, Act
<1>9. ASSUME NEW m \in Node
      PROVE  /\ kind[m] # "none" => kind'[m] = kind[m]
             /\ at'[m] \in {at[m], Nowhere} \cup Node \X Name
             /\ stamp'[m] \in {stamp[m], clock}
             /\ data'[m] = data[m]
             /\ at[m] = Nowhere => at'[m] = Nowhere
             /\ m \notin theirs' => at'[m] = at[m] /\ stamp'[m] = stamp[m]
  BY <1>1, <1>4, <1>5, <1>6 DEF WorldOK
<1>10. OthersDid
  BY <1>6, <1>9 DEF OthersDid, Act
<1> QED
  BY <1>8, <1>10

\* The others leave the tree well placed, and do what OthersDid says.
LEMMA OthersWorld ==
  ASSUME WorldOK, OthersStep(start.places), sc' = sc
  PROVE  WorldOK' /\ OthersDid
<1>1. start.places \subseteq Node \X Name
  BY LayoutAssumption, ScenarioAssumption DEF start, WorldOK
<1>2. CASE \E n \in Visible : OthersRewrite(n) \/ OthersRemove(n)
  BY <1>2, RewriteWorld, RemoveWorld
<1>3. CASE \E p \in start.places :
             /\ Alive(p[1])
             /\ OthersPut(p[1], p[2]) \/ \E n \in Visible : OthersShift(n, p[1], p[2])
  <2>1. PICK p \in start.places : OthersPut(p[1], p[2]) \/ \E n \in Visible : OthersShift(n, p[1], p[2])
    BY <1>3
  <2>2. p[1] \in Node /\ p[2] \in Name
    BY <1>1
  <2> QED
    BY <2>1, <2>2, PutWorld, ShiftWorld
<1> QED
  BY <1>2, <1>3 DEF OthersStep

-----------------------------------------------------------------------------
(* The name an entry is copied to.                                         *)
\* The first of the names "keep both" finds free is one of them.
LEMMA LeastOf ==
  ASSUME NEW S, S \subseteq Nat, S # {}
  PROVE  (CHOOSE i \in S : \A j \in S : i <= j) \in S
<1>1. PICK m \in S : \A k \in S : <<k, m>> \notin OpToRel(<, Nat)
  BY WFMin, NatLessThanWellFounded, Zenon
<1>2. \A k \in S : ~(k < m)
  BY <1>1, Zenon DEF OpToRel
<1>3. \A k \in S : m <= k
  BY <1>2
<1> QED
  BY <1>3, Zenon

LEMMA FreeNameTyped ==
  ASSUME NEW d, NEW x \in Name
  PROVE  FreeName(d, x).act \in {"skip", "create"} /\ FreeName(d, x).name \in Name
<1> DEFINE free == {i \in DOMAIN KeepBoth[x] : Lookup(d, KeepBoth[x][i]) = None}
           least == CHOOSE i \in free : \A j \in free : i <= j
<1>1. KeepBoth[x] \in Seq(Name)
  BY NameAssumption
<1>2. free \subseteq Nat /\ free \subseteq DOMAIN KeepBoth[x]
  BY <1>1
<1>3. CASE free = {}
  <2>1. FreeName(d, x) = [act |-> "skip", name |-> x]
    BY <1>3 DEF FreeName
  <2> QED
    BY <2>1
<1>4. CASE free # {}
  <2>1. least \in free
    BY <1>2, <1>4, LeastOf
  <2>2. FreeName(d, x) = [act |-> "create", name |-> KeepBoth[x][least]]
    BY <1>4, Zenon DEF FreeName
  <2> HIDE DEF least
  <2>3. KeepBoth[x][least] \in Name
    BY <2>1, <1>2, <1>1
  <2> QED
    BY <2>2, <2>3
<1> QED
  BY <1>3, <1>4

LEMMA PlaceTyped ==
  ASSUME NEW d, NEW x \in Name, NEW k
  PROVE  /\ Place(d, x, k).act \in {"skip", "create", "merge", "overwrite"}
         /\ Place(d, x, k).name \in Name
         /\ Place(d, x, k).act = "overwrite" => sc.policy = "overwrite" /\ k # "dir"
<1>1. FreeName(d, x).act \in {"skip", "create"} /\ FreeName(d, x).name \in Name
  BY FreeNameTyped
<1> HIDE DEF FreeName
<1> QED
  BY <1>1 DEF Place

LEMMA RootPlaceTyped ==
  ASSUME item.name \in Name
  PROVE  /\ RootPlace.act \in {"skip", "create", "merge", "overwrite"}
         /\ RootPlace.name \in Name
         /\ RootPlace.act = "overwrite" => sc.policy = "overwrite" /\ kind[item.id] # "dir"
<1>1. FreeName(Dst, item.name).act \in {"skip", "create"} /\ FreeName(Dst, item.name).name \in Name
  BY FreeNameTyped
<1>2. /\ Place(Dst, item.name, kind[item.id]).act \in {"skip", "create", "merge", "overwrite"}
      /\ Place(Dst, item.name, kind[item.id]).name \in Name
      /\ Place(Dst, item.name, kind[item.id]).act = "overwrite" => sc.policy = "overwrite" /\ kind[item.id] # "dir"
  BY PlaceTyped
<1>3. CASE Dst # Top
  BY <1>3, <1>2 DEF RootPlace
<1>4. CASE Dst = Top
  BY <1>4, <1>1 DEF RootPlace
<1> QED
  BY <1>3, <1>4

-----------------------------------------------------------------------------
(* The job: what it holds at each of its steps.                            *)
\* The records of the job.
Task == [id : Node, dir : Node, name : Name, ddir : Node, seen : Nat, mode : Content,
         final : Name, act : {"create", "merge", "overwrite"}, new : Node \cup {None},
         where : Node \cup {Stage}, temp : Name \cup {Temp}, half : Content]
Entries == [dir : Node, name : Name, kind : Kinds, id : Node, seen : Content \cup Nat,
            dname : Name, did : Node \cup {None}, dseen : Nat]
Frame == [src : Node, dst : Node, mode : Content, changed : BOOLEAN,
          created : BOOLEAN, todo : SUBSET Name]
Levels == [dir : Node, dst : Node, mode : Content \cup Nat, entry : Name \cup {None},
           kept : BOOLEAN, todo : SUBSET Entries]

\* The steps of the job by what they work on.
Starting  == {"place", "rename", "begin"}
MakingDir == {"opendir", "mkdir", "pin"}
Building  == {"read", "more", "verify", "link0", "publish"}
FilePC    == {"open", "settle", "build"} \cup Building
Tasked    == Starting \cup MakingDir \cup FilePC \cup {"record", "link"}
Copying   == MakingDir \cup FilePC \cup {"record", "link", "opened", "walk"}
Looking   == {"look", "compare", "compare2", "unlink"}
Removing  == Looking \cup {"delete"}
Idle      == {"root", "finish", "walk", "opened", "delete", "end"}
USE DEF Starting, MakingDir, Building, FilePC, Tasked, Copying, Looking, Removing, Idle

\* What the job holds at each step, and the types of it.
JobTyped ==
    /\ left \in Seq(Name)
    /\ pc \in Idle \cup Tasked \cup Looking
    /\ root \in Task \cup {NoItem} /\ (pc \notin {"root", "end"} => root \in Task)
    /\ pc \in Idle => item = NoItem
    /\ pc \in Tasked => item \in Task
    /\ pc \in Looking => item \in Entries
    /\ frames \in Seq(Frame) /\ del \in Seq(Levels) /\ ledger \subseteq Entries
    /\ tracked \subseteq Node
    /\ pc \in {"opened", "walk"} => frames # <<>>
    /\ pc \notin Copying => frames = <<>>
    /\ pc \in Removing <=> del # <<>>

\* What the job holds open is of the kind its step works on.
Sorted ==
    /\ \A i \in DOMAIN frames : kind[frames[i].src] = "dir" /\ kind[frames[i].dst] = "dir"
    /\ pc \in Tasked => kind[item.id] \notin {"none", "special"}
    /\ pc \in MakingDir => kind[item.id] = "dir"
    /\ pc \in FilePC => kind[item.id] = "file"
    /\ pc = "link" => kind[item.id] = "link"
    /\ pc = "record" => kind[item.id] \in {"file", "link"}
    /\ pc \in Building => item.new \in Node /\ kind[item.new] = "file"
    /\ pc = "record" => item.new \in Node /\ kind[item.new] \in {"file", "link"}
    /\ pc = "pin" => item.new \in Node /\ kind[item.new] = "dir"
    /\ pc = "link0" => at[item.new] = Nowhere
    /\ pc \in Building \cup {"record", "pin"} => item.new # item.id

\* The temporary name is taken by the file that is being written, or in private.
TempIs ==
    \A m \in Node : (at[m] # Nowhere /\ at[m][2] = Temp /\ at[m][1] # Stage) =>
        pc \in Building /\ m = item.new /\ at[m] = <<item.where, item.temp>>

JobOK == JobTyped /\ Sorted /\ TempIs

LEMMA WorldStays ==
  ASSUME WorldOK, UNCHANGED world, sc' = sc
  PROVE  WorldOK'
BY DstSame DEF WorldOK, world, WellPlaced

LEMMA EntryTyped ==
  ASSUME WorldOK, NEW n \in Node, NEW d \in Node, NEW x \in Name, NEW dd \in Node
  PROVE  Entry(n, d, x, dd) \in Task
BY DEF Entry, Task, WorldOK

LEMMA TakeRootJob ==
  ASSUME WorldOK, JobOK, TakeRoot
  PROVE  JobOK'
<1> DEFINE n == Lookup(Top, Head(left))
<1>1. left' = Tail(left) /\ left' \in Seq(Name) /\ Head(left) \in Name
  BY HeadTailProperties DEF TakeRoot, JobOK, JobTyped
<1>2. /\ pc = "root" /\ UNCHANGED world
      /\ UNCHANGED <<frames, tracked, del, ledger>>
  BY DEF TakeRoot, ledgerVars
<1>3. CASE UNCHANGED <<pc, item, root>>
  BY <1>1, <1>2, <1>3 DEF JobOK, JobTyped, Sorted, TempIs, world
<1>4. CASE /\ n # None /\ kind[n] # "special"
           /\ item' = Entry(n, Top, Head(left), Dst) /\ root' = item' /\ pc' = "place"
  <2>1. n \in Node /\ kind[n] # "none" /\ Dst \in Node /\ Top \in Node
    BY <1>4, LookupFound, NodeAssumption, SlotFacts, <1>1 DEF WorldOK
  <2>2. item' \in Task
    BY <2>1, <1>1, <1>4, EntryTyped
  <2>3. item'.id = n
    BY <1>4 DEF Entry
  <2>4. JobTyped'
    BY <1>1, <1>2, <1>4, <2>2 DEF JobOK, JobTyped, Idle, Tasked, Looking, Starting, Copying, Removing, MakingDir, FilePC, Building
  <2>5. Sorted'
    BY <1>2, <1>4, <2>1, <2>3 DEF JobOK, Sorted, world, Tasked, Looking, Starting, Copying, Removing, MakingDir, FilePC, Building
  <2>6. TempIs'
    BY <1>2, <1>4 DEF JobOK, TempIs, world, Building
  <2> QED
    BY <2>4, <2>5, <2>6 DEF JobOK
<1> QED
  BY <1>3, <1>4 DEF TakeRoot

-----------------------------------------------------------------------------
(* The steps that leave the tree alone.                                    *)
LEMMA FramesTyped ==
  ASSUME frames \in Seq(Frame), NEW i \in DOMAIN frames
  PROVE  frames[i] \in Frame /\ frames[i].src \in Node /\ frames[i].dst \in Node
<1>1. frames[i] \in Frame
  OBVIOUS
<1> QED
  BY <1>1 DEF Frame

LEMMA TodoSet ==
  ASSUME frames \in Seq(Frame), frames # <<>>, NEW t, t \subseteq Name
  PROVE  LET f == [frames EXCEPT ![Len(frames)].todo = t] IN
         /\ f \in Seq(Frame) /\ f # <<>> /\ DOMAIN f = DOMAIN frames /\ Len(f) = Len(frames)
         /\ \A i \in DOMAIN f : f[i].src = frames[i].src /\ f[i].dst = frames[i].dst
<1> DEFINE n == Len(frames)
           r == [frames[n] EXCEPT !.todo = t]
           f == [frames EXCEPT ![Len(frames)].todo = t]
<1>1. n \in Nat /\ n > 0 /\ DOMAIN frames = 1 .. n /\ n \in DOMAIN frames
      /\ \A i \in 1 .. n : frames[i] \in Frame
  OBVIOUS
<1>2. r \in Frame /\ r.src = frames[n].src /\ r.dst = frames[n].dst
  BY <1>1 DEF Frame
<1>3. f = [frames EXCEPT ![n] = r]
  OBVIOUS
<1> HIDE DEF r, n, f
<1>4. f \in Seq(Frame) /\ DOMAIN f = DOMAIN frames /\ Len(f) = n
  BY <1>1, <1>2, <1>3
<1>5. \A i \in DOMAIN frames : f[i].src = frames[i].src /\ f[i].dst = frames[i].dst
  BY <1>1, <1>2, <1>3
<1> QED
  BY <1>1, <1>4, <1>5 DEF n, f

LEMMA PlaceRootJob ==
  ASSUME WorldOK, JobOK, PlaceRoot
  PROVE  JobOK'
<1>1. /\ pc = "place" /\ item \in Task /\ UNCHANGED world
      /\ UNCHANGED <<left, root, frames, tracked, del, ledger>>
  BY DEF PlaceRoot, ledgerVars, JobOK, JobTyped
<1>2. CASE Leave("root")
  BY <1>1, <1>2 DEF Leave, JobOK, JobTyped, Sorted, TempIs, world
<1>3. CASE /\ RootPlace.act # "skip"
           /\ item' = [item EXCEPT !.final = RootPlace.name, !.act = RootPlace.act]
           /\ pc' \in {"rename", "begin"}
  <2>1. RootPlace.act \in {"create", "merge", "overwrite"} /\ RootPlace.name \in Name
    BY <1>1, <1>3, RootPlaceTyped DEF Task
  <2> HIDE DEF RootPlace
  <2>2. item' \in Task /\ item'.id = item.id
    BY <1>1, <1>3, <2>1 DEF Task
  <2> QED
    BY <1>1, <1>3, <2>2 DEF JobOK, JobTyped, Sorted, TempIs, world
<1> QED
  BY <1>2, <1>3 DEF PlaceRoot

LEMMA BeginCopyJob ==
  ASSUME WorldOK, JobOK, BeginCopy
  PROVE  JobOK'
<1>1. /\ pc = "begin" /\ item \in Task /\ UNCHANGED world
      /\ UNCHANGED <<left, root, frames, tracked, del>>
      /\ ledger' \subseteq Entries
      /\ kind[item.id] \notin {"none", "special"} /\ kind[item.id] \in Kinds
  BY DEF BeginCopy, JobOK, JobTyped, Sorted, WorldOK, Task
<1>2. CASE Leave("root") \/ Leave("end")
  BY <1>1, <1>2 DEF Leave, JobOK, JobTyped, Sorted, TempIs, world
<1>3. CASE /\ item' = item
           /\ pc' = CASE kind[item.id] = "dir" -> "opendir"
                      [] kind[item.id] = "link" -> "link"
                      [] OTHER -> "open"
  BY <1>1, <1>3 DEF JobOK, JobTyped, Sorted, TempIs, world, Kinds
<1> QED
  BY <1>2, <1>3 DEF BeginCopy

LEMMA OpenDirJob ==
  ASSUME WorldOK, JobOK, OpenDir
  PROVE  JobOK'
<1> DEFINE n == Lookup(item.dir, item.name)
<1>1. /\ pc = "opendir" /\ item \in Task /\ UNCHANGED world
      /\ UNCHANGED <<left, root, tracked, del, ledger>>
  BY DEF OpenDir, ledgerVars, JobOK, JobTyped
<1>2. CASE Abandon
  BY <1>1, <1>2 DEF Abandon, Leave, JobOK, JobTyped, Sorted, TempIs, world
<1>3. CASE frames # <<>> /\ Leave("walk") /\ UNCHANGED frames
  BY <1>1, <1>3 DEF Leave, JobOK, JobTyped, Sorted, TempIs, world
<1>4. CASE /\ n = item.id \/ n \in Dirs
           /\ item' = [item EXCEPT !.id = n, !.mode = data[n]]
           /\ pc' = "mkdir" /\ UNCHANGED frames
  <2>1. n \in Node /\ kind[n] = "dir" /\ data[n] \in Content
    BY <1>1, <1>4 DEF Dirs, JobOK, Sorted, Task, WorldOK
  <2>2. item' \in Task /\ item'.id = n
    BY <1>1, <1>4, <2>1 DEF Task
  <2> HIDE DEF n
  <2> QED
    BY <1>1, <1>4, <2>1, <2>2 DEF JobOK, JobTyped, Sorted, TempIs, world
<1> QED
  BY <1>2, <1>3, <1>4 DEF OpenDir

LEMMA OpenedJob ==
  ASSUME WorldOK, JobOK, Opened
  PROVE  JobOK'
<1>1. /\ pc = "opened" /\ item = NoItem /\ frames # <<>> /\ frames \in Seq(Frame) /\ UNCHANGED world
      /\ UNCHANGED <<left, root, tracked, del, ledger>>
  BY DEF Opened, ledgerVars, JobOK, JobTyped
<1>2. CASE Abandon
  BY <1>1, <1>2 DEF Abandon, Leave, JobOK, JobTyped, Sorted, TempIs, world
<1>3. CASE /\ frames' = [frames EXCEPT ![Len(frames)].todo = {at[m][2] : m \in Children(Inner.src)}]
           /\ pc' = "walk" /\ UNCHANGED item
  <2>1. Inner \in Frame
    BY <1>1 DEF Inner
  <2>2. ASSUME NEW m \in Children(Inner.src)
        PROVE  at[m][2] \in Name
    <3>1. m \in Node /\ at[m] # Nowhere /\ at[m][1] = Inner.src /\ Inner.src \in Node
      BY <2>1, <2>2 DEF Children, Frame
    <3>2. at[m][2] \in Name \cup {Temp}
      BY <3>1, PlaceParts DEF WorldOK, WellPlaced
    <3> QED
      BY <1>1, <3>1, <3>2, NodeAssumption DEF JobOK, TempIs
  <2>3. {at[m][2] : m \in Children(Inner.src)} \subseteq Name
    BY <2>2
  <2>4. frames' \in Seq(Frame) /\ frames' # <<>> /\ DOMAIN frames' = DOMAIN frames
        /\ \A i \in DOMAIN frames' : frames'[i].src = frames[i].src /\ frames'[i].dst = frames[i].dst
    BY <1>1, <1>3, <2>3, TodoSet
  <2> QED
    BY <1>1, <1>3, <2>4 DEF JobOK, JobTyped, Sorted, TempIs, world
<1> QED
  BY <1>2, <1>3 DEF Opened

NoTemp == \A m \in Node : at[m] # Nowhere /\ at[m][2] = Temp => at[m][1] = Stage
KindsKept == \A n \in Node : kind[n] # "none" => kind'[n] = kind[n]

LEMMA LeaveJob ==
  ASSUME WorldOK, JobOK, pc \in Copying, Leave(After), NoTemp', KindsKept,
         UNCHANGED <<left, root, frames, tracked, del>>, ledger' \subseteq Entries
  PROVE  JobOK'
<1>1. JobTyped'
  BY DEF Leave, After, JobOK, JobTyped
<1>2. \A i \in DOMAIN frames : frames[i].src \in Node /\ frames[i].dst \in Node
  BY FramesTyped DEF JobOK, JobTyped
<1>3. Sorted'
  BY <1>2 DEF Leave, After, JobOK, Sorted, KindsKept
<1>4. TempIs'
  BY DEF NoTemp, TempIs
<1> QED
  BY <1>1, <1>3, <1>4 DEF JobOK

LEMMA AbandonJob ==
  ASSUME WorldOK, JobOK, pc \in Copying, frames' = <<>>, Leave("finish"), NoTemp',
         UNCHANGED <<left, root, del>>, tracked' \subseteq Node, ledger' \subseteq Entries
  PROVE  JobOK'
<1>1. JobTyped'
  BY DEF Leave, JobOK, JobTyped
<1>3. Sorted'
  BY DEF Leave, JobOK, Sorted
<1>4. TempIs'
  BY DEF NoTemp, TempIs
<1> QED
  BY <1>1, <1>3, <1>4 DEF JobOK

LEMMA NoTempStays ==
  ASSUME JobOK, pc \notin Building, at' = at
  PROVE  NoTemp'
BY DEF JobOK, TempIs, NoTemp

LEMMA ChangedSet ==
  ASSUME NEW f \in Seq(Frame), NEW i
  PROVE  LET g == [f EXCEPT ![i].changed = TRUE] IN
         /\ g \in Seq(Frame) /\ DOMAIN g = DOMAIN f /\ Len(g) = Len(f)
         /\ \A j \in DOMAIN g : g[j].src = f[j].src /\ g[j].dst = f[j].dst
<1> DEFINE n == Len(f)
           r == [f[i] EXCEPT !.changed = TRUE]
           g == [f EXCEPT ![i].changed = TRUE]
<1>1. n \in Nat /\ DOMAIN f = 1 .. n /\ \A j \in 1 .. n : f[j] \in Frame
  OBVIOUS
<1>2. g = [f EXCEPT ![i] = r]
  OBVIOUS
<1>3. CASE i \in 1 .. n
  <2>1. r \in Frame /\ r.src = f[i].src /\ r.dst = f[i].dst
    BY <1>1, <1>3 DEF Frame
  <2> HIDE DEF r, n, g
  <2>4. g = [j \in 1 .. n |-> IF j = i THEN r ELSE f[j]]
    BY <1>1, <1>2, <1>3
  <2>5. g \in [1 .. n -> Frame]
    BY <1>1, <2>1, <2>4
  <2>2. g \in Seq(Frame) /\ DOMAIN g = DOMAIN f /\ Len(g) = n
    BY <1>1, <2>5
  <2>3. \A j \in DOMAIN f : g[j].src = f[j].src /\ g[j].dst = f[j].dst
    BY <1>1, <1>2, <1>3, <2>1
  <2> QED
    BY <1>1, <2>2, <2>3 DEF n, g
<1>4. CASE i \notin 1 .. n
  <2> HIDE DEF n, r, g
  <2>1. g = f
    BY <1>1, <1>2, <1>4
  <2> QED
    BY <2>1 DEF g
<1> QED
  BY <1>3, <1>4

LEMMA WalkEntryJob ==
  ASSUME WorldOK, JobOK, WalkEntry
  PROVE  JobOK'
<1>1. /\ pc = "walk" /\ item = NoItem /\ frames # <<>> /\ frames \in Seq(Frame) /\ UNCHANGED world
      /\ UNCHANGED <<left, root, tracked, del, ledger>>
  BY DEF WalkEntry, ledgerVars, JobOK, JobTyped
<1>2. Inner \in Frame
  BY <1>1 DEF Inner
<1>3. PICK x \in Inner.todo :
        LET n == Lookup(Inner.src, x)
            rest == [frames EXCEPT ![Len(frames)].todo = @ \ {x}]
            p == Place(Inner.dst, x, kind[n])
            said == {i \in DOMAIN frames : frames[i].changed}
        IN
        \/ /\ n = None                          \* gone since it was read
           /\ frames' = rest
           /\ UNCHANGED <<pc, item, marks>>
        \/ /\ n # None /\ Changed # {}           \* ancestorUnchanged
           /\ LET first == CHOOSE i \in Changed : \A j \in Changed : i <= j IN
              IF first \in said
              THEN frames' = rest /\ UNCHANGED marks
              ELSE frames' = [rest EXCEPT ![first].changed = TRUE] /\ Complain
           /\ UNCHANGED <<pc, item>>
        \/ /\ n # None /\ Changed = {} /\ kind[n] = "dir" /\ MeetsDestination(n)
           /\ Abandon
        \/ /\ n # None /\ Changed = {} /\ ~(kind[n] = "dir" /\ MeetsDestination(n))
           /\ kind[n] = "special" \/ p.act = "skip"
           /\ frames' = rest /\ Complain
           /\ UNCHANGED <<pc, item>>
        \/ /\ n # None /\ Changed = {} /\ ~(kind[n] = "dir" /\ MeetsDestination(n))
           /\ kind[n] # "special" /\ p.act # "skip"
           /\ frames' = rest
           /\ item' = [Entry(n, Inner.src, x, Inner.dst) EXCEPT
                        !.final = p.name, !.act = p.act]
           /\ pc' = CASE kind[n] = "dir" -> "opendir"
                      [] kind[n] = "link" -> "link"
                      [] OTHER -> "open"
           /\ UNCHANGED marks
  BY Zenon DEF WalkEntry
<1> DEFINE n == Lookup(Inner.src, x)
           rest == [frames EXCEPT ![Len(frames)].todo = @ \ {x}]
           p == Place(Inner.dst, x, kind[n])
           first == CHOOSE i \in Changed : \A j \in Changed : i <= j
<1>4. rest = [frames EXCEPT ![Len(frames)].todo = Inner.todo \ {x}]
  BY DEF Inner
<1> HIDE DEF rest
<1>5. x \in Name /\ Inner.src \in Node /\ Inner.dst \in Node /\ Inner.todo \ {x} \subseteq Name
  BY <1>2, <1>3 DEF Frame
<1>6. /\ rest \in Seq(Frame) /\ rest # <<>> /\ DOMAIN rest = DOMAIN frames /\ Len(rest) = Len(frames)
      /\ \A i \in DOMAIN rest : rest[i].src = frames[i].src /\ rest[i].dst = frames[i].dst
  BY <1>1, <1>4, <1>5, TodoSet
<1> HIDE DEF rest
<1>7. ASSUME frames' = rest \/ frames' = [rest EXCEPT ![first].changed = TRUE]
      PROVE  /\ frames' \in Seq(Frame) /\ frames' # <<>>
             /\ \A i \in DOMAIN frames' : kind[frames'[i].src] = "dir" /\ kind[frames'[i].dst] = "dir"
  <2> HIDE DEF first
  <2>1. \A i \in DOMAIN rest : kind[rest[i].src] = "dir" /\ kind[rest[i].dst] = "dir"
    BY <1>6 DEF JobOK, Sorted
  <2>2. CASE frames' = rest
    BY <2>1, <2>2, <1>6
  <2>3. CASE frames' = [rest EXCEPT ![first].changed = TRUE]
    <3>1. /\ frames' \in Seq(Frame) /\ DOMAIN frames' = DOMAIN rest /\ Len(frames') = Len(rest)
          /\ \A j \in DOMAIN frames' : frames'[j].src = rest[j].src /\ frames'[j].dst = rest[j].dst
      <4>1. LET g == [rest EXCEPT ![first].changed = TRUE] IN
            /\ g \in Seq(Frame) /\ DOMAIN g = DOMAIN rest /\ Len(g) = Len(rest)
            /\ \A j \in DOMAIN g : g[j].src = rest[j].src /\ g[j].dst = rest[j].dst
        BY <1>6, ChangedSet, Zenon
      <4> QED
        BY <2>3, <4>1, Zenon
    <3> QED
      BY <2>1, <3>1, <1>6
  <2> QED
    BY <1>7, <2>2, <2>3
<1>8. CASE (frames' = rest \/ frames' = [rest EXCEPT ![first].changed = TRUE]) /\ UNCHANGED <<pc, item>>
  <2> HIDE DEF first
  <2> QED
    BY <1>1, <1>7, <1>8 DEF JobOK, JobTyped, Sorted, TempIs, world
<1>9. CASE Abandon
  BY <1>1, <1>9, NoTempStays, AbandonJob DEF Abandon, JobOK, JobTyped, world
<1>10. CASE /\ n # None /\ kind[n] # "special" /\ p.act # "skip"
            /\ frames' = rest
            /\ item' = [Entry(n, Inner.src, x, Inner.dst) EXCEPT !.final = p.name, !.act = p.act]
            /\ pc' = CASE kind[n] = "dir" -> "opendir"
                      [] kind[n] = "link" -> "link"
                      [] OTHER -> "open"
  <2>1. n \in Node /\ kind[n] \in Kinds /\ kind[n] # "none"
    <3>1. n \in Node /\ at[n] = <<Inner.src, x>>
      BY <1>10, LookupFound, Zenon
    <3>2. <<Inner.src, x>> # Nowhere
      BY <1>5, SlotFacts
    <3> HIDE DEF n
    <3> QED
      BY <3>1, <3>2 DEF WorldOK
  <2>2. p.act \in {"create", "merge", "overwrite"} /\ p.name \in Name
    <3>1. p.act \in {"skip", "create", "merge", "overwrite"} /\ p.name \in Name
      BY <1>5, PlaceTyped, Zenon
    <3> HIDE DEF p
    <3> QED
      BY <1>10, <3>1
  <2> DEFINE e == Entry(n, Inner.src, x, Inner.dst)
  <2>3. e \in Task /\ e.id = n
    BY <2>1, <1>5, EntryTyped DEF Entry
  <2> HIDE DEF n, p, e
  <2>4. item' \in Task /\ item'.id = n
    BY <1>10, <2>2, <2>3 DEF Task, e
  <2>5. pc' \in {"opendir", "link", "open"}
        /\ (pc' = "opendir" => kind[n] = "dir") /\ (pc' = "link" => kind[n] = "link")
        /\ (pc' = "open" => kind[n] = "file")
    BY <2>1, <1>10 DEF Kinds
  <2>6. JobTyped'
    BY <1>1, <1>7, <1>10, <2>4, <2>5 DEF JobOK, JobTyped
  <2>7. Sorted'
    BY <1>1, <1>7, <1>10, <2>1, <2>4, <2>5 DEF JobOK, Sorted, world
  <2>8. TempIs'
    BY <1>1, <2>5 DEF JobOK, TempIs, world
  <2> QED
    BY <2>6, <2>7, <2>8 DEF JobOK
<1> QED
  BY <1>3, <1>8, <1>9, <1>10, Zenon DEF rest

LEMMA UnwindJob ==
  ASSUME WorldOK, JobOK, Unwind
  PROVE  JobOK'
<1>1. /\ pc = "walk" /\ item = NoItem /\ frames # <<>> /\ frames \in Seq(Frame) /\ UNCHANGED world
      /\ frames' = SubSeq(frames, 1, Len(frames) - 1)
      /\ pc' = (IF Len(frames) = 1 THEN "finish" ELSE "walk")
      /\ UNCHANGED <<left, root, item, tracked, del, ledger>>
  BY DEF Unwind, ledgerVars, JobOK, JobTyped
<1>4. Len(frames) \in Nat /\ Len(frames) > 0 /\ DOMAIN frames = 1 .. Len(frames)
      /\ \A i \in 1 .. Len(frames) : frames[i] \in Frame
  BY <1>1
<1>5. /\ frames' \in Seq(Frame) /\ Len(frames') = Len(frames) - 1
      /\ \A i \in 1 .. Len(frames) - 1 : frames'[i] = frames[i]
  <2> DEFINE m == Len(frames) - 1
  <2>1. m \in Nat /\ \A i \in 1 .. m : frames[i] \in Frame
    BY <1>4
  <2> HIDE DEF m
  <2>2. SubSeq(frames, 1, m) \in Seq(Frame) /\ Len(SubSeq(frames, 1, m)) = m
        /\ \A i \in 1 .. m : SubSeq(frames, 1, m)[i] = frames[i]
    BY <2>1, <1>1
  <2> QED
    BY <2>2, <1>1 DEF m
<1>2. /\ frames' \in Seq(Frame) /\ Len(frames') = Len(frames) - 1
      /\ \A i \in DOMAIN frames' : i \in DOMAIN frames /\ frames'[i] = frames[i]
  BY <1>4, <1>5
<1>3. frames' = <<>> <=> Len(frames) = 1
  BY <1>2, <1>4
<1>6. JobTyped'
  BY <1>1, <1>2, <1>3 DEF JobOK, JobTyped
<1>7. Sorted'
  BY <1>1, <1>2 DEF JobOK, Sorted, world
<1>8. TempIs'
  BY <1>1 DEF JobOK, TempIs, world
<1> QED
  BY <1>6, <1>7, <1>8 DEF JobOK

LEMMA OpenSourceJob ==
  ASSUME WorldOK, JobOK, OpenSource
  PROVE  JobOK'
<1>1. /\ pc = "open" /\ item \in Task /\ UNCHANGED world
      /\ UNCHANGED <<left, root, frames, tracked, del, ledger>>
  BY DEF OpenSource, context, JobOK, JobTyped
<1>2. CASE Leave(After)
  BY <1>1, <1>2, NoTempStays, LeaveJob DEF KindsKept, JobOK, JobTyped, world
<1>3. CASE /\ Lookup(item.dir, item.name) = item.id
           /\ item' = [item EXCEPT !.seen = stamp[Lookup(item.dir, item.name)]]
           /\ pc' \in {"settle", "build"}
  <2>1. item' \in Task /\ item'.id = item.id
    BY <1>1, <1>3 DEF Task, WorldOK
  <2> QED
    BY <1>1, <1>3, <2>1 DEF JobOK, JobTyped, Sorted, TempIs, world
<1> QED
  BY <1>2, <1>3 DEF OpenSource

LEMMA SettleJob ==
  ASSUME WorldOK, JobOK, Settle
  PROVE  JobOK'
<1>1. /\ pc = "settle" /\ item \in Task /\ UNCHANGED world
      /\ UNCHANGED <<left, root, frames, tracked, del, ledger>>
  BY DEF Settle, context, JobOK, JobTyped
<1>2. CASE Leave(After)
  BY <1>1, <1>2, NoTempStays, LeaveJob DEF KindsKept, JobOK, JobTyped, world
<1>3. CASE pc' = "build" /\ item' = item
  BY <1>1, <1>3 DEF JobOK, JobTyped, Sorted, TempIs, world
<1> QED
  BY <1>2, <1>3 DEF Settle

LEMMA ReadFirstJob ==
  ASSUME WorldOK, JobOK, ReadFirst
  PROVE  JobOK'
<1>1. /\ pc = "read" /\ item \in Task /\ UNCHANGED world /\ pc' = "more"
      /\ item' = [item EXCEPT !.half = data[item.id]]
      /\ UNCHANGED <<left, root, frames, tracked, del, ledger>>
  BY DEF ReadFirst, context, JobOK, JobTyped
<1>2. item' \in Task /\ item'.id = item.id /\ item'.new = item.new
      /\ item'.where = item.where /\ item'.temp = item.temp
  BY <1>1 DEF Task, WorldOK
<1> QED
  BY <1>1, <1>2 DEF JobOK, JobTyped, Sorted, TempIs, world

LEMMA RecordTyped ==
  ASSUME ledger \subseteq Entries, NEW e \in Entries, Record(e)
  PROVE  ledger' \subseteq Entries
BY DEF Record

LEMMA CloseCopyJob ==
  ASSUME WorldOK, JobOK, CloseCopy
  PROVE  JobOK'
<1>1. /\ pc = "record" /\ item \in Task /\ UNCHANGED world /\ Leave(After)
      /\ UNCHANGED <<left, root, frames, tracked, del>>
  BY DEF CloseCopy, context, JobOK, JobTyped
<1> DEFINE n == Lookup(item.ddir, item.final)
           e == [dir |-> item.dir, name |-> item.name, kind |-> kind[item.id],
            id |-> item.id, seen |-> item.seen, dname |-> item.final,
            did |-> IF n = item.new THEN n ELSE None,
            dseen |-> IF n = item.new THEN stamp[n] ELSE 0]
<1>2. e \in Entries
  BY <1>1 DEF Entries, Task, WorldOK, JobOK, Sorted
<1>3. ledger' \subseteq Entries
  <2>1. CASE ledger' = ledger
    BY <2>1 DEF JobOK, JobTyped
  <2>2. CASE Record(e)
    <3> HIDE DEF e
    <3> QED
      BY <2>2, <1>2, RecordTyped DEF JobOK, JobTyped
  <2> QED
    BY <2>1, <2>2 DEF CloseCopy, RecordPublished
<1> QED
  BY <1>1, <1>3, NoTempStays, LeaveJob DEF KindsKept, world

LEMMA FinishRootJob ==
  ASSUME WorldOK, JobOK, FinishRoot
  PROVE  JobOK'
<1>1. /\ pc = "finish" /\ UNCHANGED world /\ root \in Task
      /\ UNCHANGED <<left, root, frames, tracked, item, ledger>>
  BY DEF FinishRoot, JobOK, JobTyped
<1>2. CASE pc' = "root" /\ UNCHANGED del
  BY <1>1, <1>2 DEF JobOK, JobTyped, Sorted, TempIs, world
<1>3. CASE /\ pc' = "delete"
           /\ del' = <<[dir |-> Top, dst |-> Dst, mode |-> 0, entry |-> None,
                       kept |-> FALSE, todo |-> RootEntries]>>
  <2>1. RootEntries \subseteq Entries
    <3> DEFINE e == [dir |-> Top, name |-> root.name, kind |-> "dir", id |-> root.id,
           seen |-> root.mode, dname |-> root.final, did |-> root.new, dseen |-> 0]
    <3>1. e \in Entries
      BY <1>1, NodeAssumption DEF Task, Entries, Kinds
    <3> QED
      BY <3>1 DEF RootEntries, JobOK, JobTyped
  <2> DEFINE l == [dir |-> Top, dst |-> Dst, mode |-> 0, entry |-> None,
                       kept |-> FALSE, todo |-> RootEntries]
  <2>2. l \in Levels
    BY <2>1, NodeAssumption DEF Levels, WorldOK
  <2> HIDE DEF l
  <2>3. del' = <<l>> /\ del' \in Seq(Levels) /\ del' # <<>>
    BY <1>3, <2>2 DEF l
  <2> QED
    BY <1>1, <1>3, <2>3 DEF JobOK, JobTyped, Sorted, TempIs, world
<1> QED
  BY <1>2, <1>3 DEF FinishRoot

-----------------------------------------------------------------------------
(* The levels of a removal.                                                *)
\* The levels of f are those of d, with fewer entries left.
Shrunk(f, d) ==
    /\ f \in Seq(Levels) /\ Len(f) = Len(d)
    /\ \A i \in 1 .. Len(d) : /\ f[i].dir = d[i].dir /\ f[i].dst = d[i].dst /\ f[i].mode = d[i].mode
                              /\ f[i].entry = d[i].entry /\ f[i].todo \subseteq d[i].todo

LEMMA ShrunkAt ==
  ASSUME del \in Seq(Levels), NEW r \in Levels, NEW n, n \in 1 .. Len(del),
         r.dir = del[n].dir, r.dst = del[n].dst, r.mode = del[n].mode,
         r.entry = del[n].entry, r.todo \subseteq del[n].todo
  PROVE  Shrunk([del EXCEPT ![n] = r], del)
<1> DEFINE f == [del EXCEPT ![n] = r]
<1>1. Len(del) \in Nat /\ DOMAIN del = 1 .. Len(del) /\ \A i \in 1 .. Len(del) : del[i] \in Levels
  OBVIOUS
<1>2. f = [i \in 1 .. Len(del) |-> IF i = n THEN r ELSE del[i]]
  BY <1>1
<1> HIDE DEF f
<1>3. f \in [1 .. Len(del) -> Levels]
  BY <1>1, <1>2
<1>4. f \in Seq(Levels) /\ Len(f) = Len(del)
  BY <1>1, <1>3
<1>5. \A i \in 1 .. Len(del) : /\ f[i].dir = del[i].dir /\ f[i].dst = del[i].dst /\ f[i].mode = del[i].mode
                               /\ f[i].entry = del[i].entry /\ f[i].todo \subseteq del[i].todo
  BY <1>2
<1> QED
  BY <1>4, <1>5 DEF Shrunk, f

LEMMA LevelTyped ==
  ASSUME del \in Seq(Levels), del # <<>>
  PROVE  /\ Len(del) \in Nat /\ Len(del) > 0 /\ Len(del) \in 1 .. Len(del) /\ DOMAIN del = 1 .. Len(del)
         /\ Level \in Levels /\ Level = del[Len(del)]
         /\ Level.dir \in Node /\ Level.dst \in Node /\ Level.todo \subseteq Entries
<1>1. Len(del) \in Nat /\ Len(del) > 0 /\ DOMAIN del = 1 .. Len(del) /\ del[Len(del)] \in Levels
  OBVIOUS
<1> QED
  BY <1>1 DEF Level, Levels

LEMMA LessTodo ==
  ASSUME del \in Seq(Levels), del # <<>>, NEW e
  PROVE  Shrunk([del EXCEPT ![Len(del)].todo = @ \ {e}], del)
<1> DEFINE r == [Level EXCEPT !.todo = Level.todo \ {e}]
<1>1. Level \in Levels /\ Len(del) \in 1 .. Len(del) /\ Level = del[Len(del)]
  BY LevelTyped
<1>2. /\ r \in Levels /\ r.dir = Level.dir /\ r.dst = Level.dst /\ r.mode = Level.mode
      /\ r.entry = Level.entry /\ r.todo \subseteq Level.todo
  BY <1>1 DEF Levels
<1>3. [del EXCEPT ![Len(del)].todo = @ \ {e}] = [del EXCEPT ![Len(del)] = r]
  BY DEF Level
<1> HIDE DEF r
<1>4. Shrunk([del EXCEPT ![Len(del)] = r], del)
  BY <1>1, <1>2, ShrunkAt
<1> QED
  BY <1>3, <1>4

LEMMA LessTodoKept ==
  ASSUME del \in Seq(Levels), del # <<>>, NEW e, NEW k
  PROVE  Shrunk([del EXCEPT ![Len(del)].todo = @ \ {e}, ![Len(del)].kept = @ \/ k], del)
<1> DEFINE q == Level.kept \/ k
           r == [Level EXCEPT !.todo = Level.todo \ {e}, !.kept = q]
<1>1. Level \in Levels /\ Len(del) \in 1 .. Len(del) /\ Level = del[Len(del)]
  BY LevelTyped
<1>5. q \in BOOLEAN
  OBVIOUS
<1>3. [del EXCEPT ![Len(del)].todo = @ \ {e}, ![Len(del)].kept = @ \/ k] = [del EXCEPT ![Len(del)] = r]
  BY DEF Level
<1> HIDE DEF q
<1>2. /\ r \in Levels /\ r.dir = Level.dir /\ r.dst = Level.dst /\ r.mode = Level.mode
      /\ r.entry = Level.entry /\ r.todo \subseteq Level.todo
  BY <1>1, <1>5 DEF Levels
<1> HIDE DEF r
<1>4. Shrunk([del EXCEPT ![Len(del)] = r], del)
  BY <1>1, <1>2, ShrunkAt
<1> QED
  BY <1>3, <1>4

LEMMA LessTodoIsKept ==
  ASSUME del \in Seq(Levels), del # <<>>, NEW e
  PROVE  Shrunk([del EXCEPT ![Len(del)].todo = @ \ {e}, ![Len(del)].kept = TRUE], del)
<1> DEFINE r == [Level EXCEPT !.todo = Level.todo \ {e}, !.kept = TRUE]
<1>1. Level \in Levels /\ Len(del) \in 1 .. Len(del) /\ Level = del[Len(del)]
  BY LevelTyped
<1>3. [del EXCEPT ![Len(del)].todo = @ \ {e}, ![Len(del)].kept = TRUE] = [del EXCEPT ![Len(del)] = r]
  BY DEF Level
<1>2. /\ r \in Levels /\ r.dir = Level.dir /\ r.dst = Level.dst /\ r.mode = Level.mode
      /\ r.entry = Level.entry /\ r.todo \subseteq Level.todo
  BY <1>1 DEF Levels
<1> HIDE DEF r
<1>4. Shrunk([del EXCEPT ![Len(del)] = r], del)
  BY <1>1, <1>2, ShrunkAt
<1> QED
  BY <1>3, <1>4

LEMMA LowerShrinks ==
  ASSUME del \in Seq(Levels), Len(del) > 1, NEW k, Lower(k)
  PROVE  Shrunk(del', SubSeq(del, 1, Len(del) - 1)) /\ del' # <<>>
<1> DEFINE n == Len(del) - 1
           s == SubSeq(del, 1, n)
           q == del[n].kept \/ k
           r == [del[n] EXCEPT !.kept = q]
<1>1. n \in Nat /\ n > 0 /\ \A i \in 1 .. n : del[i] \in Levels
  OBVIOUS
<1>2. s \in Seq(Levels) /\ Len(s) = n /\ \A i \in 1 .. n : s[i] = del[i]
  <2> HIDE DEF n
  <2> QED
    BY <1>1
<1>3. del' = [i \in 1 .. n |-> IF i = n THEN r ELSE del[i]]
  BY DEF Lower
<1>4. q \in BOOLEAN
  OBVIOUS
<1> HIDE DEF q, n
<1>5. /\ r \in Levels /\ r.dir = del[n].dir /\ r.dst = del[n].dst /\ r.mode = del[n].mode
      /\ r.entry = del[n].entry /\ r.todo = del[n].todo
  BY <1>1, <1>4 DEF Levels
<1> HIDE DEF r, s
<1>6. del' \in [1 .. n -> Levels]
  BY <1>1, <1>3, <1>5
<1>7. del' \in Seq(Levels) /\ Len(del') = n
  BY <1>1, <1>6
<1>8. \A i \in 1 .. n : /\ del'[i].dir = s[i].dir /\ del'[i].dst = s[i].dst /\ del'[i].mode = s[i].mode
                        /\ del'[i].entry = s[i].entry /\ del'[i].todo \subseteq s[i].todo
  BY <1>2, <1>3, <1>5
<1> QED
  BY <1>1, <1>2, <1>7, <1>8 DEF Shrunk, s, n

LEMMA RemovingJob ==
  ASSUME WorldOK, JobOK, pc \in Removing, pc' \in Removing,
         del' \in Seq(Levels), del' # <<>>,
         pc' = "delete" => item' = NoItem, pc' \in Looking => item' \in Entries,
         UNCHANGED <<left, root, frames, tracked, ledger>>, NoTemp'
  PROVE  JobOK'
<1>1. JobTyped'
  BY DEF JobOK, JobTyped
<1>2. Sorted'
  BY DEF JobOK, JobTyped, Sorted
<1>3. TempIs'
  BY DEF NoTemp, TempIs
<1> QED
  BY <1>1, <1>2, <1>3 DEF JobOK

LEMMA RemovingTyped ==
  ASSUME JobOK, pc \in Removing
  PROVE  del \in Seq(Levels) /\ del # <<>> /\ frames = <<>>
BY DEF JobOK, JobTyped

LEMMA DropEntryDoes ==
  ASSUME JobOK, pc \in Looking, NEW k, DropEntry(k)
  PROVE  Shrunk(del', del) /\ del' \in Seq(Levels) /\ del' # <<>> /\ item' = NoItem /\ pc' = "delete"
<1>1. Shrunk([del EXCEPT ![Len(del)].todo = @ \ {item}, ![Len(del)].kept = @ \/ k], del)
  BY LessTodoKept, RemovingTyped
<1>2. del' = [del EXCEPT ![Len(del)].todo = @ \ {item}, ![Len(del)].kept = @ \/ k]
  BY DEF DropEntry
<1>3. Shrunk(del', del)
  BY <1>1, <1>2
<1>4. Len(del') = Len(del) /\ Len(del) \in Nat /\ Len(del) > 0 /\ del' \in Seq(Levels)
  BY <1>3, RemovingTyped, LevelTyped DEF Shrunk
<1>5. del' # <<>>
  BY <1>4
<1> QED
  BY <1>3, <1>4, <1>5 DEF DropEntry

LEMMA KeepEntryDoes ==
  ASSUME JobOK, pc \in Looking, KeepEntry
  PROVE  Shrunk(del', del) /\ del' \in Seq(Levels) /\ del' # <<>> /\ item' = NoItem /\ pc' = "delete"
BY DropEntryDoes DEF KeepEntry

LEMMA DeleteNextJob ==
  ASSUME WorldOK, JobOK, DeleteNext
  PROVE  JobOK'
<1>1. /\ pc = "delete" /\ item = NoItem /\ UNCHANGED world
      /\ UNCHANGED <<left, root, frames, tracked, ledger>>
      /\ del \in Seq(Levels) /\ del # <<>>
  BY DEF DeleteNext, removal, JobOK, JobTyped
<1>2. NoTemp'
  BY <1>1, NoTempStays DEF world
<1>3. /\ Len(del) \in Nat /\ Len(del) > 0 /\ Len(del) \in 1 .. Len(del)
      /\ Level.todo \subseteq Entries
  BY <1>1, LevelTyped
<1>4. CASE ~LevelsUnchanged /\ Lower(TRUE) /\ UNCHANGED <<pc, item>>
  <2>1. CASE Len(del) > 1
    <3>1. Shrunk(del', SubSeq(del, 1, Len(del) - 1)) /\ del' # <<>>
      BY <1>1, <1>4, <2>1, LowerShrinks
    <3>2. del' \in Seq(Levels)
      BY <3>1 DEF Shrunk
    <3> QED
      BY <1>1, <1>2, <1>4, <3>1, <3>2, RemovingJob
  <2>2. CASE Len(del) = 1
    <3>1. LevelsUnchanged
      BY <2>2 DEF LevelsUnchanged
    <3> QED
      BY <1>4, <3>1
  <2>3. Len(del) > 1 \/ Len(del) = 1
    BY <1>3
  <2> QED
    BY <2>1, <2>2, <2>3
<1>5. ASSUME LevelsUnchanged, NEW e \in Level.todo,
             LET n == Lookup(Level.dir, e.name)
                 d == Lookup(Level.dst, e.dname)
                 same == StillTheRecorded(n, e) /\ OpenRecordedDest(d, e)
             IN  \/ /\ e.kind # "dir"
                    /\ item' = e /\ pc' = "look"
                    /\ UNCHANGED <<del, marks>>
                 \/ /\ e.kind = "dir" /\ ~same
                    /\ Complain
                    /\ del' = [del EXCEPT ![Len(del)].todo = @ \ {e},
                                         ![Len(del)].kept = TRUE]
                    /\ UNCHANGED <<pc, item>>
                 \/ /\ e.kind = "dir" /\ same
                    /\ del' = Append([del EXCEPT ![Len(del)].todo = @ \ {e}],
                          [dir |-> n, dst |-> d, mode |-> e.seen, entry |-> e.name,
                           kept |-> FALSE, todo |-> {x \in ledger : x.dir = n}])
                    /\ UNCHANGED <<pc, item, marks>>
      PROVE  JobOK'
  <2> DEFINE n == Lookup(Level.dir, e.name)
             d == Lookup(Level.dst, e.dname)
  <2>1. e \in Entries
    BY <1>3, <1>5
  <2>2. CASE item' = e /\ pc' = "look" /\ UNCHANGED del
    BY <1>1, <1>2, <2>1, <2>2, RemovingJob
  <2>3. CASE del' = [del EXCEPT ![Len(del)].todo = @ \ {e}, ![Len(del)].kept = TRUE] /\ UNCHANGED <<pc, item>>
    <3>1. Shrunk(del', del)
      BY <1>1, <2>3, LessTodoIsKept
    <3>2. del' \in Seq(Levels) /\ Len(del') = Len(del)
      BY <3>1 DEF Shrunk
    <3>3. del' # <<>>
      BY <3>2, <1>3
    <3> QED
      BY <1>1, <1>2, <2>3, <3>2, <3>3, RemovingJob
  <2>4. CASE /\ StillTheRecorded(n, e) /\ OpenRecordedDest(d, e)
             /\ del' = Append([del EXCEPT ![Len(del)].todo = @ \ {e}],
                          [dir |-> n, dst |-> d, mode |-> e.seen, entry |-> e.name,
                           kept |-> FALSE, todo |-> {x \in ledger : x.dir = n}])
             /\ UNCHANGED <<pc, item>>
    <3> DEFINE s == [del EXCEPT ![Len(del)].todo = @ \ {e}]
               l == [dir |-> n, dst |-> d, mode |-> e.seen, entry |-> e.name,
                     kept |-> FALSE, todo |-> {x \in ledger : x.dir = n}]
    <3>1. Shrunk(s, del)
      BY <1>1, LessTodo
    <3>2. n \in Node /\ d \in Node
      BY <2>4 DEF StillTheRecorded, OpenRecordedDest, Dirs
    <3> HIDE DEF n, d
    <3>3. l \in Levels
      BY <2>1, <3>2 DEF Levels, Entries, JobOK, JobTyped
    <3> HIDE DEF s, l
    <3>4. s \in Seq(Levels)
      BY <3>1 DEF Shrunk
    <3>5. Append(s, l) \in Seq(Levels) /\ Append(s, l) # <<>>
      BY <3>3, <3>4, AppendProperties
    <3>6. del' = Append(s, l)
      BY <2>4 DEF s, l, n, d
    <3> QED
      BY <1>1, <1>2, <2>4, <3>5, <3>6, RemovingJob
  <2> QED
    BY <1>5, <2>2, <2>3, <2>4, Zenon
<1> QED
  BY <1>4, <1>5, Zenon DEF DeleteNext

LEMMA LookJob ==
  ASSUME WorldOK, JobOK, Look
  PROVE  JobOK'
<1>1. /\ pc = "look" /\ item \in Entries /\ UNCHANGED world
      /\ UNCHANGED <<left, root, frames, tracked, ledger>>
      /\ del \in Seq(Levels) /\ del # <<>>
  BY DEF Look, removal, JobOK, JobTyped
<1>2. NoTemp'
  BY <1>1, NoTempStays DEF world
<1>3. CASE KeepEntry
  BY <1>1, <1>2, <1>3, KeepEntryDoes, RemovingJob
<1>4. CASE DropEntry(FALSE)
  BY <1>1, <1>2, <1>4, DropEntryDoes, RemovingJob
<1>5. CASE pc' \in {"unlink", "compare"} /\ UNCHANGED <<item, del>>
  BY <1>1, <1>2, <1>5, RemovingJob
<1> QED
  BY <1>3, <1>4, <1>5 DEF Look

LEMMA CompareJob ==
  ASSUME WorldOK, JobOK, CompareFirst \/ CompareLast
  PROVE  JobOK'
<1>1. /\ pc \in {"compare", "compare2"} /\ item \in Entries /\ UNCHANGED world
      /\ UNCHANGED <<left, root, frames, tracked, ledger>>
      /\ del \in Seq(Levels) /\ del # <<>>
  BY DEF CompareFirst, CompareLast, removal, JobOK, JobTyped
<1>2. NoTemp'
  BY <1>1, NoTempStays DEF world
<1>3. CASE KeepEntry
  BY <1>1, <1>2, <1>3, KeepEntryDoes, RemovingJob
<1>5. CASE pc' \in {"unlink", "compare2"} /\ UNCHANGED <<item, del>>
  BY <1>1, <1>2, <1>5, RemovingJob
<1> QED
  BY <1>3, <1>5 DEF CompareFirst, CompareLast

LEMMA EndJob ==
  ASSUME WorldOK, JobOK, RootGone \/ StopDelete \/ Finish \/ Cancel
  PROVE  JobOK'
<1>1. CASE RootGone
  <2>1. NoTemp'
    BY <1>1, NoTempStays DEF RootGone, world
  <2> QED
    BY <1>1, <2>1 DEF RootGone, removal, JobOK, JobTyped, Sorted, TempIs, NoTemp
<1>2. CASE StopDelete
  <2>1. NoTemp'
    BY <1>2, NoTempStays DEF StopDelete, world
  <2> QED
    BY <1>2, <2>1 DEF StopDelete, Stop, JobOK, JobTyped, Sorted, TempIs, NoTemp
<1>3. CASE Finish
  <2>1. NoTemp'
    BY <1>3, NoTempStays DEF Finish, world
  <2> QED
    BY <1>3, <2>1 DEF Finish, ledgerVars, JobOK, JobTyped, Sorted, TempIs, NoTemp, world
<1>4. CASE Cancel
  BY <1>4 DEF Cancel, ledgerVars, JobOK, JobTyped, Sorted, TempIs, world
<1> QED
  BY <1>1, <1>2, <1>3, <1>4

LEMMA TickJob ==
  ASSUME WorldOK, JobOK, Tick, UNCHANGED job
  PROVE  WorldOK' /\ JobOK'
<1>1. WorldOK'
  BY DstSame DEF Tick, WorldOK, job, WellPlaced
<1>2. JobOK'
  BY DEF Tick, JobOK, JobTyped, Sorted, TempIs, job, ledgerVars
<1> QED
  BY <1>1, <1>2

LEMMA OthersJob ==
  ASSUME WorldOK, JobOK, OthersDid, UNCHANGED job
  PROVE  JobOK'
<1>1. /\ UNCHANGED <<pc, left, root, item, frames, tracked, del, ledger>>
  BY DEF job, ledgerVars
<1>2. JobTyped'
  BY <1>1 DEF JobOK, JobTyped
<1>3. \A i \in DOMAIN frames : kind'[frames[i].src] = "dir" /\ kind'[frames[i].dst] = "dir"
  BY FramesTyped DEF JobOK, JobTyped, Sorted, OthersDid
<1>4. pc \in Tasked => item.id \in Node /\ kind'[item.id] = kind[item.id]
  BY DEF JobOK, JobTyped, Sorted, OthersDid, Task
<1>5. pc \in Building \cup {"record", "pin"} => kind'[item.new] = kind[item.new]
  BY DEF JobOK, Sorted, OthersDid
<1>6. pc = "link0" => at'[item.new] = Nowhere
  BY DEF JobOK, Sorted, OthersDid
<1>7. Sorted'
  BY <1>1, <1>3, <1>4, <1>5, <1>6 DEF JobOK, Sorted
<1>8. ASSUME NEW m \in Node, at'[m] # Nowhere, at'[m][2] = Temp, at'[m][1] # Stage
      PROVE  at'[m] = at[m]
  BY <1>8, NameAssumption DEF OthersDid
<1>9. TempIs'
  BY <1>1, <1>8 DEF JobOK, TempIs
<1> QED
  BY <1>2, <1>7, <1>9 DEF JobOK

-----------------------------------------------------------------------------
(* The steps that change the tree.                                         *)
LEMMA MoveWorld ==
  ASSUME WorldOK, sc' = sc, NEW n \in Node, kind[n] # "none",
         NEW d \in Node \cup {Stage}, NEW x \in Name \cup {Temp},
         at' = Renamed(n, d, x), UNCHANGED <<kind, data, clock, budget, theirs>>,
         stamp' \in {stamp, [stamp EXCEPT ![n] = clock]}
  PROVE  /\ WorldOK' /\ at'[n] = <<d, x>>
         /\ \A m \in Node \ {n} : at'[m] \in {at[m], Nowhere} /\ stamp'[m] = stamp[m]
         /\ \A m \in Node : stamp'[m] \in {stamp[m], clock}
<1>1. WellPlaced(at') /\ at'[n] = <<d, x>>
  BY RenamedPlaces DEF WorldOK
<1>2. ASSUME NEW m \in Node, m # n
      PROVE  at'[m] \in {at[m], Nowhere}
  BY <1>2 DEF Renamed
<1>3. stamp' \in [Node -> Nat]
  BY DEF WorldOK
<1>4. \A m \in Node : at'[m] # Nowhere => kind'[m] # "none"
  BY <1>2 DEF WorldOK
<1>5. WorldOK'
  BY <1>1, <1>3, <1>4, DstSame DEF WorldOK
<1>6. \A m \in Node \ {n} : stamp'[m] = stamp[m]
  BY DEF WorldOK
<1>7. \A m \in Node : stamp'[m] \in {stamp[m], clock}
  BY DEF WorldOK
<1> QED
  BY <1>1, <1>2, <1>5, <1>6, <1>7

LEMMA UnlinkWorld ==
  ASSUME WorldOK, sc' = sc, NEW n \in Node, at' \in {at, Unlinked(n)},
         UNCHANGED <<kind, data, stamp, clock, budget, theirs>>
  PROVE  /\ WorldOK'
         /\ \A m \in Node : at'[m] \in {at[m], Nowhere}
         /\ \A m \in Node \ {n} : at'[m] = at[m]
<1>1. ASSUME NEW m \in Node
      PROVE  at'[m] \in {at[m], Nowhere} /\ (m # n => at'[m] = at[m])
  BY DEF Unlinked, WorldOK, WellPlaced
<1>2. WellPlaced(at')
  BY UnlinkedPlaces DEF WorldOK
<1>3. WorldOK'
  BY <1>1, <1>2, DstSame DEF WorldOK
<1> QED
  BY <1>1, <1>3

LEMMA NewWorld ==
  ASSUME WorldOK, sc' = sc, NEW n \in Node, kind[n] = "none", NEW k \in Kinds, k # "none",
         kind' = [kind EXCEPT ![n] = k],
         NEW c \in Content, data' \in {data, [data EXCEPT ![n] = c]},
         stamp' = [stamp EXCEPT ![n] = clock], UNCHANGED <<clock, budget, theirs>>,
         WellPlaced(at'), \A m \in Node \ {n} : at'[m] \in {at[m], Nowhere}
  PROVE  /\ WorldOK'
         /\ kind'[n] = k /\ \A m \in Node \ {n} : /\ kind'[m] = kind[m] /\ data'[m] = data[m]
                                                  /\ stamp'[m] = stamp[m]
<1>1. kind' \in [Node -> Kinds] /\ stamp' \in [Node -> Nat] /\ data' \in [Node -> Content]
  BY DEF WorldOK
<1>2. kind'[n] = k /\ \A m \in Node \ {n} : kind'[m] = kind[m] /\ stamp'[m] = stamp[m]
  BY DEF WorldOK
<1>3. \A m \in Node \ {n} : data'[m] = data[m]
  BY DEF WorldOK
<1>4. \A m \in Node : at'[m] # Nowhere => kind'[m] # "none"
  BY <1>2 DEF WorldOK
<1>5. kind'[Dst] = "dir" /\ kind'[Top] = "dir"
  BY <1>2, NodeAssumption DEF WorldOK
<1>6. WorldOK'
  BY <1>1, <1>4, <1>5, DstSame DEF WorldOK
<1> QED
  BY <1>2, <1>3, <1>6

\* What a step of the job may do to the tree.
JobDid ==
    /\ UNCHANGED <<clock, budget, theirs>>
    /\ \A n \in Node :
        /\ kind[n] # "none" => kind'[n] = kind[n]
        /\ kind[n] # "none" /\ at[n] = Nowhere =>
              at'[n] = Nowhere \/ (pc = "link0" /\ n = item.new)
        /\ \/ at'[n] \in {at[n], Nowhere}
           \/ kind[n] = "none"
           \/ pc = "rename" /\ n = item.id
           \/ pc \in {"pin", "link0", "publish"} /\ n = item.new
        /\ stamp'[n] \in {stamp[n], clock}
        /\ \/ data'[n] = data[n]
           \/ kind[n] = "none"
           \/ pc = "more" /\ n = item.new /\ stamp'[n] = clock

LEMMA StaysDid == ASSUME WorldOK, UNCHANGED world PROVE JobDid
BY DEF world, JobDid

LEMMA TryRenameJob ==
  ASSUME WorldOK, JobOK, TryRename
  PROVE  WorldOK' /\ JobOK' /\ JobDid
<1>1. /\ pc = "rename" /\ item \in Task /\ item.id \in Node /\ kind[item.id] # "none"
      /\ frames = <<>> /\ del = <<>> /\ sc' = sc
      /\ UNCHANGED <<left, root, frames, tracked, del, ledger>>
  BY DEF TryRename, ledgerVars, JobOK, JobTyped, Sorted, Task
<1>2. CASE UNCHANGED world /\ Leave("root")
  <2>1. JobOK'
    BY <1>1, <1>2 DEF Leave, JobOK, JobTyped, Sorted, TempIs, world
  <2> QED
    BY <1>1, <1>2, <2>1, WorldStays, StaysDid
<1>3. CASE UNCHANGED <<world, item>> /\ pc' = "begin"
  <2>1. JobOK'
    BY <1>1, <1>3 DEF JobOK, JobTyped, Sorted, TempIs, world
  <2> QED
    BY <1>1, <1>3, <2>1, WorldStays, StaysDid
<1>4. CASE /\ at' = Renamed(item.id, Dst, item.final)
           /\ stamp' = [stamp EXCEPT ![item.id] = clock]
           /\ Lookup(Top, item.name) = item.id
           /\ Leave("root") /\ UNCHANGED <<kind, data, clock, budget, theirs>>
  <2>1. Dst \in Node /\ item.final \in Name
    BY <1>1 DEF WorldOK, Task
  <2>2. /\ WorldOK' /\ at'[item.id] = <<Dst, item.final>>
        /\ \A m \in Node \ {item.id} : at'[m] \in {at[m], Nowhere} /\ stamp'[m] = stamp[m]
        /\ \A m \in Node : stamp'[m] \in {stamp[m], clock}
    BY <1>1, <1>4, <2>1, MoveWorld
  <2>3. at[item.id] # Nowhere
    <3>1. at[item.id] = <<Top, item.name>>
      BY <1>1, <1>4, LookupFound, NodeAssumption
    <3> QED
      BY <3>1 DEF Nowhere
  <2>4. JobDid
    BY <1>1, <1>4, <2>2, <2>3 DEF JobDid
  <2>5. NoTemp'
    BY <1>1, <2>1, <2>2, NameAssumption DEF JobOK, TempIs, NoTemp
  <2>6. JobOK'
    BY <1>1, <1>4, <2>5 DEF Leave, JobOK, JobTyped, Sorted, TempIs, NoTemp
  <2> QED
    BY <2>2, <2>4, <2>6
<1> QED
  BY <1>2, <1>3, <1>4 DEF TryRename

LEMMA AppendFrame ==
  ASSUME frames \in Seq(Frame), NEW f \in Frame
  PROVE  /\ Append(frames, f) \in Seq(Frame) /\ Append(frames, f) # <<>>
         /\ Len(Append(frames, f)) = Len(frames) + 1
         /\ DOMAIN Append(frames, f) = 1 .. Len(frames) + 1
         /\ \A i \in DOMAIN frames : Append(frames, f)[i] = frames[i]
         /\ Append(frames, f)[Len(frames) + 1] = f
<1>1. /\ Append(frames, f) \in Seq(Frame) /\ Append(frames, f) # <<>>
      /\ Len(Append(frames, f)) = Len(frames) + 1
      /\ \A i \in 1 .. Len(frames) : Append(frames, f)[i] = frames[i]
      /\ Append(frames, f)[Len(frames) + 1] = f
  BY AppendProperties
<1> QED
  BY <1>1

LEMMA EnterJob ==
  ASSUME WorldOK, JobOK, pc \in {"mkdir", "pin"}, NEW d \in Node, kind[d] = "dir",
         NEW c \in BOOLEAN, Enter(d, c), NoTemp', KindsKept, UNCHANGED <<left, del>>
  PROVE  JobOK'
<1>1. /\ item \in Task /\ item.id \in Node /\ item.mode \in Content /\ kind[item.id] = "dir"
      /\ frames \in Seq(Frame) /\ ledger \subseteq Entries /\ tracked \subseteq Node
      /\ root \in Task /\ del = <<>>
  BY DEF JobOK, JobTyped, Sorted, Task
<1>2. CASE ~Remembered(d)
  BY <1>1, <1>2, AbandonJob DEF Enter, Abandon
<1>3. CASE Remembered(d)
  <2> DEFINE f == [src |-> item.id, dst |-> d, mode |-> item.mode, changed |-> FALSE,
                   created |-> c, todo |-> {}]
             e == [dir |-> item.dir, name |-> item.name, kind |-> "dir",
                   id |-> item.id, seen |-> item.mode,
                   dname |-> item.final, did |-> d, dseen |-> 0]
  <2>1. f \in Frame /\ f.src = item.id /\ f.dst = d
    BY <1>1 DEF Frame
  <2>2. e \in Entries
    BY <1>1 DEF Entries, Task, Kinds
  <2>3. /\ tracked' = tracked \cup {d} /\ frames' = Append(frames, f)
        /\ Leave("opened")
    BY <1>3 DEF Enter
  <2>4. root' \in Task
    <3>1. [item EXCEPT !.new = d] \in Task
      BY <1>1 DEF Task
    <3> QED
      BY <1>1, <1>3, <3>1 DEF Enter
  <2>5. ledger' \subseteq Entries
    <3> HIDE DEF e
    <3>1. ledger' = ledger \/ Record(e)
      BY <1>3, Zenon DEF Enter, e
    <3> QED
      BY <1>1, <2>2, <3>1, RecordTyped
  <2> HIDE DEF f, e
  <2>6. /\ frames' \in Seq(Frame) /\ frames' # <<>> /\ DOMAIN frames' = 1 .. Len(frames) + 1
        /\ \A i \in DOMAIN frames : frames'[i] = frames[i]
        /\ frames'[Len(frames) + 1] = f
    BY <1>1, <2>1, <2>3, AppendFrame
  <2>7. JobTyped'
    BY <1>1, <2>3, <2>4, <2>5, <2>6 DEF Leave, JobOK, JobTyped
  <2>8. ASSUME NEW i \in DOMAIN frames'
        PROVE  kind'[frames'[i].src] = "dir" /\ kind'[frames'[i].dst] = "dir"
    <3>1. CASE i = Len(frames) + 1
      BY <3>1, <1>1, <2>1, <2>6 DEF KindsKept
    <3>2. CASE i # Len(frames) + 1
      <4>1. i \in DOMAIN frames
        BY <3>2, <2>6, <1>1
      <4>2. frames[i].src \in Node /\ frames[i].dst \in Node
        BY <4>1, <1>1, FramesTyped
      <4> QED
        BY <4>1, <4>2, <2>6 DEF KindsKept, JobOK, Sorted
    <3> QED
      BY <3>1, <3>2
  <2>9. Sorted'
    BY <2>3, <2>8 DEF Leave, Sorted
  <2>10. TempIs'
    BY DEF NoTemp, TempIs
  <2> QED
    BY <2>7, <2>9, <2>10 DEF JobOK
<1> QED
  BY <1>2, <1>3

LEMMA MakeDirJob ==
  ASSUME WorldOK, JobOK, MakeDir
  PROVE  WorldOK' /\ JobOK' /\ JobDid
<1> DEFINE there == Lookup(item.ddir, item.final)
           p == IF Staged THEN <<Stage, Temp>> ELSE <<item.ddir, item.final>>
<1>1. /\ pc = "mkdir" /\ item \in Task /\ item.id \in Node /\ kind[item.id] = "dir"
      /\ item.ddir \in Node /\ item.final \in Name /\ sc' = sc
      /\ UNCHANGED <<left, del>> /\ ledger \subseteq Entries
  BY DEF MakeDir, JobOK, JobTyped, Sorted, Task
<1>2. CASE UNCHANGED <<world, root, frames, tracked, ledger>> /\ Leave(After)
  <2>1. JobOK'
    BY <1>1, <1>2, NoTempStays, LeaveJob DEF KindsKept, world
  <2> QED
    BY <1>1, <1>2, <2>1, WorldStays, StaysDid
<1>3. CASE there \in Dirs /\ Enter(there, FALSE) /\ UNCHANGED world
  <2>1. there \in Node /\ kind[there] = "dir" /\ KindsKept /\ at' = at
    BY <1>3 DEF Dirs, KindsKept, world
  <2>2. JobOK'
    BY <1>1, <1>3, <2>1, NoTempStays, EnterJob
  <2> QED
    BY <1>1, <1>3, <2>2, WorldStays, StaysDid
<1>4. CASE /\ Unused # {} /\ Lookup(p[1], p[2]) = None
           /\ at' = Renamed(Spare, p[1], p[2])
           /\ kind' = [kind EXCEPT ![Spare] = "dir"]
           /\ stamp' = [stamp EXCEPT ![Spare] = clock]
           /\ item' = [item EXCEPT !.new = Spare, !.where = p[1], !.temp = p[2]]
           /\ pc' = "pin"
           /\ UNCHANGED <<data, clock, budget, theirs, root, frames, tracked, ledger>>
  <2> DEFINE n == Spare
  <2>1. n \in Node /\ kind[n] = "none" /\ at[n] = Nowhere /\ n # item.id
    BY <1>1, <1>4, SpareUnused DEF WorldOK
  <2>2. /\ p = <<p[1], p[2]>> /\ p[1] \in Node \cup {Stage} /\ p[2] \in Name \cup {Temp}
        /\ (p[2] = Temp => p[1] = Stage)
    <3>1. CASE Staged
      BY <3>1
    <3>2. CASE ~Staged
      BY <3>2, <1>1, NameAssumption
    <3> QED
      BY <3>1, <3>2
  <2> HIDE DEF p, n
  <2>3. /\ WellPlaced(at') /\ at'[n] = <<p[1], p[2]>>
    BY <1>4, <2>1, <2>2, RenamedPlaces DEF WorldOK, n
  <2>4. ASSUME NEW m \in Node, m # n
        PROVE  at'[m] \in {at[m], Nowhere}
    BY <1>4, <2>4 DEF Renamed, n
  <2>5. "dir" \in Kinds /\ kind' = [kind EXCEPT ![n] = "dir"] /\ stamp' = [stamp EXCEPT ![n] = clock]
        /\ UNCHANGED <<data, clock, budget, theirs>> /\ "first" # "none"
    BY <1>4 DEF Kinds, n
  <2>6. data[n] \in Content
    BY <2>1 DEF WorldOK
  <2>7. /\ WorldOK'
        /\ kind'[n] = "dir" /\ \A m \in Node \ {n} : /\ kind'[m] = kind[m] /\ data'[m] = data[m]
                                                     /\ stamp'[m] = stamp[m]
    BY <1>1, <2>1, <2>3, <2>4, <2>5, <2>6, NewWorld
  <2>8. JobDid
    BY <1>1, <2>1, <2>4, <2>5, <2>7 DEF JobDid, WorldOK
  <2>9. item' \in Task /\ item'.id = item.id /\ item'.new = n
    BY <1>1, <1>4, <2>1, <2>2 DEF Task, n
  <2>10. TempIs'
    BY <1>1, <1>4, <2>1, <2>2, <2>3, <2>4 DEF JobOK, TempIs
  <2>11. JobTyped'
    BY <1>1, <1>4, <2>9 DEF JobOK, JobTyped
  <2>12. \A i \in DOMAIN frames : kind'[frames[i].src] = "dir" /\ kind'[frames[i].dst] = "dir"
    BY <2>1, <2>7, FramesTyped DEF JobOK, JobTyped, Sorted
  <2>13. Sorted'
    BY <1>1, <1>4, <2>1, <2>7, <2>9, <2>12 DEF Sorted
  <2> QED
    BY <2>7, <2>8, <2>10, <2>11, <2>13 DEF JobOK
<1> QED
  BY <1>2, <1>3, <1>4 DEF MakeDir

LEMMA UnlinkDid ==
  ASSUME WorldOK, sc' = sc, NEW n \in Node, at' \in {at, Unlinked(n)},
         UNCHANGED <<kind, data, stamp, clock, budget, theirs>>
  PROVE  WorldOK' /\ JobDid /\ KindsKept
<1>1. WorldOK' /\ \A m \in Node : at'[m] \in {at[m], Nowhere}
  BY UnlinkWorld
<1> QED
  BY <1>1 DEF JobDid, KindsKept

LEMMA NoTempUnlinked ==
  ASSUME NEW n \in Node, at' \in {at, Unlinked(n)}, WorldOK, sc' = sc,
         UNCHANGED <<kind, data, stamp, clock, budget, theirs>>, NoTemp
  PROVE  NoTemp'
<1>1. \A m \in Node : at'[m] \in {at[m], Nowhere}
  BY UnlinkWorld
<1> QED
  BY <1>1 DEF NoTemp

LEMMA PinDirJob ==
  ASSUME WorldOK, JobOK, PinDir
  PROVE  WorldOK' /\ JobOK' /\ JobDid
<1>1. /\ pc = "pin" /\ item \in Task /\ item.id \in Node /\ kind[item.id] = "dir"
      /\ item.ddir \in Node /\ item.final \in Name /\ sc' = sc
      /\ item.new \in Node /\ kind[item.new] = "dir"
      /\ UNCHANGED <<kind, data, clock, budget, theirs, left, del>> /\ ledger \subseteq Entries
      /\ NoTemp
  BY DEF PinDir, JobOK, JobTyped, Sorted, Task, TempIs, NoTemp
<1>2. CASE at' \in {at, Unlinked(item.new)} /\ UNCHANGED <<stamp, root, frames, tracked, ledger>> /\ Leave(After)
  <2>1. WorldOK' /\ JobDid /\ KindsKept
    BY <1>1, <1>2, UnlinkDid
  <2>2. NoTemp'
    BY <1>1, <1>2, NoTempUnlinked
  <2>3. JobOK'
    BY <1>1, <1>2, <2>1, <2>2, LeaveJob
  <2> QED
    BY <2>1, <2>3
<1>3. CASE /\ Proved
           /\ at' = Renamed(item.new, item.ddir, item.final)
           /\ stamp' = [stamp EXCEPT ![item.new] = clock]
           /\ Enter(item.new, TRUE)
  <2>1. /\ WorldOK' /\ at'[item.new] = <<item.ddir, item.final>>
        /\ \A m \in Node \ {item.new} : at'[m] \in {at[m], Nowhere} /\ stamp'[m] = stamp[m]
        /\ \A m \in Node : stamp'[m] \in {stamp[m], clock}
    BY <1>1, <1>3, MoveWorld
  <2>2. at[item.new] # Nowhere
    <3>1. at[item.new] = <<item.where, item.temp>>
      BY <1>1, <1>3, LookupFound, NodeAssumption DEF Proved
    <3> QED
      BY <3>1 DEF Nowhere
  <2>3. JobDid
    BY <1>1, <2>1, <2>2 DEF JobDid
  <2>4. NoTemp'
    <3>1. item.final # Temp
      BY <1>1, NameAssumption
    <3> SUFFICES ASSUME NEW m \in Node, at'[m] # Nowhere, at'[m][2] = Temp
                 PROVE  at'[m][1] = Stage
      BY DEF NoTemp
    <3>2. at'[m] = at[m]
      BY <2>1, <3>1
    <3> QED
      BY <1>1, <3>2 DEF NoTemp
  <2>5. JobOK'
    <3>1. KindsKept /\ pc \in {"mkdir", "pin"} /\ UNCHANGED <<left, del>>
      BY <1>1 DEF KindsKept
    <3> QED
      BY <1>1, <1>3, <2>4, <3>1, EnterJob
  <2> QED
    BY <2>1, <2>3, <2>5
<1> QED
  BY <1>2, <1>3 DEF PinDir, DroppedDir

LEMMA BuildJob ==
  ASSUME WorldOK, JobOK, Build
  PROVE  WorldOK' /\ JobOK' /\ JobDid
<1> DEFINE p == BuildPlace
           w == IF p = Nowhere THEN item.ddir ELSE p[1]
           t == IF p # Nowhere THEN p[2] ELSE IF item.act = "overwrite" THEN Temp ELSE item.final
<1>1. /\ pc = "build" /\ item \in Task /\ item.id \in Node /\ kind[item.id] = "file"
      /\ item.ddir \in Node /\ item.final \in Name /\ sc' = sc
      /\ UNCHANGED <<left, root, frames, tracked, del, ledger>> /\ ledger \subseteq Entries
      /\ NoTemp
  BY DEF Build, context, JobOK, JobTyped, Sorted, Task, TempIs, NoTemp
<1>2. CASE UNCHANGED world /\ Leave(After)
  <2>1. JobOK'
    BY <1>1, <1>2, NoTempStays, LeaveJob DEF KindsKept, world
  <2> QED
    BY <1>1, <1>2, <2>1, WorldStays, StaysDid
<1>3. CASE /\ Unused # {} /\ (p # Nowhere => Lookup(p[1], p[2]) = None)
           /\ at' = [at EXCEPT ![Spare] = p]
           /\ kind' = [kind EXCEPT ![Spare] = "file"]
           /\ data' = [data EXCEPT ![Spare] = Partial(Spare)]
           /\ stamp' = [stamp EXCEPT ![Spare] = clock]
           /\ item' = [item EXCEPT !.new = Spare, !.where = w, !.temp = t]
           /\ pc' = "read"
           /\ UNCHANGED <<clock, budget, theirs>>
  <2> DEFINE n == Spare
  <2>1. n \in Node /\ kind[n] = "none" /\ at[n] = Nowhere /\ n # item.id
    BY <1>1, <1>3, SpareUnused DEF WorldOK
  <2>2. /\ w \in Node \cup {Stage} /\ t \in Name \cup {Temp}
        /\ p = Nowhere \/ p = <<w, t>>
    <3>1. p = Nowhere \/ p = <<Stage, Temp>> \/ p = <<item.ddir, Temp>> \/ p = <<item.ddir, item.final>>
      BY DEF BuildPlace
    <3>2. \A d, x : <<d, x>> # Nowhere
      BY DEF Nowhere
    <3> HIDE DEF p
    <3> QED
      BY <1>1, <3>1, <3>2
  <2>3. p \in Places /\ (p = Nowhere \/ \A m \in Node : at[m] # p)
    <3>1. p \in Places
      BY <2>2, SlotFacts DEF Places
    <3>2. CASE p # Nowhere
      <4>1. p = <<p[1], p[2]>> /\ Lookup(p[1], p[2]) = None
        BY <2>2, <3>2, <1>3
      <4> HIDE DEF p
      <4> QED
        BY <4>1, LookupFree, <3>1
    <3> QED
      BY <3>1, <3>2
  <2> HIDE DEF p, n, w, t
  <2>4. WellPlaced(at') /\ at'[n] = p /\ \A m \in Node \ {n} : at'[m] = at[m]
    <3>1. at' = [at EXCEPT ![n] = p]
      BY <1>3 DEF n
    <3>2. WellPlaced(at')
      BY <2>1, <2>3, <3>1, PutPlaces DEF WorldOK
    <3> QED
      BY <2>1, <3>1, <3>2 DEF WorldOK, WellPlaced
  <2>5. /\ "file" \in Kinds /\ kind' = [kind EXCEPT ![n] = "file"] /\ stamp' = [stamp EXCEPT ![n] = clock]
        /\ UNCHANGED <<clock, budget, theirs>> /\ data' = [data EXCEPT ![n] = Partial(n)]
    BY <1>3 DEF Kinds, n
  <2>6. Partial(n) \in Content
    BY <2>1 DEF Partial, Content
  <2>7. /\ WorldOK'
        /\ kind'[n] = "file" /\ \A m \in Node \ {n} : /\ kind'[m] = kind[m] /\ data'[m] = data[m]
                                                     /\ stamp'[m] = stamp[m]
    BY <1>1, <2>1, <2>4, <2>5, <2>6, NewWorld
  <2>8. JobDid
    BY <1>1, <2>1, <2>4, <2>5, <2>7 DEF JobDid, WorldOK
  <2>9. item' \in Task /\ item'.id = item.id /\ item'.new = n /\ item'.where = w /\ item'.temp = t
    BY <1>1, <1>3, <2>1, <2>2 DEF Task, n
  <2>10. TempIs'
    BY <1>1, <1>3, <2>1, <2>2, <2>4, <2>9 DEF NoTemp, TempIs
  <2>11. JobTyped'
    BY <1>1, <1>3, <2>9 DEF JobOK, JobTyped
  <2>12. \A i \in DOMAIN frames : kind'[frames[i].src] = "dir" /\ kind'[frames[i].dst] = "dir"
    BY <2>1, <2>7, FramesTyped DEF JobOK, JobTyped, Sorted
  <2>13. Sorted'
    BY <1>1, <1>3, <2>1, <2>7, <2>9, <2>12 DEF Sorted
  <2> QED
    BY <2>7, <2>8, <2>10, <2>11, <2>13 DEF JobOK
<1> QED
  BY <1>2, <1>3 DEF Build

LEMMA ReadLastJob ==
  ASSUME WorldOK, JobOK, ReadLast
  PROVE  WorldOK' /\ JobOK' /\ JobDid
<1> DEFINE c == IF data[item.id] = item.half THEN item.half ELSE Torn(item.new)
<1>1. /\ pc = "more" /\ item \in Task /\ sc' = sc /\ item.new \in Node /\ kind[item.new] = "file"
      /\ data' = [data EXCEPT ![item.new] = c]
      /\ stamp' = [stamp EXCEPT ![item.new] = clock]
      /\ pc' = "verify"
      /\ UNCHANGED <<at, kind, clock, budget, theirs, item, left, root, frames, tracked, del, ledger>>
  BY DEF ReadLast, context, JobOK, JobTyped, Sorted
<1>2. c \in Content
  BY <1>1 DEF Task, Torn, Content
<1> HIDE DEF c
<1>3. data' \in [Node -> Content] /\ stamp' \in [Node -> Nat]
      /\ \A m \in Node : (m # item.new => data'[m] = data[m]) /\ stamp'[m] \in {stamp[m], clock}
  BY <1>1, <1>2 DEF WorldOK
<1>4. WorldOK'
  BY <1>1, <1>3, DstSame DEF WorldOK
<1>5. JobDid
  BY <1>1, <1>3 DEF JobDid
<1>6. JobOK'
  BY <1>1 DEF JobOK, JobTyped, Sorted, TempIs
<1> QED
  BY <1>4, <1>5, <1>6

LEMMA DiscardedIs ==
  ASSUME WorldOK, JobOK, pc \in Building, at' = Discarded, sc' = sc,
         UNCHANGED <<kind, data, stamp, clock, budget, theirs>>
  PROVE  /\ at' \in {at, Unlinked(item.new)} /\ NoTemp'
         /\ at'[item.new] = IF at[item.new] = <<item.where, item.temp>> THEN Nowhere ELSE at[item.new]
<1>1. item.new \in Node /\ item.new # None
  BY NodeAssumption DEF JobOK, Sorted
<1>2. CASE at[item.new] = <<item.where, item.temp>>
  <2>1. at' = Unlinked(item.new)
    BY <1>1, <1>2 DEF Discarded
  <2>2. at'[item.new] = Nowhere /\ \A m \in Node \ {item.new} : at'[m] = at[m]
    BY <1>1, <2>1, UnlinkedPlaces DEF WorldOK
  <2>3. NoTemp'
    BY <1>1, <2>2 DEF JobOK, TempIs, NoTemp
  <2> QED
    BY <1>2, <2>1, <2>2, <2>3
<1>3. CASE at[item.new] # <<item.where, item.temp>>
  <2>1. at' = at
    BY <1>3 DEF Discarded
  <2>2. NoTemp'
    BY <1>3, <2>1 DEF JobOK, TempIs, NoTemp
  <2> QED
    BY <1>3, <2>1, <2>2
<1> QED
  BY <1>2, <1>3

LEMMA GiveUpJob ==
  ASSUME WorldOK, JobOK, pc \in Building, GiveUpFile, sc' = sc,
         UNCHANGED <<kind, data, stamp, clock, budget, theirs>>,
         UNCHANGED <<left, root, frames, tracked, del, ledger>>
  PROVE  WorldOK' /\ JobOK' /\ JobDid
<1>1. at' = Discarded /\ Leave(After) /\ item.new \in Node /\ ledger \subseteq Entries
  BY DEF GiveUpFile, JobOK, JobTyped, Sorted
<1>2. at' \in {at, Unlinked(item.new)} /\ NoTemp'
  BY <1>1, DiscardedIs
<1>3. WorldOK' /\ JobDid /\ KindsKept
  BY <1>1, <1>2, UnlinkDid
<1>4. JobOK'
  BY <1>1, <1>2, <1>3, LeaveJob
<1> QED
  BY <1>3, <1>4

LEMMA VerifyJob ==
  ASSUME WorldOK, JobOK, Verify
  PROVE  WorldOK' /\ JobOK' /\ JobDid
<1>1. /\ pc = "verify" /\ sc' = sc /\ item \in Task
      /\ UNCHANGED <<kind, data, stamp, clock, budget, theirs>>
      /\ UNCHANGED <<left, root, frames, tracked, del, ledger>>
  BY DEF Verify, context, JobOK, JobTyped
<1>2. CASE GiveUpFile
  BY <1>1, <1>2, GiveUpJob
<1>3. CASE /\ pc' = IF at[item.new] = Nowhere /\ sc.build = "unnamed" THEN "link0" ELSE "publish"
           /\ UNCHANGED <<at, item>>
  <2>1. JobOK'
    BY <1>1, <1>3 DEF JobOK, JobTyped, Sorted, TempIs
  <2> QED
    BY <1>1, <1>3, <2>1, WorldStays, StaysDid DEF world
<1> QED
  BY <1>2, <1>3 DEF Verify

LEMMA LinkUnnamedJob ==
  ASSUME WorldOK, JobOK, LinkUnnamed
  PROVE  WorldOK' /\ JobOK' /\ JobDid
<1>1. /\ pc = "link0" /\ sc' = sc /\ item \in Task /\ item.new \in Node /\ kind[item.new] = "file"
      /\ at[item.new] = Nowhere /\ item.where \in Node \cup {Stage} /\ item.temp \in Name \cup {Temp}
      /\ UNCHANGED <<kind, data, clock, budget, theirs>>
      /\ UNCHANGED <<left, root, frames, tracked, del, ledger>> /\ ledger \subseteq Entries
  BY DEF LinkUnnamed, context, JobOK, JobTyped, Sorted, Task
<1>2. CASE Leave(After) /\ UNCHANGED <<at, stamp>>
  <2>1. NoTemp'
    BY <1>1, <1>2 DEF JobOK, TempIs, NoTemp
  <2>2. JobOK'
    BY <1>1, <1>2, <2>1, LeaveJob DEF KindsKept
  <2> QED
    BY <1>1, <1>2, <2>2, WorldStays, StaysDid DEF world
<1>3. CASE /\ Lookup(item.where, item.temp) = None
           /\ at' = [at EXCEPT ![item.new] = <<item.where, item.temp>>]
           /\ stamp' = [stamp EXCEPT ![item.new] = clock]
           /\ pc' = "publish" /\ UNCHANGED item
  <2> DEFINE p == <<item.where, item.temp>>
  <2>1. p \in Places /\ \A m \in Node : at[m] # p
    BY <1>1, <1>3, SlotFacts, LookupFree
  <2>2. WellPlaced(at')
    BY <1>1, <1>3, <2>1, PutPlaces DEF WorldOK
  <2>3. at'[item.new] = p /\ \A m \in Node \ {item.new} : at'[m] = at[m]
    BY <1>1, <1>3 DEF WorldOK, WellPlaced
  <2>4. stamp' \in [Node -> Nat] /\ \A m \in Node : stamp'[m] \in {stamp[m], clock}
    BY <1>3 DEF WorldOK
  <2> HIDE DEF p
  <2>5. WorldOK'
    BY <1>1, <2>2, <2>3, <2>4, DstSame DEF WorldOK
  <2>6. JobDid
    BY <1>1, <2>3, <2>4 DEF JobDid
  <2>7. TempIs'
    BY <1>1, <1>3, <2>3 DEF p, JobOK, TempIs
  <2>8. JobTyped' /\ Sorted'
    BY <1>1, <1>3 DEF JobOK, JobTyped, Sorted
  <2> QED
    BY <2>5, <2>6, <2>7, <2>8 DEF JobOK
<1> QED
  BY <1>2, <1>3 DEF LinkUnnamed

LEMMA PublishJob ==
  ASSUME WorldOK, JobOK, Publish
  PROVE  WorldOK' /\ JobOK' /\ JobDid
<1>1. /\ pc = "publish" /\ sc' = sc /\ item \in Task /\ item.new \in Node /\ kind[item.new] = "file"
      /\ item.ddir \in Node /\ item.final \in Name
      /\ UNCHANGED <<kind, data, clock, budget, theirs>>
      /\ UNCHANGED <<left, root, frames, tracked, del, ledger>> /\ ledger \subseteq Entries
  BY DEF Publish, context, JobOK, JobTyped, Sorted, Task
<1>2. CASE ~StillOurs /\ Leave(After) /\ UNCHANGED <<at, stamp>>
  <2>1. NoTemp'
    BY <1>1, <1>2 DEF JobOK, TempIs, NoTemp, StillOurs
  <2>2. JobOK'
    BY <1>1, <1>2, <2>1, LeaveJob DEF KindsKept
  <2> QED
    BY <1>1, <1>2, <2>2, WorldStays, StaysDid DEF world
<1>3. CASE GiveUpFile /\ UNCHANGED stamp
  BY <1>1, <1>3, GiveUpJob
<1>4. CASE /\ StillOurs
           /\ at' = Renamed(item.new, item.ddir, item.final)
           /\ stamp' = IF InPlace THEN stamp ELSE [stamp EXCEPT ![item.new] = clock]
           /\ pc' = "record" /\ UNCHANGED item
  <2>1. /\ WorldOK' /\ at'[item.new] = <<item.ddir, item.final>>
        /\ \A m \in Node \ {item.new} : at'[m] \in {at[m], Nowhere} /\ stamp'[m] = stamp[m]
        /\ \A m \in Node : stamp'[m] \in {stamp[m], clock}
    BY <1>1, <1>4, MoveWorld
  <2>2. at[item.new] # Nowhere
    BY <1>4 DEF StillOurs, Nowhere
  <2>3. JobDid
    BY <1>1, <2>1, <2>2 DEF JobDid
  <2>4. TempIs'
    BY <1>1, <2>1, NameAssumption DEF JobOK, TempIs
  <2>5. JobTyped' /\ Sorted'
    BY <1>1, <1>4 DEF JobOK, JobTyped, Sorted
  <2> QED
    BY <2>1, <2>3, <2>4, <2>5 DEF JobOK
<1> QED
  BY <1>2, <1>3, <1>4 DEF Publish

LEMMA CopyLinkJob ==
  ASSUME WorldOK, JobOK, CopyLink
  PROVE  WorldOK' /\ JobOK' /\ JobDid
<1>1. /\ pc = "link" /\ item \in Task /\ item.id \in Node /\ kind[item.id] = "link"
      /\ item.ddir \in Node /\ item.final \in Name /\ sc' = sc
      /\ UNCHANGED <<left, root, frames, tracked, del, ledger>> /\ ledger \subseteq Entries
      /\ NoTemp
  BY DEF CopyLink, context, JobOK, JobTyped, Sorted, Task, TempIs, NoTemp
<1>2. CASE UNCHANGED world /\ Leave(After)
  <2>1. JobOK'
    BY <1>1, <1>2, NoTempStays, LeaveJob DEF KindsKept, world
  <2> QED
    BY <1>1, <1>2, <2>1, WorldStays, StaysDid
<1>3. CASE /\ Lookup(item.dir, item.name) = item.id /\ Unused # {}
           /\ at' = Renamed(Spare, item.ddir, item.final)
           /\ kind' = [kind EXCEPT ![Spare] = "link"]
           /\ data' = [data EXCEPT ![Spare] = data[Lookup(item.dir, item.name)]]
           /\ stamp' = [stamp EXCEPT ![Spare] = clock]
           /\ item' = [item EXCEPT !.new = Spare]
           /\ pc' = "record"
           /\ UNCHANGED <<clock, budget, theirs>>
  <2> DEFINE n == Spare
  <2>1. n \in Node /\ kind[n] = "none" /\ at[n] = Nowhere /\ n # item.id
    BY <1>1, <1>3, SpareUnused DEF WorldOK
  <2> HIDE DEF n
  <2>2. WellPlaced(at') /\ at'[n] = <<item.ddir, item.final>>
    BY <1>1, <1>3, <2>1, RenamedPlaces DEF WorldOK, n
  <2>4. ASSUME NEW m \in Node, m # n
        PROVE  at'[m] \in {at[m], Nowhere}
    BY <1>3, <2>4 DEF Renamed, n
  <2>5. /\ "link" \in Kinds /\ kind' = [kind EXCEPT ![n] = "link"] /\ stamp' = [stamp EXCEPT ![n] = clock]
        /\ UNCHANGED <<clock, budget, theirs>> /\ data' = [data EXCEPT ![n] = data[item.id]]
    BY <1>3 DEF Kinds, n
  <2>6. data[item.id] \in Content
    BY <1>1 DEF WorldOK
  <2>7. /\ WorldOK'
        /\ kind'[n] = "link" /\ \A m \in Node \ {n} : /\ kind'[m] = kind[m] /\ data'[m] = data[m]
                                                     /\ stamp'[m] = stamp[m]
    BY <1>1, <2>1, <2>2, <2>4, <2>5, <2>6, NewWorld
  <2>8. JobDid
    BY <1>1, <2>1, <2>4, <2>5, <2>7 DEF JobDid, WorldOK
  <2>9. item' \in Task /\ item'.id = item.id /\ item'.new = n
    BY <1>1, <1>3, <2>1 DEF Task, n
  <2>10. TempIs'
    BY <1>1, <2>2, <2>4, NameAssumption DEF NoTemp, TempIs
  <2>11. JobTyped'
    BY <1>1, <1>3, <2>9 DEF JobOK, JobTyped
  <2>12. \A i \in DOMAIN frames : kind'[frames[i].src] = "dir" /\ kind'[frames[i].dst] = "dir"
    BY <2>1, <2>7, FramesTyped DEF JobOK, JobTyped, Sorted
  <2>13. Sorted'
    BY <1>1, <1>3, <2>1, <2>7, <2>9, <2>12 DEF Sorted
  <2> QED
    BY <2>7, <2>8, <2>10, <2>11, <2>13 DEF JobOK
<1> QED
  BY <1>2, <1>3 DEF CopyLink

LEMMA StopCopyJob ==
  ASSUME WorldOK, JobOK, StopCopy
  PROVE  WorldOK' /\ JobOK' /\ JobDid
<1>1. /\ pc \in {"root", "walk", "read", "more"} /\ sc' = sc /\ Stop
      /\ UNCHANGED <<kind, data, stamp, clock, budget, theirs>>
      /\ UNCHANGED <<left, root, tracked, ledger>> /\ ledger \subseteq Entries
      /\ at' = IF pc \in {"read", "more"} THEN Discarded ELSE at
  BY DEF StopCopy, JobOK, JobTyped
<1>2. WorldOK' /\ JobDid /\ NoTemp'
  <2>1. CASE pc \in {"read", "more"}
    <3>1. item.new \in Node
      BY <2>1 DEF JobOK, Sorted
    <3>2. at' \in {at, Unlinked(item.new)} /\ NoTemp'
      BY <1>1, <2>1, DiscardedIs
    <3> QED
      BY <1>1, <3>1, <3>2, UnlinkDid
  <2>2. CASE pc \in {"root", "walk"}
    <3>1. at' = at
      BY <1>1, <2>2
    <3> QED
      BY <1>1, <2>2, <3>1, WorldStays, StaysDid, NoTempStays DEF world
  <2> QED
    BY <1>1, <2>1, <2>2
<1>3. JobTyped'
  BY <1>1 DEF Stop, JobOK, JobTyped
<1>4. Sorted' /\ TempIs'
  BY <1>1, <1>2 DEF Stop, Sorted, TempIs, NoTemp
<1> QED
  BY <1>2, <1>3, <1>4 DEF JobOK

LEMMA UnlinkEntryJob ==
  ASSUME WorldOK, JobOK, UnlinkEntry
  PROVE  WorldOK' /\ JobOK' /\ JobDid
<1>1. /\ pc = "unlink" /\ sc' = sc /\ item \in Entries /\ item.id \in Node
      /\ UNCHANGED <<kind, data, stamp, clock, budget, theirs>>
      /\ UNCHANGED <<left, root, frames, tracked, ledger>>
      /\ at' \in {at, Unlinked(item.id)} /\ NoTemp
  BY DEF UnlinkEntry, removal, JobOK, JobTyped, Entries, TempIs, NoTemp
<1>2. WorldOK' /\ JobDid /\ NoTemp'
  BY <1>1, UnlinkDid, NoTempUnlinked
<1>3. del' \in Seq(Levels) /\ del' # <<>> /\ item' = NoItem /\ pc' = "delete"
  BY <1>1, KeepEntryDoes, DropEntryDoes DEF UnlinkEntry
<1>4. JobOK'
  BY <1>1, <1>2, <1>3, RemovingJob
<1> QED
  BY <1>2, <1>4

LEMMA RemoveDirJob ==
  ASSUME WorldOK, JobOK, RemoveDir
  PROVE  WorldOK' /\ JobOK' /\ JobDid
<1>1. /\ pc = "delete" /\ sc' = sc /\ Len(del) > 1 /\ item = NoItem
      /\ del \in Seq(Levels) /\ del # <<>>
      /\ UNCHANGED <<kind, data, stamp, clock, budget, theirs>>
      /\ UNCHANGED <<left, root, frames, tracked, ledger, pc, item>>
      /\ at' \in {at, Unlinked(Level.dir)} /\ NoTemp
      /\ Lower(TRUE) \/ Lower(Level.kept)
  BY DEF RemoveDir, removal, JobOK, JobTyped, TempIs, NoTemp
<1>2. WorldOK' /\ JobDid /\ NoTemp'
  BY <1>1, LevelTyped, UnlinkDid, NoTempUnlinked
<1>3. Shrunk(del', SubSeq(del, 1, Len(del) - 1)) /\ del' # <<>>
  BY <1>1, LowerShrinks
<1>4. JobOK'
  BY <1>1, <1>2, <1>3, RemovingJob DEF Shrunk
<1> QED
  BY <1>2, <1>4

-----------------------------------------------------------------------------
(* Together: the tree and the job are always well formed.                  *)
\* The tree and the job are well formed.
Base == WorldOK /\ JobOK

\* The steps of the job that leave the tree alone.
Thinks ==
    \/ TakeRoot \/ PlaceRoot \/ BeginCopy \/ OpenDir \/ Opened \/ WalkEntry \/ Unwind
    \/ OpenSource \/ Settle \/ ReadFirst \/ CloseCopy \/ FinishRoot \/ DeleteNext \/ Look
    \/ CompareFirst \/ CompareLast \/ RootGone \/ StopDelete \/ Finish
Acts ==
    \/ TryRename \/ MakeDir \/ PinDir \/ Build \/ ReadLast \/ Verify \/ LinkUnnamed
    \/ Publish \/ CopyLink \/ StopCopy \/ UnlinkEntry \/ RemoveDir

LEMMA ThinksStays ==
  ASSUME Thinks
  PROVE  UNCHANGED <<world, sc>>
<1>1. CASE TakeRoot \/ PlaceRoot \/ BeginCopy \/ OpenDir \/ Opened
  BY <1>1 DEF TakeRoot, PlaceRoot, BeginCopy, OpenDir, Opened
<1>2. CASE WalkEntry \/ Unwind \/ OpenSource \/ Settle \/ ReadFirst \/ CloseCopy
  BY <1>2, Zenon DEF WalkEntry, Unwind, OpenSource, Settle, ReadFirst, CloseCopy, context
<1>3. CASE FinishRoot \/ DeleteNext \/ Look \/ CompareFirst \/ CompareLast
  BY <1>3 DEF FinishRoot, DeleteNext, Look, CompareFirst, CompareLast, removal
<1>4. CASE RootGone \/ StopDelete \/ Finish
  BY <1>4 DEF RootGone, StopDelete, Finish, removal
<1> QED
  BY <1>1, <1>2, <1>3, <1>4, Zenon DEF Thinks

LEMMA ThinksBase ==
  ASSUME Base, Thinks
  PROVE  Base' /\ JobDid
<1>1. WorldOK' /\ JobDid
  BY ThinksStays, WorldStays, StaysDid DEF Base
<1>2. JobOK'
  BY TakeRootJob, PlaceRootJob, BeginCopyJob, OpenDirJob, OpenedJob, WalkEntryJob, UnwindJob,
     OpenSourceJob, SettleJob, ReadFirstJob, CloseCopyJob, FinishRootJob, DeleteNextJob, LookJob,
     CompareJob, EndJob, Zenon DEF Thinks, Base
<1> QED
  BY <1>1, <1>2 DEF Base

LEMMA ActsBase ==
  ASSUME Base, Acts
  PROVE  Base' /\ JobDid
BY TryRenameJob, MakeDirJob, PinDirJob, BuildJob, ReadLastJob, VerifyJob, LinkUnnamedJob,
   PublishJob, CopyLinkJob, StopCopyJob, UnlinkEntryJob, RemoveDirJob, Zenon DEF Acts, Base

LEMMA OthersBase ==
  ASSUME Base, Others
  PROVE  Base' /\ OthersDid /\ UNCHANGED job
<1>1. OthersStep(start.places) /\ UNCHANGED job /\ sc' = sc
  BY DEF Others, job
<1>2. WorldOK' /\ OthersDid
  BY <1>1, OthersWorld DEF Base
<1> QED
  BY <1>1, <1>2, OthersJob DEF Base

\* Every step is one of the job, of the others, or of the clock.
LEMMA StepIs ==
  ASSUME [Next]_vars
  PROVE  Thinks \/ Acts \/ Cancel \/ (Tick /\ UNCHANGED job) \/ Others \/ UNCHANGED vars
BY Zenon DEF Next, Job, Thinks, Acts

LEMMA CancelBase ==
  ASSUME Base, Cancel
  PROVE  Base' /\ JobDid
<1>1. UNCHANGED world /\ sc' = sc
  BY DEF Cancel
<1> QED
  BY <1>1, WorldStays, StaysDid, EndJob DEF Base

LEMMA BaseStep ==
  ASSUME Base, [Next]_vars
  PROVE  Base'
<1>1. CASE UNCHANGED vars
  <2>1. UNCHANGED world /\ UNCHANGED <<sc, pc, left, root, item, frames, tracked, del, ledger>>
    BY <1>1 DEF vars, ledgerVars
  <2>2. WorldOK'
    BY <2>1, WorldStays DEF Base
  <2>3. JobOK'
    BY <2>1 DEF Base, JobOK, JobTyped, Sorted, TempIs, world
  <2> QED
    BY <2>2, <2>3 DEF Base
<1> QED
  BY <1>1, StepIs, ThinksBase, ActsBase, CancelBase, TickJob, OthersBase, Zenon DEF Base

LEMMA InitBase ==
  ASSUME Init
  PROVE  Base
<1> DEFINE l == Layout[sc.tree]
<1>1. sc \in Scenarios /\ sc.tree \in DOMAIN Layout /\ sc.others \in Nat
  BY ScenarioAssumption DEF Init
<1>2. /\ l.at \in [Node -> {Nowhere} \cup Node \X Name]
      /\ l.kind \in [Node -> Kinds]
      /\ l.data \in [Node -> {"first"} \X Nat]
      /\ l.stamp = [n \in Node |-> 0]
      /\ l.roots \in Seq(Name)
      /\ l.dst \in Node /\ l.kind[l.dst] = "dir" /\ l.kind[Top] = "dir"
      /\ \A n \in Node : l.at[n] # Nowhere =>
              /\ l.kind[n] # "none"
              /\ \A m \in Node : l.at[m] = l.at[n] => m = n
  BY <1>1, LayoutAssumption
<1>3. /\ at = l.at /\ kind = l.kind /\ data = l.data /\ stamp = l.stamp /\ left = l.roots
      /\ Dst = l.dst /\ budget = sc.others /\ clock = 0 /\ theirs = {}
  BY DEF Init, start, Dst
<1> HIDE DEF l
<1>4. at \in [Node -> Places]
  BY <1>2, <1>3 DEF Places, Slots
<1>5. WellPlaced(at)
  BY <1>2, <1>3, <1>4 DEF WellPlaced
<1>6. data \in [Node -> Content] /\ stamp \in [Node -> Nat]
  BY <1>2, <1>3 DEF Content
<1>7. WorldOK
  BY <1>1, <1>2, <1>3, <1>5, <1>6 DEF WorldOK
<1>8. JobTyped /\ Sorted
  BY <1>2, <1>3 DEF Init, JobTyped, Sorted
<1>9. TempIs
  BY <1>2, <1>3, NameAssumption DEF TempIs
<1> QED
  BY <1>7, <1>8, <1>9 DEF Base, JobOK

\* The tree has one entry under a name, and at every step of the job what it holds
\* open exists and is of the kind the step works on, whatever the others do.
THEOREM BaseInvariant == Spec => []Base
<1>1. Init => Base
  BY InitBase
<1>2. Base /\ [Next]_vars => Base'
  BY BaseStep
<1> QED
  BY <1>1, <1>2, PTL DEF Spec

-----------------------------------------------------------------------------
(* The job reads nothing it made: what it made it knows, unless it         *)
(* stopped because it could not, and what it takes up is nothing it knows. *)
\* What the job made it knows; what it reads it did not make.
OwnOK ==
    /\ full => pc \notin Copying
    /\ \A n \in copied \cup made : n \in Node /\ kind[n] # "none"
    /\ \A d \in made : kind[d] = "dir" =>
          d \notin copied /\ (d \in tracked \/ full \/ at[d] = Nowhere)
    /\ Dst \notin copied
    /\ pc \in Tasked /\ kind[item.id] = "dir" /\ ~full =>
          item.id # Dst /\ item.id \notin tracked \cup made
    /\ pc = "pin" => item.new \notin copied

\* Neither the job nor the others bring a directory back that has no place.
DirsStayGone ==
    \A n \in Node : /\ kind[n] # "none" => kind'[n] = kind[n]
                    /\ kind[n] = "dir" /\ at[n] = Nowhere => at'[n] = Nowhere

LEMMA JobKeepsDirs ==
  ASSUME WorldOK, JobOK, JobDid
  PROVE  DirsStayGone
<1>1. pc = "link0" => kind[item.new] # "dir"
  BY DEF JobOK, Sorted
<1> QED
  BY <1>1 DEF JobDid, DirsStayGone

LEMMA OwnStays ==
  ASSUME WorldOK, JobOK, OwnOK, DirsStayGone, sc' = sc,
         UNCHANGED <<full, tracked>>,
         \A n \in copied' \cup made' : n \in Node /\ kind'[n] # "none",
         \A d \in made' \ made : kind'[d] = "dir" => at'[d] = Nowhere /\ d \notin copied',
         \A d \in copied' \ copied : kind'[d] # "dir",
         full => pc' \notin Copying,
         pc' \in Tasked /\ kind'[item'.id] = "dir" /\ ~full =>
            item'.id # Dst /\ item'.id \notin tracked \cup made',
         pc' = "pin" => item'.new \notin copied'
  PROVE  OwnOK'
<1>1. Dst' = Dst /\ Dst \in Node /\ kind'[Dst] = "dir"
  BY DstSame DEF WorldOK, DirsStayGone
<1>2. ASSUME NEW d \in made', kind'[d] = "dir"
      PROVE  d \notin copied' /\ (d \in tracked' \/ full' \/ at'[d] = Nowhere)
  <2>1. CASE d \in made
    BY <1>2, <2>1 DEF OwnOK, DirsStayGone
  <2>2. CASE d \notin made
    BY <1>2, <2>2
  <2> QED
    BY <2>1, <2>2
<1>3. Dst' \notin copied'
  BY <1>1 DEF OwnOK
<1> QED
  BY <1>1, <1>2, <1>3 DEF OwnOK

\* A step that reads and makes nothing, and goes on with the same entry if any.
SameTask == pc' \in Tasked => pc \in Tasked /\ item'.id = item.id

LEMMA OwnSame ==
  ASSUME WorldOK, JobOK, OwnOK, DirsStayGone, sc' = sc, UNCHANGED <<full, tracked, made, copied>>,
         SameTask, full => pc' \notin Copying, pc' = "pin" => item'.new \notin copied
  PROVE  OwnOK'
<1>1. \A n \in copied' \cup made' : n \in Node /\ kind'[n] # "none"
  BY DEF OwnOK, DirsStayGone
<1>2. pc \in Tasked => item.id \in Node /\ kind[item.id] # "none"
  BY DEF JobOK, JobTyped, Sorted, Task
<1>3. pc' \in Tasked /\ kind'[item'.id] = "dir" /\ ~full =>
            item'.id # Dst /\ item'.id \notin tracked \cup made'
  BY <1>2 DEF SameTask, OwnOK, DirsStayGone
<1> QED
  BY <1>1, <1>3, OwnStays

\* What is looked at through a name, and neither the destination nor a directory
\* the job knows, is not one it made.
LEMMA NotOwn ==
  ASSUME OwnOK, ~full, NEW n \in Node, kind[n] = "dir", at[n] # Nowhere, n \notin tracked
  PROVE  n \notin made
BY DEF OwnOK

LEMMA LookedUp ==
  ASSUME NEW d, NEW x, Lookup(d, x) # None
  PROVE  Lookup(d, x) \in Node /\ at[Lookup(d, x)] # Nowhere
BY LookupFound DEF Nowhere

LEMMA SelfAbove == ASSUME NEW n PROVE n \in Ancestors(n)
BY DEF Ancestors, AncestorsIn, UpIn

LEMMA TakeRootOwn ==
  ASSUME WorldOK, JobOK, OwnOK, DirsStayGone, TakeRoot
  PROVE  OwnOK'
<1> DEFINE n == Lookup(Top, Head(left))
<1>1. /\ pc = "root" /\ sc' = sc /\ UNCHANGED <<full, tracked, made, copied, kind>>
  BY DEF TakeRoot, world, ghosts
<1>2. CASE UNCHANGED <<pc, item>>
  BY <1>1, <1>2, OwnSame DEF SameTask, OwnOK
<1>3. CASE /\ n # None /\ ~InsideSource(n, above')
           /\ item' = Entry(n, Top, Head(left), Dst) /\ pc' = "place" /\ above' = Ancestors(Dst)
  <2>1. n \in Node /\ at[n] # Nowhere
    BY <1>3, LookedUp
  <2>2. item'.id = n
    BY <1>3 DEF Entry
  <2>3. kind[n] = "dir" => n \notin tracked /\ n # Dst
    BY <1>3, SelfAbove DEF InsideSource
  <2>4. kind[n] = "dir" /\ ~full => n \notin made
    BY <2>1, <2>3, NotOwn
  <2>5. \A m \in copied' \cup made' : m \in Node /\ kind'[m] # "none"
    BY <1>1 DEF OwnOK
  <2> HIDE DEF n
  <2> QED
    BY <1>1, <1>3, <2>2, <2>3, <2>4, <2>5, OwnStays
<1> QED
  BY <1>2, <1>3 DEF TakeRoot

LEMMA OpenDirOwn ==
  ASSUME WorldOK, JobOK, OwnOK, DirsStayGone, OpenDir
  PROVE  OwnOK'
<1> DEFINE n == Lookup(item.dir, item.name)
<1>1. /\ pc = "opendir" /\ ~full /\ sc' = sc /\ UNCHANGED <<full, tracked, made, copied, kind>>
      /\ item \in Task /\ item.id \in Node /\ kind[item.id] = "dir"
  BY DEF OpenDir, world, ghosts, OwnOK, JobOK, JobTyped, Sorted, Task
<1>2. CASE Leave("finish") \/ Leave("walk")
  BY <1>1, <1>2, OwnSame DEF SameTask, Leave
<1>3. CASE /\ IF frames = <<>> THEN n = item.id ELSE n \in Dirs /\ ~MeetsDestination(n)
           /\ item' = [item EXCEPT !.id = n, !.mode = data[n]] /\ pc' = "mkdir"
  <2>1. item'.id = n
    BY <1>1, <1>3 DEF Task
  <2>2. n # None
    BY <1>1, <1>3, NodeAssumption DEF Dirs
  <2>3. n \in Node /\ at[n] # Nowhere
    BY <2>2, LookedUp
  <2>4. n # Dst /\ n \notin tracked /\ kind[n] = "dir"
    BY <1>1, <1>3 DEF OwnOK, MeetsDestination, Dirs
  <2>5. n \notin made
    BY <1>1, <2>3, <2>4, NotOwn
  <2>6. \A m \in copied' \cup made' : m \in Node /\ kind'[m] # "none"
    BY <1>1 DEF OwnOK
  <2> HIDE DEF n
  <2> QED
    BY <1>1, <1>3, <2>1, <2>4, <2>5, <2>6, OwnStays
<1> QED
  BY <1>2, <1>3 DEF OpenDir, Abandon

LEMMA WalkEntryOwn ==
  ASSUME WorldOK, JobOK, OwnOK, DirsStayGone, WalkEntry
  PROVE  OwnOK'
<1>1. /\ pc = "walk" /\ ~full /\ sc' = sc /\ UNCHANGED <<full, tracked, made, copied, kind>>
  BY DEF WalkEntry, world, ghosts, OwnOK
<1>2. CASE pc' = "walk" \/ pc' = "finish"
  BY <1>1, <1>2, OwnSame DEF SameTask
<1>3. ASSUME NEW x, NEW n, n = Lookup(Inner.src, x), n # None,
             ~(kind[n] = "dir" /\ MeetsDestination(n)),
             item'.id = n, pc' \in {"opendir", "link", "open"}
      PROVE  OwnOK'
  <2>1. n \in Node /\ at[n] # Nowhere
    BY <1>3, LookedUp
  <2>2. kind[n] = "dir" => n # Dst /\ n \notin tracked
    BY <1>3 DEF MeetsDestination
  <2>3. kind[n] = "dir" => n \notin made
    BY <1>1, <2>1, <2>2, NotOwn
  <2>4. \A m \in copied' \cup made' : m \in Node /\ kind'[m] # "none"
    BY <1>1 DEF OwnOK
  <2> QED
    BY <1>1, <1>3, <2>2, <2>3, <2>4, OwnStays
<1>4. ASSUME pc' \notin {"walk", "finish"}
      PROVE  \E x : LET n == Lookup(Inner.src, x) IN
                /\ n # None /\ ~(kind[n] = "dir" /\ MeetsDestination(n))
                /\ item'.id = n /\ pc' \in {"opendir", "link", "open"}
  BY <1>1, <1>4 DEF WalkEntry, Entry, Abandon, Leave
<1> QED
  BY <1>2, <1>3, <1>4

\* The steps that read no source, make nothing and take up no other entry.
Plain ==
    \/ PlaceRoot \/ BeginCopy \/ Opened \/ Unwind \/ Settle \/ ReadFirst \/ CloseCopy
    \/ FinishRoot \/ DeleteNext \/ Look \/ CompareFirst \/ CompareLast \/ RootGone
    \/ StopDelete \/ Finish
    \/ TryRename \/ ReadLast \/ Verify \/ LinkUnnamed \/ Publish \/ StopCopy
    \/ UnlinkEntry \/ RemoveDir

LEMMA PlainSteps ==
  ASSUME JobOK, OwnOK, Plain
  PROVE  /\ sc' = sc /\ UNCHANGED <<full, tracked, made, copied>>
         /\ SameTask /\ (full => pc' \notin Copying) /\ pc' # "pin"
<1>0. /\ pc \in Tasked => item \in Task
      /\ pc \in Idle \cup Tasked \cup Looking
  BY DEF JobOK, JobTyped
<1>1. CASE PlaceRoot
  <2>1. pc = "place" /\ UNCHANGED <<sc, full, tracked, ghosts>>
    BY <1>1 DEF PlaceRoot
  <2>2. pc' = "root" \/ (pc' \in {"rename", "begin"} /\ item'.id = item.id)
    BY <1>1, <1>0, <2>1 DEF PlaceRoot, Leave, Task
  <2> QED
    BY <2>1, <2>2 DEF SameTask, ghosts
<1>2. CASE BeginCopy
  BY <1>2, <1>0 DEF BeginCopy, Leave, SameTask, ghosts
<1>3. CASE Opened \/ Unwind
  BY <1>3, <1>0 DEF Opened, Unwind, Leave, SameTask, ghosts, Abandon, OwnOK
<1>4. CASE Settle \/ CloseCopy
  BY <1>4, <1>0 DEF Settle, CloseCopy, context, Leave, After, SameTask, ghosts, OwnOK
<1>5. CASE ReadFirst \/ ReadLast
  BY <1>5, <1>0 DEF ReadFirst, ReadLast, context, SameTask, ghosts, OwnOK, Task
<1>6. CASE FinishRoot \/ RootGone \/ StopDelete \/ Finish
  BY <1>6, <1>0 DEF FinishRoot, RootGone, StopDelete, Finish, Stop, removal, SameTask, ghosts
<1>7. CASE DeleteNext \/ Look \/ CompareFirst \/ CompareLast
  BY <1>7, <1>0 DEF DeleteNext, Look, CompareFirst, CompareLast, KeepEntry, DropEntry, removal, SameTask, ghosts
<1>8. CASE TryRename
  BY <1>8, <1>0 DEF TryRename, Leave, SameTask
<1>9. CASE Verify \/ LinkUnnamed \/ Publish
  BY <1>9, <1>0 DEF Verify, LinkUnnamed, Publish, GiveUpFile, context, Leave, After, SameTask, ghosts, OwnOK
<1>10. CASE StopCopy
  BY <1>10, <1>0 DEF StopCopy, Stop, SameTask, ghosts
<1>11. CASE UnlinkEntry \/ RemoveDir
  BY <1>11, <1>0 DEF UnlinkEntry, RemoveDir, KeepEntry, DropEntry, removal, SameTask, ghosts
<1> QED
  BY <1>1, <1>2, <1>3, <1>4, <1>5, <1>6, <1>7, <1>8, <1>9, <1>10, <1>11 DEF Plain

LEMMA OpenSourceOwn ==
  ASSUME WorldOK, JobOK, OwnOK, DirsStayGone, OpenSource
  PROVE  OwnOK'
<1>1. /\ pc = "open" /\ item \in Task /\ item.id \in Node /\ kind[item.id] = "file"
      /\ ~full /\ sc' = sc /\ UNCHANGED <<full, tracked, made, kind>>
  BY DEF OpenSource, context, world, JobOK, JobTyped, Sorted, Task, OwnOK
<1>2. copied' \in {copied, copied \cup {item.id}} /\ pc' # "pin"
  BY <1>1 DEF OpenSource, Leave, After
<1>3. pc' \in Tasked => item'.id = item.id
  BY <1>1 DEF OpenSource, Leave, After, Task
<1>4. \A n \in copied' \cup made' : n \in Node /\ kind'[n] # "none"
  BY <1>1, <1>2 DEF OwnOK
<1> QED
  BY <1>1, <1>2, <1>3, <1>4, OwnStays

LEMMA BuildOwn ==
  ASSUME WorldOK, JobOK, OwnOK, DirsStayGone, Build
  PROVE  OwnOK'
<1>1. /\ pc = "build" /\ item \in Task /\ item.id \in Node /\ kind[item.id] = "file"
      /\ ~full /\ sc' = sc /\ UNCHANGED <<full, tracked, copied>>
  BY DEF Build, context, JobOK, JobTyped, Sorted, Task, OwnOK
<1>2. /\ \/ made' = made
         \/ made' = made \cup {Spare} /\ Unused # {} /\ kind' = [kind EXCEPT ![Spare] = "file"]
      /\ pc' # "pin" /\ (pc' \in Tasked => item'.id = item.id)
  BY <1>1 DEF Build, Leave, After, Task
<1>3. kind'[item.id] = "file"
  BY <1>1 DEF DirsStayGone
<1>4. \A n \in copied' \cup made' : n \in Node /\ kind'[n] # "none"
  BY <1>1, <1>2, SpareUnused DEF OwnOK, DirsStayGone, WorldOK
<1>5. \A d \in made' \ made : kind'[d] = "file"
  BY <1>2, SpareUnused DEF WorldOK
<1> QED
  BY <1>1, <1>2, <1>3, <1>4, <1>5, OwnStays

LEMMA CopyLinkOwn ==
  ASSUME WorldOK, JobOK, OwnOK, DirsStayGone, CopyLink
  PROVE  OwnOK'
<1>1. /\ pc = "link" /\ item \in Task /\ item.id \in Node /\ kind[item.id] = "link"
      /\ ~full /\ sc' = sc /\ UNCHANGED <<full, tracked>>
  BY DEF CopyLink, context, JobOK, JobTyped, Sorted, Task, OwnOK
<1>2. /\ \/ made' = made
         \/ made' = made \cup {Spare} /\ Unused # {} /\ kind' = [kind EXCEPT ![Spare] = "link"]
      /\ copied' \in {copied, copied \cup {item.id}}
      /\ pc' # "pin" /\ (pc' \in Tasked => item'.id = item.id)
  BY <1>1 DEF CopyLink, Leave, After, Task
<1>3. kind'[item.id] = "link"
  BY <1>1 DEF DirsStayGone
<1>4. \A n \in copied' \cup made' : n \in Node /\ kind'[n] # "none"
  BY <1>1, <1>2, <1>3, SpareUnused DEF OwnOK, DirsStayGone, WorldOK
<1>5. \A d \in made' \ made : kind'[d] = "link"
  BY <1>2, SpareUnused DEF WorldOK
<1> QED
  BY <1>1, <1>2, <1>3, <1>4, <1>5, OwnStays

\* A directory is entered: what was read is not the job's own, what was made is known.
LEMMA EnterOwn ==
  ASSUME WorldOK, JobOK, OwnOK, DirsStayGone, sc' = sc, pc \in {"mkdir", "pin"},
         NEW d \in Node, kind[d] = "dir", NEW c, Enter(d, c), made' \in {made, made \cup {d}},
         made' # made => d # item.id /\ d \notin copied
  PROVE  OwnOK'
<1>1. /\ ~full /\ item.id \in Node /\ kind[item.id] = "dir"
      /\ item.id # Dst /\ item.id \notin tracked \cup made
  BY DEF OwnOK, JobOK, JobTyped, Sorted, Task
<1>2. Dst' = Dst
  BY DstSame
<1>3. ASSUME NEW n \in made, kind'[n] = "dir"
      PROVE  n \notin copied \cup {item.id} /\ (n \in tracked \/ at'[n] = Nowhere)
  BY <1>1, <1>3 DEF OwnOK, DirsStayGone
<1>4. \A n \in copied \cup made \cup {item.id, d} : n \in Node /\ kind'[n] # "none"
  BY <1>1 DEF OwnOK, DirsStayGone
<1>5. CASE full' = TRUE /\ Abandon /\ UNCHANGED <<tracked, copied>>
  BY <1>1, <1>2, <1>3, <1>4, <1>5 DEF OwnOK, Abandon, Leave
<1>6. CASE /\ tracked' = tracked \cup {d} /\ copied' = copied \cup {item.id}
           /\ full' = full /\ Leave("opened")
  BY <1>1, <1>2, <1>3, <1>4, <1>6 DEF OwnOK, Leave
<1> QED
  BY <1>5, <1>6 DEF Enter

LEMMA MakeDirOwn ==
  ASSUME WorldOK, JobOK, OwnOK, DirsStayGone, MakeDir
  PROVE  OwnOK'
<1> DEFINE there == Lookup(item.ddir, item.final)
<1>1. /\ pc = "mkdir" /\ item \in Task /\ item.id \in Node /\ kind[item.id] = "dir"
      /\ ~full /\ sc' = sc /\ made' = made
  BY DEF MakeDir, JobOK, JobTyped, Sorted, Task, OwnOK
<1>2. CASE UNCHANGED <<full, tracked, copied>> /\ Leave(After)
  BY <1>1, <1>2, OwnSame DEF Leave, After, SameTask
<1>3. CASE there \in Dirs /\ Enter(there, FALSE)
  BY <1>1, <1>3, EnterOwn DEF Dirs
<1>4. CASE /\ Unused # {} /\ pc' = "pin" /\ UNCHANGED <<full, tracked, copied>>
           /\ \E w, t : item' = [item EXCEPT !.new = Spare, !.where = w, !.temp = t]
  <2>1. item'.id = item.id /\ item'.new = Spare
    BY <1>1, <1>4 DEF Task
  <2>2. Spare \notin copied
    BY <1>4, SpareUnused DEF OwnOK
  <2> QED
    BY <1>1, <1>4, <2>1, <2>2, OwnSame DEF SameTask
<1> QED
  BY <1>2, <1>3, <1>4 DEF MakeDir

LEMMA PinDirOwn ==
  ASSUME WorldOK, JobOK, OwnOK, DirsStayGone, PinDir
  PROVE  OwnOK'
<1>1. /\ pc = "pin" /\ item \in Task /\ item.id \in Node /\ item.new \in Node
      /\ kind[item.new] = "dir" /\ item.new # item.id /\ item.new \notin copied
      /\ ~full /\ sc' = sc
  BY DEF PinDir, JobOK, JobTyped, Sorted, Task, OwnOK
<1>2. CASE UNCHANGED <<full, tracked, copied, made>> /\ Leave(After)
  BY <1>1, <1>2, OwnSame DEF Leave, After, SameTask
<1>3. CASE /\ at' = Unlinked(item.new) /\ made' = made \cup {item.new}
           /\ UNCHANGED <<full, tracked, copied>> /\ Leave(After)
  <2>1. at'[item.new] = Nowhere
    BY <1>1, <1>3, UnlinkedPlaces DEF WorldOK
  <2>2. \A n \in copied' \cup made' : n \in Node /\ kind'[n] # "none"
    BY <1>1, <1>3 DEF OwnOK, DirsStayGone
  <2> QED
    BY <1>1, <1>3, <2>1, <2>2, OwnStays DEF Leave, After
<1>4. CASE made' = made \cup {item.new} /\ Enter(item.new, TRUE)
  BY <1>1, <1>4, EnterOwn
<1> QED
  BY <1>2, <1>3, <1>4 DEF PinDir, DroppedDir

LEMMA JobOwn ==
  ASSUME Base, OwnOK, Thinks \/ Acts, JobDid
  PROVE  OwnOK'
<1>1. WorldOK /\ JobOK /\ DirsStayGone
  BY JobKeepsDirs DEF Base
<1>2. CASE Plain
  BY <1>1, <1>2, PlainSteps, OwnSame
<1>3. Plain \/ TakeRoot \/ OpenDir \/ WalkEntry \/ OpenSource \/ MakeDir \/ PinDir \/ Build \/ CopyLink
  BY Zenon DEF Plain, Thinks, Acts
<1> QED
  BY <1>1, <1>2, <1>3, TakeRootOwn, OpenDirOwn, WalkEntryOwn, OpenSourceOwn, MakeDirOwn, PinDirOwn,
     BuildOwn, CopyLinkOwn

LEMMA OwnStep ==
  ASSUME Base, OwnOK, [Next]_vars
  PROVE  OwnOK'
<1>1. CASE Thinks \/ Acts
  BY <1>1, ThinksBase, ActsBase, JobOwn
<1>2. CASE Others
  <2>1. DirsStayGone /\ UNCHANGED job
    BY <1>2, OthersBase DEF OthersDid, DirsStayGone
  <2> QED
    BY <2>1, OwnSame DEF job, ghosts, SameTask, Base, OwnOK
<1>3. CASE Cancel \/ (Tick /\ UNCHANGED job) \/ UNCHANGED vars
  <2>1. UNCHANGED <<at, kind, sc, pc, item, full, tracked, made, copied>>
    BY <1>3 DEF Cancel, Tick, job, vars, world, ghosts
  <2> QED
    BY <2>1, OwnSame DEF DirsStayGone, SameTask, Base, OwnOK
<1> QED
  BY <1>1, <1>2, <1>3, StepIs, Zenon

LEMMA InitOwn == ASSUME Init PROVE OwnOK
BY DEF Init, OwnOK

\* A directory the job made is one it knows, is gone, or stopped the root, and what
\* it takes up is none of them (remember, meetsDestination).
THEOREM OwnInvariant == Spec => []OwnOK
<1>1. Init => Base /\ OwnOK
  BY InitBase, InitOwn
<1>2. Base /\ OwnOK /\ [Next]_vars => (Base /\ OwnOK)'
  BY BaseStep, OwnStep
<1> QED
  BY <1>1, <1>2, PTL DEF Spec

\* However the destination is moved about, the job never reads a directory it made,
\* nor the destination itself (meetsDestination, remember).
THEOREM JobNeverCopiesItself == Spec => []NeverCopiesItself
<1>1. OwnOK => NeverCopiesItself
  BY DEF OwnOK, NeverCopiesItself, Dirs
<1> QED
  BY <1>1, OwnInvariant, PTL

-----------------------------------------------------------------------------
(* What is written: where a half written file stands, and what a finished  *)
(* one holds.                                                              *)
Marked(c, m) == c = Partial(m) \/ c = Torn(m)

\* A half written or torn file is the one being written.
MarksOK ==
    /\ \A n, m \in Node : Marked(data[n], m) => kind[m] # "none"
    /\ pc = "more" => \A m \in Node : Marked(item.half, m) => kind[m] # "none" /\ m # item.new
    /\ pc \in {"read", "more"} => \A n \in Node \ {item.new} : ~Marked(data[n], item.new)
    /\ pc \in {"verify", "link0", "publish", "record"} => data[item.new] # Partial(item.new)

\* A move that read a source which shows no change read one version of it.
SettledOK ==
    /\ pc \in {"build"} \cup Building /\ sc.move => item.seen < clock /\ item.seen <= stamp[item.id]
    /\ pc = "record" /\ sc.move /\ kind[item.id] = "file" =>
          item.seen < clock /\ item.seen <= stamp[item.id]
    /\ pc = "more" /\ sc.move /\ stamp[item.id] = item.seen => data[item.id] = item.half
    /\ pc = "verify" /\ sc.move /\ stamp[item.id] = item.seen => data[item.new] # Torn(item.new)
    /\ pc \in {"link0", "publish", "record"} /\ sc.move => data[item.new] # Torn(item.new)

\* A file being written stands where the job put it, unless others moved it.
HomeOK ==
    /\ pc \in Building \cup {"record"} => item.new \in made
    /\ pc \in Building /\ item.new \notin theirs => at[item.new] \in {Nowhere, <<item.where, item.temp>>}
    /\ pc \in {"read", "more", "verify"} /\ sc.build = "unnamed" => at[item.new] = Nowhere
    /\ pc \in Building /\ sc.build = "staged" => item.where = Stage
    /\ pc \in Building => sc.build # "refused"

Whole(m) ==
    /\ at[m][1] # Stage /\ at[m][2] # Temp
    /\ data[m] # Partial(m)
    /\ sc.move => data[m] # Torn(m)
Grows(m) == pc \in Building /\ m = item.new

WholeOK == \A m \in made \ theirs : (kind[m] = "file" /\ at[m] # Nowhere) => Whole(m) \/ Grows(m)

WriteOK == MarksOK /\ SettledOK /\ HomeOK /\ WholeOK

LEMMA MarksDiffer ==
  ASSUME NEW m, NEW n
  PROVE  Partial(n) # Torn(m) /\ \A x : ~Marked(<<"theirs", x>>, m)
BY DEF Partial, Torn, Marked

\* The content of every node was there before, or is the others'.
Inherited == \A n \in Node : \/ \E k \in Node : data'[n] = data[k]
                             \/ \E x : data'[n] = <<"theirs", x>>

LEMMA MarksKept ==
  ASSUME MarksOK, Inherited, \A n \in Node : kind[n] # "none" => kind'[n] # "none"
  PROVE  \A n, m \in Node : Marked(data'[n], m) => kind'[m] # "none"
BY MarksDiffer DEF MarksOK, Inherited

\* What stood whole, and was not being written, still does.
StillWhole(m) ==
    /\ m \in made \ theirs /\ ~Grows(m) /\ kind[m] = "file" /\ at[m] # Nowhere /\ data'[m] = data[m]
    /\ at'[m] = at[m] \/ (at'[m][1] # Stage /\ at'[m][2] # Temp)

LEMMA WriteEnds ==
  ASSUME WriteOK, Inherited, \A n \in Node : kind[n] # "none" => kind'[n] # "none",
         sc' = sc, pc' \notin {"build", "record"} \cup Building,
         \A m \in made' \ theirs' : (kind'[m] = "file" /\ at'[m] # Nowhere) => StillWhole(m)
  PROVE  WriteOK'
<1>1. \A n, m \in Node : Marked(data'[n], m) => kind'[m] # "none"
  BY MarksKept DEF WriteOK
<1>2. MarksOK' /\ SettledOK' /\ HomeOK'
  BY <1>1 DEF MarksOK, SettledOK, HomeOK, Marked, Partial, Torn
<1>3. WholeOK'
  <2> SUFFICES ASSUME NEW m \in made' \ theirs', kind'[m] = "file", at'[m] # Nowhere
               PROVE  Whole(m)'
    BY DEF WholeOK
  <2>1. StillWhole(m)
    OBVIOUS
  <2>2. Whole(m)
    BY <2>1 DEF WriteOK, WholeOK, StillWhole
  <2> QED
    BY <2>1, <2>2 DEF StillWhole, Whole, Partial, Torn
<1> QED
  BY <1>2, <1>3 DEF WriteOK

LEMMA InheritedSame == ASSUME \A n \in Node : data'[n] = data[n] PROVE Inherited
BY DEF Inherited

\* A step that leaves the tree alone and neither starts nor ends a copy.
LEMMA WriteRests ==
  ASSUME WriteOK, UNCHANGED world, sc' = sc, made' = made,
         pc \notin Building, pc' \notin {"build", "record"} \cup Building
  PROVE  WriteOK'
<1>1. Inherited /\ \A n \in Node : kind[n] # "none" => kind'[n] # "none"
  BY InheritedSame DEF world
<1>2. \A m \in made' \ theirs' : (kind'[m] = "file" /\ at'[m] # Nowhere) => StillWhole(m)
  BY DEF world, StillWhole, Grows
<1> QED
  BY <1>1, <1>2, WriteEnds

LEMMA ThinksWrite ==
  ASSUME WorldOK, JobOK, OwnOK, WriteOK, Thinks
  PROVE  WriteOK'
<1>1. UNCHANGED <<world, sc>> /\ (pc \in Tasked => item \in Task)
  BY ThinksStays DEF JobOK, JobTyped
<1>2. CASE TakeRoot \/ PlaceRoot \/ BeginCopy \/ OpenDir \/ Opened \/ WalkEntry \/ Unwind
  <2>1. made' = made /\ pc \notin Building /\ pc' \notin {"build", "record"} \cup Building
    BY <1>2, Zenon DEF TakeRoot, PlaceRoot, BeginCopy, OpenDir, Opened, WalkEntry, Unwind, Leave, Abandon, ghosts
  <2> QED
    BY <1>1, <2>1, WriteRests
<1>3. CASE FinishRoot \/ RootGone \/ StopDelete \/ Finish \/ DeleteNext \/ Look \/ CompareFirst \/ CompareLast
  <2>1. made' = made /\ pc \notin Building /\ pc' \notin {"build", "record"} \cup Building
    BY <1>3 DEF FinishRoot, RootGone, StopDelete, Stop, Finish, DeleteNext, Look, CompareFirst, CompareLast,
                KeepEntry, DropEntry, removal, ghosts
  <2> QED
    BY <1>1, <2>1, WriteRests
<1>4. CASE CloseCopy
  <2>1. made' = made /\ pc \notin Building /\ pc' \notin {"build", "record"} \cup Building
    BY <1>4 DEF CloseCopy, Leave, After, ghosts
  <2> QED
    BY <1>1, <2>1, WriteRests
<1>5. CASE OpenSource \/ Settle
  <2>1. CASE pc' # "build"
    <3>1. made' = made /\ pc \notin Building /\ pc' \notin {"build", "record"} \cup Building
      BY <1>5, <2>1 DEF OpenSource, Settle, Leave, After, ghosts
    <3> QED
      BY <1>1, <3>1, WriteRests
  <2>2. CASE pc' = "build"
    <3>1. made' = made /\ pc \notin Building /\ pc # "build"
      BY <1>5 DEF OpenSource, Settle, ghosts
    <3>2. MarksOK' /\ HomeOK'
      BY <1>1, <2>2, <3>1 DEF WriteOK, MarksOK, HomeOK, world, Marked, Partial, Torn
    <3>3. sc.move => item'.seen < clock /\ item'.seen <= stamp[item'.id]
      BY <1>1, <1>5, <2>2 DEF OpenSource, Settle, Left, WorldOK, JobOK, Task, Leave, After
    <3>4. SettledOK'
      BY <1>1, <2>2, <3>3 DEF SettledOK, world
    <3>5. WholeOK'
      BY <1>1, <2>2, <3>1 DEF WriteOK, WholeOK, Whole, Grows, world, Partial, Torn
    <3> QED
      BY <3>2, <3>4, <3>5 DEF WriteOK
  <2> QED
    BY <2>1, <2>2
<1>6. CASE ReadFirst
  <2>1. /\ pc = "read" /\ pc' = "more" /\ made' = made
        /\ item' = [item EXCEPT !.half = data[item.id]]
    BY <1>6 DEF ReadFirst, ghosts
  <2>2. /\ item'.half = data[item.id] /\ item'.new = item.new /\ item'.id = item.id /\ item'.seen = item.seen
        /\ item'.where = item.where /\ item'.temp = item.temp
        /\ item.id \in Node /\ item.id # item.new
    BY <1>1, <2>1 DEF Task, JobOK, Sorted
  <2>3. MarksOK'
    BY <1>1, <2>1, <2>2 DEF WriteOK, MarksOK, world, Marked, Partial, Torn
  <2>4. SettledOK'
    BY <1>1, <2>1, <2>2 DEF WriteOK, SettledOK, world
  <2>5. HomeOK' /\ WholeOK'
    BY <1>1, <2>1, <2>2 DEF WriteOK, HomeOK, WholeOK, Whole, Grows, world, Partial, Torn
  <2> QED
    BY <2>3, <2>4, <2>5 DEF WriteOK
<1> QED
  BY <1>2, <1>3, <1>4, <1>5, <1>6 DEF Thinks

LEMMA OthersWrite ==
  ASSUME WorldOK, JobOK, OwnOK, WriteOK, OthersDid, UNCHANGED job
  PROVE  WriteOK'
<1>1. Inherited /\ \A n \in Node : kind[n] # "none" => kind'[n] # "none"
  BY DEF Inherited, OthersDid
<1>2. UNCHANGED <<sc, pc, item, made>>
  BY DEF job, ghosts
<1>3. pc \in Tasked => item \in Task /\ item.id \in Node /\ item.seen \in Nat
                       /\ kind[item.id] # "none" /\ kind[item.id] \in Kinds
  BY DEF JobOK, JobTyped, Sorted, Task, WorldOK
<1>4. pc \in Building \cup {"record"} => item.new \in Node /\ kind[item.new] # "none"
  BY DEF JobOK, Sorted
<1>5. MarksOK'
  <2>1. \A n, m \in Node : Marked(data'[n], m) => kind'[m] # "none"
    BY <1>1, MarksKept DEF WriteOK
  <2>2. pc' = "more" => \A m \in Node : Marked(item'.half, m) => kind'[m] # "none" /\ m # item'.new
    BY <1>1, <1>2 DEF WriteOK, MarksOK
  <2>5. \A n \in Node : data'[n] = data[n] \/ \A m : ~Marked(data'[n], m)
    <3>1. ASSUME NEW n \in Node, data'[n] # data[n], NEW m
          PROVE  ~Marked(data'[n], m)
      <4>1. data'[n] = <<"theirs", budget>>
        BY <3>1 DEF OthersDid
      <4> QED
        BY <4>1, MarksDiffer
    <3> QED
      BY <3>1
  <2>3. pc' \in {"read", "more"} => \A n \in Node \ {item'.new} : ~Marked(data'[n], item'.new)
    BY <1>2, <2>5 DEF WriteOK, MarksOK
  <2>4. pc' \in {"verify", "link0", "publish", "record"} => data'[item'.new] # Partial(item'.new)
    BY <1>2, <1>4, <2>5 DEF WriteOK, MarksOK, Marked
  <2> QED
    BY <2>1, <2>2, <2>3, <2>4 DEF MarksOK, Marked, Partial, Torn
<1>6. SettledOK'
  <2>1. pc \in Tasked => /\ stamp'[item.id] \in {stamp[item.id], clock} /\ clock' = clock
                         /\ stamp[item.id] \in Nat /\ clock \in Nat
                         /\ data'[item.id] = data[item.id] \/ stamp'[item.id] = clock
                         /\ kind'[item.id] = kind[item.id]
    BY <1>3 DEF OthersDid, WorldOK
  <2>2. pc \in Building \cup {"record"} => data'[item.new] = data[item.new] \/ ~Marked(data'[item.new], item.new)
    <3>1. ASSUME NEW n \in Node PROVE data'[n] = data[n] \/ data'[n] = <<"theirs", budget>>
      BY DEF OthersDid
    <3> QED
      BY <1>4, <3>1, MarksDiffer
  <2>3. /\ pc' \in {"build"} \cup Building /\ sc'.move => item'.seen < clock' /\ item'.seen <= stamp'[item'.id]
        /\ pc' = "record" /\ sc'.move /\ kind'[item'.id] = "file" =>
              item'.seen < clock' /\ item'.seen <= stamp'[item'.id]
    <3>1. pc \in Tasked /\ item.seen < clock /\ item.seen <= stamp[item.id] =>
            item.seen < clock' /\ item.seen <= stamp'[item.id]
      BY <1>3, <2>1
    <3>2. /\ pc \in {"build"} \cup Building /\ sc.move => item.seen < clock /\ item.seen <= stamp[item.id]
          /\ pc = "record" /\ sc.move /\ kind[item.id] = "file" =>
                item.seen < clock /\ item.seen <= stamp[item.id]
      BY DEF WriteOK, SettledOK
    <3> QED
      BY <1>2, <2>1, <3>1, <3>2
  <2>7. pc \in Building /\ sc.move /\ stamp'[item.id] = item.seen =>
            stamp[item.id] = item.seen /\ data'[item.id] = data[item.id]
    <3>1. pc \in Building /\ sc.move => item.seen < clock
      BY DEF WriteOK, SettledOK
    <3> QED
      BY <1>3, <2>1, <3>1
  <2>4. pc' = "more" /\ sc'.move /\ stamp'[item'.id] = item'.seen => data'[item'.id] = item'.half
    BY <1>2, <2>7 DEF WriteOK, SettledOK
  <2>5. pc' = "verify" /\ sc'.move /\ stamp'[item'.id] = item'.seen => data'[item'.new] # Torn(item'.new)
    BY <1>2, <2>2, <2>7 DEF WriteOK, SettledOK, Marked
  <2>6. pc' \in {"link0", "publish", "record"} /\ sc'.move => data'[item'.new] # Torn(item'.new)
    BY <1>2, <2>2 DEF WriteOK, SettledOK, Marked
  <2> QED
    BY <2>3, <2>4, <2>5, <2>6 DEF SettledOK, Torn
<1>7. HomeOK'
  BY <1>2, <1>4 DEF WriteOK, HomeOK, OthersDid
<1>8. WholeOK'
  <2> SUFFICES ASSUME NEW m \in made' \ theirs', kind'[m] = "file", at'[m] # Nowhere
               PROVE  Whole(m)' \/ Grows(m)'
    BY DEF WholeOK
  <2>1. m \in made \ theirs /\ m \in Node
    BY <1>2 DEF OthersDid, OwnOK
  <2>2. at'[m] = at[m] /\ kind'[m] = kind[m] /\ data'[m] = data[m]
    BY <2>1 DEF OthersDid
  <2> QED
    BY <1>2, <2>1, <2>2 DEF WriteOK, WholeOK, Whole, Grows, Partial, Torn
<1> QED
  BY <1>5, <1>6, <1>7, <1>8 DEF WriteOK

LEMMA WriteAway ==
  ASSUME WorldOK, JobOK, OwnOK, WriteOK, JobDid, sc' = sc, data' = data,
         pc \notin Building, pc' \notin {"build", "record"} \cup Building,
         made \subseteq made', \A m \in made' \ made : kind'[m] # "file",
         pc = "rename" => at'[item.id] \in {at[item.id], Nowhere} \cup ({Dst} \X Name)
  PROVE  WriteOK'
<1>1. Inherited /\ \A n \in Node : kind[n] # "none" => kind'[n] # "none"
  BY InheritedSame DEF JobDid
<1>2. ASSUME NEW m \in made' \ theirs', kind'[m] = "file", at'[m] # Nowhere
      PROVE  StillWhole(m)
  <2>1. m \in made /\ m \in Node /\ kind[m] = "file" /\ theirs' = theirs
    BY <1>2 DEF OwnOK, JobDid
  <2>2. at[m] # Nowhere
    BY <1>2, <2>1 DEF JobDid
  <2>3. \/ at'[m] = at[m]
        \/ pc = "rename" /\ m = item.id
        \/ pc = "pin" /\ m = item.new
    BY <1>2, <2>1 DEF JobDid
  <2>4. ~(pc = "pin" /\ m = item.new)
    BY <2>1 DEF JobOK, Sorted
  <2>5. at'[m] = at[m] \/ at'[m] \in {Dst} \X Name
    BY <1>2, <2>3, <2>4
  <2>6. at'[m] = at[m] \/ (at'[m][1] # Stage /\ at'[m][2] # Temp)
    BY <2>5, NodeAssumption, NameAssumption DEF WorldOK
  <2> QED
    BY <2>1, <2>2, <2>6 DEF StillWhole, Grows
<1> QED
  BY <1>1, <1>2, WriteEnds

LEMMA WriteGivesUp ==
  ASSUME WorldOK, JobOK, OwnOK, WriteOK, sc' = sc, UNCHANGED <<kind, data, theirs, made>>,
         pc \in Building, pc' \notin {"build", "record"} \cup Building,
         \A m \in Node \ {item.new} : at'[m] = at[m],
         item.new \notin theirs => at'[item.new] = Nowhere
  PROVE  WriteOK'
<1>1. Inherited /\ \A n \in Node : kind[n] # "none" => kind'[n] # "none"
  BY InheritedSame
<1>2. \A m \in made' \ theirs' : (kind'[m] = "file" /\ at'[m] # Nowhere) => StillWhole(m)
  BY DEF StillWhole, Grows, OwnOK
<1> QED
  BY <1>1, <1>2, WriteEnds

LEMMA DiscardedHome ==
  ASSUME WorldOK, JobOK, WriteOK, pc \in Building, at' = Discarded
  PROVE  /\ \A m \in Node \ {item.new} : at'[m] = at[m]
         /\ item.new \notin theirs => at'[item.new] = Nowhere
<1>1. item.new \in Node /\ item.new # None
  BY NodeAssumption DEF JobOK, Sorted
<1>2. CASE at[item.new] = <<item.where, item.temp>>
  BY <1>1, <1>2, UnlinkedPlaces DEF Discarded, WorldOK
<1>3. CASE at[item.new] # <<item.where, item.temp>>
  BY <1>3 DEF Discarded, WriteOK, HomeOK
<1> QED
  BY <1>2, <1>3

LEMMA TryRenameWrite ==
  ASSUME WorldOK, JobOK, OwnOK, WriteOK, JobDid, TryRename
  PROVE  WriteOK'
<1>1. /\ pc = "rename" /\ item \in Task /\ item.id \in Node /\ item.final \in Name
      /\ sc' = sc /\ made' = made /\ data' = data
      /\ pc' \notin {"build", "record"} \cup Building
  BY DEF TryRename, Leave, world, JobOK, JobTyped, Task
<1>2. at' = at \/ at' = Renamed(item.id, Dst, item.final)
  BY DEF TryRename, world
<1>3. at'[item.id] \in {at[item.id], Nowhere} \cup ({Dst} \X Name)
  <2>1. CASE at' = at
    BY <2>1
  <2>2. CASE at' = Renamed(item.id, Dst, item.final)
    <3>1. at'[item.id] = <<Dst, item.final>>
      BY <1>1, <2>2 DEF Renamed
    <3> QED
      BY <1>1, <3>1
  <2> QED
    BY <1>2, <2>1, <2>2
<1> QED
  BY <1>1, <1>3, WriteAway

LEMMA DirWrite ==
  ASSUME WorldOK, JobOK, OwnOK, WriteOK, JobDid, MakeDir \/ PinDir
  PROVE  WriteOK'
<1>1. CASE MakeDir
  <2>1. /\ pc = "mkdir" /\ sc' = sc /\ made' = made /\ data' = data
        /\ pc' \notin {"build", "record"} \cup Building
    BY <1>1 DEF MakeDir, Leave, After, Enter, Abandon, world
  <2> QED
    BY <2>1, WriteAway
<1>2. CASE PinDir
  <2>1. /\ pc = "pin" /\ sc' = sc /\ made' \in {made, made \cup {item.new}} /\ UNCHANGED <<data, kind>>
        /\ pc' \notin {"build", "record"} \cup Building /\ kind[item.new] = "dir"
    BY <1>2 DEF PinDir, Leave, After, Enter, Abandon, JobOK, Sorted
  <2>2. made \subseteq made' /\ \A m \in made' \ made : kind'[m] # "file"
    BY <2>1
  <2> QED
    BY <2>1, <2>2, WriteAway
<1> QED
  BY <1>1, <1>2

LEMMA RemovalWrite ==
  ASSUME WorldOK, JobOK, OwnOK, WriteOK, JobDid, UnlinkEntry \/ RemoveDir
  PROVE  WriteOK'
<1>1. /\ pc \in {"unlink", "delete"} /\ sc' = sc /\ made' = made /\ data' = data
      /\ pc' \notin {"build", "record"} \cup Building
  BY DEF UnlinkEntry, RemoveDir, KeepEntry, DropEntry, removal, ghosts
<1> QED
  BY <1>1, WriteAway

LEMMA StopCopyWrite ==
  ASSUME WorldOK, JobOK, OwnOK, WriteOK, JobDid, StopCopy
  PROVE  WriteOK'
<1>1. /\ sc' = sc /\ UNCHANGED <<kind, data, theirs, made>> /\ pc' = "end"
      /\ pc \in {"root", "walk", "read", "more"}
      /\ at' = IF pc \in {"read", "more"} THEN Discarded ELSE at
  BY DEF StopCopy, Stop, ghosts
<1>2. CASE pc \in {"read", "more"}
  BY <1>1, <1>2, DiscardedHome, WriteGivesUp
<1>3. CASE pc \in {"root", "walk"}
  BY <1>1, <1>3, WriteAway
<1> QED
  BY <1>1, <1>2, <1>3

LEMMA BuildWrite ==
  ASSUME WorldOK, JobOK, OwnOK, WriteOK, JobDid, Build
  PROVE  WriteOK'
<1> DEFINE p == BuildPlace
           w == IF p = Nowhere THEN item.ddir ELSE p[1]
           t == IF p # Nowhere THEN p[2] ELSE IF item.act = "overwrite" THEN Temp ELSE item.final
           n == Spare
<1>1. /\ pc = "build" /\ item \in Task /\ item.id \in Node /\ kind[item.id] = "file" /\ sc' = sc
  BY DEF Build, context, JobOK, JobTyped, Sorted, Task
<1>2. CASE UNCHANGED <<world, made>> /\ Leave(After)
  <2>1. data' = data /\ pc' \notin {"build", "record"} \cup Building
    BY <1>2 DEF world, Leave, After
  <2> QED
    BY <1>1, <1>2, <2>1, WriteAway
<1>3. CASE /\ Unused # {} /\ ~StageRefused
           /\ at' = [at EXCEPT ![n] = p]
           /\ kind' = [kind EXCEPT ![n] = "file"]
           /\ data' = [data EXCEPT ![n] = Partial(n)]
           /\ stamp' = [stamp EXCEPT ![n] = clock]
           /\ made' = made \cup {n}
           /\ item' = [item EXCEPT !.new = n, !.where = w, !.temp = t]
           /\ pc' = "read"
           /\ UNCHANGED <<clock, budget, theirs>>
  <2>1. n \in Node /\ kind[n] = "none" /\ n # item.id
    BY <1>1, <1>3, SpareUnused
  <2>2. /\ \E d, x : p = <<d, x>> \/ p = Nowhere
        /\ sc.build = "unnamed" => p = Nowhere
        /\ sc.build = "staged" => p = <<Stage, Temp>>
        /\ p # Nowhere => p = <<p[1], p[2]>>
    BY DEF BuildPlace, Nowhere
  <2>3. w = (IF p = Nowhere THEN item.ddir ELSE p[1]) /\ (p # Nowhere => p = <<w, t>>)
        /\ (sc.build = "staged" => w = Stage)
    <3>1. <<Stage, Temp>> # Nowhere
      BY DEF Nowhere
    <3> HIDE DEF p
    <3> QED
      BY <2>2, <3>1
  <2> HIDE DEF p, n, w, t
  <2>4. /\ at'[n] = p /\ data'[n] = Partial(n) /\ kind'[n] = "file"
        /\ \A m \in Node \ {n} : at'[m] = at[m] /\ kind'[m] = kind[m] /\ data'[m] = data[m] /\ stamp'[m] = stamp[m]
    BY <1>3, <2>1 DEF WorldOK, WellPlaced
  <2>5. item'.id = item.id /\ item'.new = n /\ item'.where = w /\ item'.temp = t /\ item'.seen = item.seen
    BY <1>1, <1>3 DEF Task
  <2>6. \A m \in Node : ~Marked(data[m], n)
    BY <2>1 DEF WriteOK, MarksOK
  <2>7. \A m \in Node : Marked(Partial(n), m) => m = n
    BY DEF Marked, Partial, Torn
  <2>8. MarksOK'
    <3>1. \A k, m \in Node : Marked(data'[k], m) => kind'[m] # "none"
      BY <2>1, <2>4, <2>7 DEF WriteOK, MarksOK
    <3>2. \A k \in Node \ {item'.new} : ~Marked(data'[k], item'.new)
      BY <2>4, <2>5, <2>6
    <3> QED
      BY <1>3, <3>1, <3>2 DEF MarksOK, Marked, Partial, Torn
  <2>9. SettledOK'
    <3>1. sc'.move => item'.seen < clock' /\ item'.seen <= stamp'[item'.id]
      BY <1>1, <1>3, <2>1, <2>4, <2>5 DEF WriteOK, SettledOK
    <3> QED
      BY <1>3, <3>1 DEF SettledOK
  <2>10. HomeOK'
    BY <1>1, <1>3, <2>2, <2>3, <2>4, <2>5 DEF HomeOK, StageRefused
  <2>11. WholeOK'
    <3> SUFFICES ASSUME NEW m \in made' \ theirs', kind'[m] = "file", at'[m] # Nowhere
                 PROVE  Whole(m)' \/ Grows(m)'
      BY DEF WholeOK
    <3>1. CASE m = n
      BY <1>3, <2>5, <3>1 DEF Grows
    <3>2. CASE m # n
      <4>1. m \in made \ theirs /\ m \in Node
        BY <1>3, <3>2 DEF OwnOK
      <4>2. Whole(m)
        BY <1>1, <2>4, <3>2, <4>1 DEF WriteOK, WholeOK, Grows
      <4> QED
        BY <1>1, <2>4, <3>2, <4>1, <4>2 DEF Whole, Partial, Torn
    <3> QED
      BY <3>1, <3>2
  <2> QED
    BY <2>8, <2>9, <2>10, <2>11 DEF WriteOK
<1> QED
  BY <1>2, <1>3 DEF Build

LEMMA WholeGoesOn ==
  ASSUME WorldOK, JobOK, OwnOK, WriteOK, sc' = sc, UNCHANGED <<kind, theirs, made>>,
         pc \in Building, pc' \in Building, item' = item,
         \A m \in Node \ {item.new} : at'[m] = at[m] /\ data'[m] = data[m]
  PROVE  WholeOK'
<1> SUFFICES ASSUME NEW m \in made' \ theirs', kind'[m] = "file", at'[m] # Nowhere, m # item.new
             PROVE  Whole(m)'
  BY DEF WholeOK, Grows
<1>1. m \in made \ theirs /\ m \in Node
  BY DEF OwnOK
<1>2. Whole(m)
  BY <1>1 DEF WriteOK, WholeOK, Grows
<1> QED
  BY <1>1, <1>2 DEF Whole, Partial, Torn

LEMMA ReadLastWrite ==
  ASSUME WorldOK, JobOK, OwnOK, WriteOK, ReadLast
  PROVE  WriteOK'
<1> DEFINE c == IF data[item.id] = item.half THEN item.half ELSE Torn(item.new)
<1>1. /\ pc = "more" /\ item \in Task /\ sc' = sc /\ item.new \in Node /\ kind[item.new] = "file"
      /\ item.id \in Node /\ item.id # item.new
      /\ data' = [data EXCEPT ![item.new] = c]
      /\ stamp' = [stamp EXCEPT ![item.new] = clock]
      /\ pc' = "verify"
      /\ UNCHANGED <<at, kind, clock, budget, theirs, item, made>>
  BY DEF ReadLast, context, ghosts, JobOK, JobTyped, Sorted, Task
<1>2. c = item.half \/ c = Torn(item.new)
  OBVIOUS
<1>3. stamp[item.id] = item.seen /\ sc.move => c = item.half
  BY <1>1 DEF WriteOK, SettledOK
<1> HIDE DEF c
<1>4. \A m \in Node : ~Marked(item.half, item.new) /\ (Marked(item.half, m) => kind[m] # "none")
  BY <1>1 DEF WriteOK, MarksOK
<1>5. data'[item.new] = c /\ \A m \in Node \ {item.new} : data'[m] = data[m] /\ stamp'[m] = stamp[m]
  BY <1>1 DEF WorldOK
<1>6. \A m \in Node : Marked(Torn(item.new), m) => m = item.new
  BY DEF Marked, Partial, Torn
<1>7. c # Partial(item.new) /\ \A m \in Node : Marked(c, m) => kind[m] # "none"
  BY <1>1, <1>2, <1>4, <1>6, MarksDiffer DEF Marked
<1>8. MarksOK'
  <2>1. \A n, m \in Node : Marked(data'[n], m) => kind'[m] # "none"
    BY <1>1, <1>5, <1>7 DEF WriteOK, MarksOK
  <2> QED
    BY <1>1, <1>5, <1>7, <2>1 DEF MarksOK, Marked, Partial, Torn
<1>9. SettledOK'
  <2>1. sc.move => item.seen < clock /\ item.seen <= stamp[item.id]
    BY <1>1 DEF WriteOK, SettledOK
  <2>2. sc.move /\ stamp'[item.id] = item.seen => data'[item.new] # Torn(item.new)
    BY <1>1, <1>3, <1>4, <1>5 DEF Marked
  <2> QED
    BY <1>1, <1>5, <2>1, <2>2 DEF SettledOK, Torn
<1>10. HomeOK'
  BY <1>1 DEF WriteOK, HomeOK
<1>11. WholeOK'
  BY <1>1, <1>5, WholeGoesOn
<1> QED
  BY <1>8, <1>9, <1>10, <1>11 DEF WriteOK

LEMMA VerifyWrite ==
  ASSUME WorldOK, JobOK, OwnOK, WriteOK, Verify
  PROVE  WriteOK'
<1>1. /\ pc = "verify" /\ sc' = sc /\ UNCHANGED <<kind, data, stamp, clock, theirs, made>>
  BY DEF Verify, context
<1>2. CASE GiveUpFile
  BY <1>1, <1>2, DiscardedHome, WriteGivesUp DEF GiveUpFile, Leave, After
<1>3. CASE stamp[item.id] = item.seen /\ pc' \in {"link0", "publish"} /\ UNCHANGED <<at, item>>
  <2>1. MarksOK' /\ HomeOK'
    BY <1>1, <1>3 DEF WriteOK, MarksOK, HomeOK, Marked, Partial, Torn
  <2>2. SettledOK'
    BY <1>1, <1>3 DEF WriteOK, SettledOK, Torn
  <2>3. WholeOK'
    BY <1>1, <1>3, WholeGoesOn
  <2> QED
    BY <2>1, <2>2, <2>3 DEF WriteOK
<1> QED
  BY <1>2, <1>3 DEF Verify

LEMMA LinkUnnamedWrite ==
  ASSUME WorldOK, JobOK, OwnOK, WriteOK, LinkUnnamed
  PROVE  WriteOK'
<1>1. /\ pc = "link0" /\ sc' = sc /\ UNCHANGED <<kind, data, clock, theirs, made>>
      /\ item \in Task /\ item.id \in Node /\ item.new \in Node /\ item.id # item.new
      /\ at[item.new] = Nowhere
  BY DEF LinkUnnamed, context, ghosts, JobOK, JobTyped, Sorted, Task
<1>2. CASE Leave(After) /\ UNCHANGED at
  BY <1>1, <1>2, WriteGivesUp DEF Leave, After
<1>3. CASE /\ at' = [at EXCEPT ![item.new] = <<item.where, item.temp>>]
           /\ stamp' = [stamp EXCEPT ![item.new] = clock] /\ pc' = "publish" /\ UNCHANGED item
  <2>1. /\ at'[item.new] = <<item.where, item.temp>> /\ stamp'[item.id] = stamp[item.id]
        /\ \A m \in Node \ {item.new} : at'[m] = at[m]
    BY <1>1, <1>3 DEF WorldOK, WellPlaced
  <2>2. MarksOK' /\ HomeOK'
    BY <1>1, <1>3, <2>1 DEF WriteOK, MarksOK, HomeOK, Marked, Partial, Torn
  <2>3. SettledOK'
    BY <1>1, <1>3, <2>1 DEF WriteOK, SettledOK, Torn
  <2>4. WholeOK'
    BY <1>1, <1>3, <2>1, WholeGoesOn
  <2> QED
    BY <2>2, <2>3, <2>4 DEF WriteOK
<1> QED
  BY <1>2, <1>3 DEF LinkUnnamed

LEMMA PublishWrite ==
  ASSUME WorldOK, JobOK, OwnOK, WriteOK, Publish
  PROVE  WriteOK'
<1>1. /\ pc = "publish" /\ sc' = sc /\ UNCHANGED <<kind, data, clock, theirs, made>>
      /\ item \in Task /\ item.id \in Node /\ item.new \in Node /\ item.id # item.new
      /\ item.ddir \in Node /\ item.final \in Name
  BY DEF Publish, context, JobOK, JobTyped, Sorted, Task
<1>2. CASE ~StillOurs /\ Leave(After) /\ UNCHANGED at
  BY <1>1, <1>2, WriteGivesUp DEF Leave, After, StillOurs, WriteOK, HomeOK
<1>3. CASE GiveUpFile
  BY <1>1, <1>3, DiscardedHome, WriteGivesUp DEF GiveUpFile, Leave, After
<1>4. CASE /\ at' = Renamed(item.new, item.ddir, item.final)
           /\ stamp' = IF InPlace THEN stamp ELSE [stamp EXCEPT ![item.new] = clock]
           /\ pc' = "record" /\ UNCHANGED item
  <2>1. at'[item.new] = <<item.ddir, item.final>> /\ stamp'[item.id] = stamp[item.id]
        /\ at'[item.new][1] # Stage /\ at'[item.new][2] # Temp
    BY <1>1, <1>4, NodeAssumption, NameAssumption DEF WorldOK, Renamed
  <2>2. ASSUME NEW m \in Node, m # item.new
        PROVE  at'[m] \in {at[m], Nowhere}
    BY <1>4, <2>2 DEF Renamed
  <2>3. MarksOK' /\ HomeOK'
    BY <1>1, <1>4 DEF WriteOK, MarksOK, HomeOK, Marked, Partial, Torn
  <2>4. SettledOK'
    BY <1>1, <1>4, <2>1 DEF WriteOK, SettledOK, Torn
  <2>5. WholeOK'
    <3> SUFFICES ASSUME NEW m \in made' \ theirs', kind'[m] = "file", at'[m] # Nowhere
                 PROVE  Whole(m)'
      BY DEF WholeOK
    <3>1. CASE m = item.new
      BY <1>1, <1>4, <2>1, <3>1 DEF WriteOK, MarksOK, SettledOK, Whole, Partial, Torn
    <3>2. CASE m # item.new
      <4>1. m \in made \ theirs /\ m \in Node
        BY <1>1 DEF OwnOK
      <4>2. at'[m] = at[m] /\ Whole(m)
        BY <1>1, <2>2, <3>2, <4>1 DEF WriteOK, WholeOK, Grows
      <4> QED
        BY <1>1, <4>1, <4>2 DEF Whole, Partial, Torn
    <3> QED
      BY <3>1, <3>2
  <2> QED
    BY <2>3, <2>4, <2>5 DEF WriteOK
<1> QED
  BY <1>2, <1>3, <1>4 DEF Publish

LEMMA CopyLinkWrite ==
  ASSUME WorldOK, JobOK, OwnOK, WriteOK, JobDid, CopyLink
  PROVE  WriteOK'
<1> DEFINE n == Spare
<1>1. /\ pc = "link" /\ item \in Task /\ item.id \in Node /\ kind[item.id] = "link" /\ sc' = sc
  BY DEF CopyLink, context, JobOK, JobTyped, Sorted, Task
<1>2. CASE UNCHANGED <<world, made>> /\ Leave(After)
  <2>1. data' = data /\ pc' \notin {"build", "record"} \cup Building
    BY <1>2 DEF world, Leave, After
  <2> QED
    BY <1>1, <1>2, <2>1, WriteAway
<1>3. CASE /\ Unused # {} /\ Lookup(item.dir, item.name) = item.id
           /\ kind' = [kind EXCEPT ![n] = "link"]
           /\ data' = [data EXCEPT ![n] = data[Lookup(item.dir, item.name)]]
           /\ made' = made \cup {n}
           /\ item' = [item EXCEPT !.new = n] /\ pc' = "record"
           /\ at' = Renamed(n, item.ddir, item.final) /\ UNCHANGED theirs
  <2>1. n \in Node /\ kind[n] = "none" /\ n # item.id
    BY <1>1, <1>3, SpareUnused
  <2> HIDE DEF n
  <2>2. /\ data'[n] = data[item.id] /\ kind'[n] = "link"
        /\ \A m \in Node \ {n} : kind'[m] = kind[m] /\ data'[m] = data[m]
    BY <1>1, <1>3, <2>1 DEF WorldOK
  <2>3. item'.id = item.id /\ item'.new = n
    BY <1>1, <1>3 DEF Task
  <2>4. \A m \in Node : ~Marked(data[m], n)
    BY <2>1 DEF WriteOK, MarksOK
  <2>5. MarksOK'
    <3>1. \A k, m \in Node : Marked(data'[k], m) => kind'[m] # "none"
      BY <1>1, <2>1, <2>2 DEF WriteOK, MarksOK
    <3>2. data'[n] # Partial(n)
      BY <1>1, <2>2, <2>4 DEF Marked
    <3> QED
      BY <1>3, <2>3, <3>1, <3>2 DEF MarksOK, Marked, Partial, Torn
  <2>6. SettledOK'
    <3>1. data'[n] # Torn(n) /\ kind'[item'.id] # "file"
      BY <1>1, <2>1, <2>2, <2>3, <2>4 DEF Marked
    <3> QED
      BY <1>3, <2>3, <3>1 DEF SettledOK, Torn
  <2>7. HomeOK'
    BY <1>3, <2>3 DEF HomeOK
  <2>8. WholeOK'
    <3> SUFFICES ASSUME NEW m \in made' \ theirs', kind'[m] = "file", at'[m] # Nowhere
                 PROVE  Whole(m)'
      BY DEF WholeOK
    <3>1. m # n /\ m \in made \ theirs /\ m \in Node
      BY <1>3, <2>2 DEF OwnOK
    <3>2. at'[m] = at[m]
      BY <1>3, <3>1 DEF Renamed
    <3>3. Whole(m)
      BY <1>1, <2>2, <3>1, <3>2 DEF WriteOK, WholeOK, Grows
    <3> QED
      BY <1>1, <2>2, <3>1, <3>2, <3>3 DEF Whole, Partial, Torn
  <2> QED
    BY <2>5, <2>6, <2>7, <2>8 DEF WriteOK
<1> QED
  BY <1>2, <1>3 DEF CopyLink

LEMMA WriteStep ==
  ASSUME Base, OwnOK, WriteOK, [Next]_vars
  PROVE  WriteOK'
<1>1. CASE Thinks
  BY <1>1, ThinksWrite DEF Base
<1>2. CASE Acts
  <2>1. JobDid
    BY <1>2, ActsBase
  <2> QED
    BY <1>2, <2>1, TryRenameWrite, DirWrite, RemovalWrite, StopCopyWrite, BuildWrite, ReadLastWrite,
       VerifyWrite, LinkUnnamedWrite, PublishWrite, CopyLinkWrite, Zenon DEF Acts, Base
<1>3. CASE Others
  BY <1>3, OthersBase, OthersWrite DEF Base
<1>4. CASE Cancel \/ (Tick /\ UNCHANGED job) \/ UNCHANGED vars
  <2>1. /\ UNCHANGED <<at, kind, data, stamp, theirs, sc, pc, item, made>>
        /\ clock' \in {clock, clock + 1} /\ clock \in Nat
    BY <1>4 DEF Cancel, Tick, job, vars, world, ghosts, Base, WorldOK
  <2>2. MarksOK' /\ HomeOK' /\ WholeOK'
    BY <2>1 DEF WriteOK, MarksOK, HomeOK, WholeOK, Whole, Grows, Marked, Partial, Torn
  <2>3. pc \in Tasked => item.seen \in Nat
    BY DEF Base, JobOK, JobTyped, Task
  <2>4. SettledOK'
    BY <2>1, <2>3 DEF WriteOK, SettledOK, Torn
  <2> QED
    BY <2>2, <2>4 DEF WriteOK
<1> QED
  BY <1>1, <1>2, <1>3, <1>4, StepIs, Zenon

LEMMA InitWrite ==
  ASSUME Init
  PROVE  WriteOK
<1>1. \A n \in Node : data[n][1] = "first"
  <2>1. sc.tree \in DOMAIN Layout
    BY ScenarioAssumption DEF Init
  <2>2. start.data \in [Node -> {"first"} \X Nat]
    BY <2>1, LayoutAssumption DEF start
  <2> QED
    BY <2>2 DEF Init
<1>2. MarksOK
  BY <1>1 DEF Init, MarksOK, Marked, Partial, Torn
<1> QED
  BY <1>2 DEF Init, WriteOK, SettledOK, HomeOK, WholeOK

\* A file of the job is half written only while it is being written, and a published
\* one is whole; to a move, of one version of the source (createFile, publish).
THEOREM WriteInvariant == Spec => [](Base /\ OwnOK /\ WriteOK)
<1>1. Init => Base /\ OwnOK /\ WriteOK
  BY InitBase, InitOwn, InitWrite
<1>2. Base /\ OwnOK /\ WriteOK /\ [Next]_vars => (Base /\ OwnOK /\ WriteOK)'
  BY BaseStep, OwnStep, WriteStep
<1> QED
  BY <1>1, <1>2, PTL DEF Spec

LEMMA WriteShowsWhole ==
  ASSUME Base, OwnOK, WriteOK
  PROVE  NamesShowWholeFiles
<1> SUFFICES ASSUME NEW m \in made \ theirs, kind[m] = "file", at[m] # Nowhere
             PROVE  /\ pc = "end" => at[m][1] # Stage /\ at[m][2] # Temp
                    /\ data[m] = Partial(m) =>
                            \/ at[m][1] = Stage \/ at[m][2] = Temp
                            \/ sc.build = "direct" /\ m = item.new
                    /\ (data[m] = Torn(m) /\ sc.move) => m = item.new
  BY DEF NamesShowWholeFiles
<1>1. CASE Whole(m)
  BY <1>1 DEF Whole
<1>2. CASE Grows(m)
  <2>1. data[m] = Partial(m) => pc \in {"read", "more"}
    BY <1>2 DEF Grows, WriteOK, MarksOK
  <2>2. sc.build \in {"unnamed", "staged", "direct", "refused"}
    BY ScenarioAssumption DEF Base, WorldOK
  <2>3. data[m] = Partial(m) => at[m][1] = Stage \/ sc.build = "direct"
    BY <1>2, <2>1, <2>2 DEF Grows, WriteOK, HomeOK
  <2> QED
    BY <1>2, <2>3 DEF Grows
<1> QED
  BY <1>1, <1>2 DEF WriteOK, WholeOK

\* No name of the destination shows a half written file, and none shows a mixture
\* of two versions to a move; no temporary is left behind (publish, discard).
THEOREM NamesAlwaysShowWholeFiles == Spec => []NamesShowWholeFiles
BY WriteInvariant, WriteShowsWhole, PTL

-----------------------------------------------------------------------------
(* What a move may remove. An entry is recorded when its copy stands       *)
(* whole; the name of the copy is flushed when its directory has been      *)
(* walked, or at the end of the root (Filed); only then may it go (DoneOK).*)
\* The directory the entry at work is copied into.
Into == IF frames = <<>> THEN Dst ELSE Inner.dst
\* The entry at work belongs to the directory being walked, or is the root.
TaskOK ==
    /\ pc \in Tasked => /\ item.act = "overwrite" => sc.policy = "overwrite"
                        /\ item.ddir = Into
                        /\ frames = <<>> => item.id = root.id
    /\ pc \notin {"root", "end"} => kind[root.id] # "none"
    /\ pc = "pin" => item.where = Stage \/ <<item.where, item.temp>> = <<item.ddir, item.final>>
    /\ pc \in Building /\ sc.build = "unnamed" => item.where = item.ddir
    /\ pc = "link0" => sc.build = "unnamed"
\* What is published was flushed, and what is being written was not.
SyncedOK ==
    /\ \A n \in synced : n \in Node /\ kind[n] # "none"
    /\ pc \in {"link0", "publish", "record"} => item.new \in synced
    /\ pc \in {"read", "more", "verify"} => item.new \notin synced
\* What the others wrote they wrote in the past: they never write the same again.
Aged(c) == c[1] = "theirs" => c[2] \in Nat /\ c[2] > budget
FreshOK ==
    /\ \A n \in Node : Aged(data[n])
    /\ pc = "more" => Aged(item.half)
\* While the source shows no change, a copy equal to it stood whole.
Backed(n, m, seen) ==
    stamp[n] = seen /\ data[n] = data[m] => <<m, data[m]>> \in held
OnDiskOrGone(m) == OnDisk(m) \/ at[m] = Nowhere
\* A recorded entry: its copy is the job's, flushed, and backs its source.
EntryOK(e) ==
    /\ e.kind = "dir" => e.id \in copied /\ kind[e.id] = "dir" /\ e.did \in Node /\ kind[e.did] = "dir"
    /\ e.kind # "dir" =>
        /\ kind[e.id] = e.kind /\ e.kind \in {"file", "link"}
        /\ e.did # None => e.did \in made \cap synced
    /\ e.kind = "file" =>
        /\ e.seen \in Nat /\ e.seen < clock /\ e.seen <= stamp[e.id]
        /\ e.did # None => Backed(e.id, e.did, e.seen)
    /\ e.kind = "link" /\ e.did # None => <<e.did, data[e.id]>> \in held
\* An entry that may be removed: the name of its copy is on the disk, too.
DoneOK(e) == EntryOK(e) /\ (e.did # None => OnDiskOrGone(e.did))
\* The name of m is on the disk, or in a directory that is still to be flushed.
Filed(m) == OnDiskOrGone(m) \/ at[m][1] = Dst \/ \E i \in DOMAIN frames : at[m][1] = frames[i].dst
\* A copy about to be recorded backs its source.
RecordOK ==
    /\ pc = "record" /\ sc.move /\ kind[item.id] = "file" => Backed(item.id, item.new, item.seen)
    /\ pc = "record" /\ kind[item.id] = "link" => <<item.new, data[item.id]>> \in held
\* Only a move records, and only what is so.
LedgerOK ==
    /\ ledger # {} \/ del # <<>> => sc.move
    /\ \A e \in ledger : EntryOK(e)
\* A move that has not complained files every copy it recorded.
FiledOK ==
    pc \in Copying \cup {"finish"} /\ ~spoiled /\ sc.move =>
        /\ \A e \in ledger : e.did # None => Filed(e.did)
        /\ kind[root.id] = "dir" /\ (frames # <<>> \/ pc = "finish") =>
              root.id \in copied /\ root.new \in Node /\ kind[root.new] = "dir" /\ Filed(root.new)
\* What a removal has before it may be removed.
LevelsOK ==
    /\ pc \in Removing => \A e \in ledger : DoneOK(e)
    /\ \A i \in DOMAIN del : \A e \in del[i].todo : DoneOK(e)
    /\ \A i \in DOMAIN del : i # 1 =>
          del[i].dir \in copied /\ kind[del[i].dir] = "dir" /\ OnDisk(del[i].dst)
\* What it looks at may be removed once it was compared.
LookOK ==
    /\ pc \in Looking => DoneOK(item) /\ item.kind # "dir"
    /\ pc \in {"compare", "compare2"} => item.kind = "file"
    /\ pc \in {"compare", "compare2", "unlink"} => item.did # None /\ OnDisk(item.did)
    /\ pc = "unlink" /\ item.kind = "file" /\ stamp[item.id] = item.seen =>
          <<item.did, data[item.id]>> \in held
RemovingOK == LevelsOK /\ LookOK

\* A step changes a node's stamp when it changes its content, and the content of
\* a flushed copy is changed by the others only.
Drift ==
    /\ clock' \in Nat /\ clock <= clock'
    /\ \A n \in Node : kind[n] # "none" =>
        /\ kind'[n] = kind[n]
        /\ stamp'[n] \in {stamp[n], clock}
        /\ \/ data'[n] = data[n]
           \/ /\ stamp'[n] = clock /\ kind[n] # "link"
              /\ data'[n] = <<"theirs", budget>> \/ n \notin synced

\* The histories only grow.
Grown == /\ held \subseteq held' /\ made \subseteq made' /\ synced \subseteq synced'
         /\ copied \subseteq copied' /\ flushed \subseteq flushed' /\ theirs \subseteq theirs'

LEMMA JobDrifts ==
  ASSUME WorldOK, JobOK, SyncedOK, JobDid
  PROVE  Drift
<1>1. pc = "more" => kind[item.new] = "file" /\ item.new \notin synced
  BY DEF JobOK, Sorted, SyncedOK
<1> QED
  BY <1>1 DEF JobDid, Drift, WorldOK

LEMMA OthersDrift == ASSUME WorldOK, OthersDid PROVE Drift
BY DEF OthersDid, Drift, WorldOK

LEMMA BackedKept ==
  ASSUME WorldOK, FreshOK, Drift, Grown, NEW n \in Node, NEW m \in synced, m \in Node,
         kind[n] # "none", kind[m] # "none", NEW seen \in Nat, seen < clock, Backed(n, m, seen)
  PROVE  Backed(n, m, seen)'
<1> SUFFICES ASSUME stamp'[n] = seen, data'[n] = data'[m]
             PROVE  <<m, data'[m]>> \in held'
  BY DEF Backed
<1>1. stamp[n] = seen /\ data'[n] = data[n]
  BY DEF Drift, WorldOK
<1>2. data'[m] = data[m]
  <2> SUFFICES ASSUME data'[m] = <<"theirs", budget>> PROVE FALSE
    BY DEF Drift
  <2>1. data[n] = <<"theirs", budget>>
    BY <1>1
  <2>2. budget > budget
    BY <2>1 DEF FreshOK, Aged
  <2> QED
    BY <2>2 DEF WorldOK
<1> QED
  BY <1>1, <1>2 DEF Backed, Grown

LEMMA EntryKept ==
  ASSUME WorldOK, OwnOK, SyncedOK, FreshOK, Drift, Grown, NEW e \in Entries, EntryOK(e)
  PROVE  EntryOK(e)'
<1>1. e.id \in Node /\ kind[e.id] # "none"
  BY DEF Entries, EntryOK
<1>2. e.did # None => e.did \in Node /\ kind[e.did] # "none"
  BY DEF Entries, EntryOK, SyncedOK
<1>3. e.kind = "dir" => e.id \in copied' /\ kind'[e.id] = "dir" /\ e.did \in Node /\ kind'[e.did] = "dir"
  BY <1>1 DEF EntryOK, Drift, Grown
<1>4. e.kind # "dir" => /\ kind'[e.id] = e.kind /\ e.kind \in {"file", "link"}
                        /\ e.did # None => e.did \in made' \cap synced'
  BY <1>1 DEF EntryOK, Drift, Grown
<1>5. e.kind = "file" => e.seen \in Nat /\ e.seen < clock' /\ e.seen <= stamp'[e.id]
  BY <1>1 DEF EntryOK, Drift, WorldOK
<1>6. e.kind = "file" /\ e.did # None => Backed(e.id, e.did, e.seen)'
  <2> SUFFICES ASSUME e.kind = "file", e.did # None PROVE Backed(e.id, e.did, e.seen)'
    OBVIOUS
  <2>1. e.did \in synced /\ e.seen \in Nat /\ e.seen < clock /\ Backed(e.id, e.did, e.seen)
    BY DEF EntryOK
  <2> QED
    BY <1>1, <1>2, <2>1, BackedKept
<1>7. e.kind = "link" /\ e.did # None => <<e.did, data'[e.id]>> \in held'
  BY <1>1 DEF EntryOK, Drift, Grown
<1> QED
  BY <1>3, <1>4, <1>5, <1>6, <1>7 DEF EntryOK

\* What is gone stays gone, and what is on the disk or the others' stays so.
GoneStays == \A n \in Node : kind[n] # "none" /\ at[n] = Nowhere => at'[n] = Nowhere

LEMMA OnDiskKept ==
  ASSUME Grown, GoneStays, NEW m \in Node, kind[m] # "none", OnDiskOrGone(m)
  PROVE  OnDiskOrGone(m)'
BY DEF Grown, GoneStays, OnDiskOrGone, OnDisk

LEMMA DoneKept ==
  ASSUME WorldOK, OwnOK, SyncedOK, FreshOK, Drift, Grown, GoneStays, NEW e \in Entries, DoneOK(e)
  PROVE  DoneOK(e)'
<1>1. EntryOK(e)'
  BY EntryKept DEF DoneOK
<1>2. e.did # None => e.did \in Node /\ kind[e.did] # "none"
  BY DEF Entries, DoneOK, EntryOK, SyncedOK
<1> QED
  BY <1>1, <1>2, OnDiskKept DEF DoneOK

-----------------------------------------------------------------------------
(* The task: where the entry at work is copied to.                         *)
\* The frames are the same directories as before.
SameDirs ==
    /\ frames' \in Seq(Frame) /\ frames' # <<>> /\ Len(frames') = Len(frames)
    /\ DOMAIN frames' = DOMAIN frames
    /\ \A i \in DOMAIN frames : frames'[i].src = frames[i].src /\ frames'[i].dst = frames[i].dst

Taken(x, n) ==
    LET p == Place(Inner.dst, x, kind[n]) IN
    /\ n = Lookup(Inner.src, x) /\ n # None /\ p.act # "skip"
    /\ item' = [Entry(n, Inner.src, x, Inner.dst) EXCEPT !.final = p.name, !.act = p.act]
    /\ pc' \in {"opendir", "link", "open"}

LEMMA WalkEntryDoes ==
  ASSUME WorldOK, JobOK, WalkEntry
  PROVE  \/ Abandon
         \/ /\ SameDirs /\ (Complain \/ UNCHANGED marks)
            /\ UNCHANGED <<pc, item>> \/ \E x \in Name, n \in Node : Taken(x, n)
<1>1. /\ pc = "walk" /\ frames \in Seq(Frame) /\ frames # <<>>
  BY DEF WalkEntry, JobOK, JobTyped
<1>2. Inner \in Frame
  <2>1. Len(frames) \in DOMAIN frames
    BY <1>1
  <2> QED
    BY <1>1, <2>1 DEF Inner
<1>3. PICK x \in Inner.todo :
        LET n == Lookup(Inner.src, x)
            rest == [frames EXCEPT ![Len(frames)].todo = @ \ {x}]
            p == Place(Inner.dst, x, kind[n])
            said == {i \in DOMAIN frames : frames[i].changed}
        IN
        \/ /\ n = None                          \* gone since it was read
           /\ frames' = rest
           /\ UNCHANGED <<pc, item, marks>>
        \/ /\ n # None /\ Changed # {}           \* ancestorUnchanged
           /\ LET first == CHOOSE i \in Changed : \A j \in Changed : i <= j IN
              IF first \in said
              THEN frames' = rest /\ UNCHANGED marks
              ELSE frames' = [rest EXCEPT ![first].changed = TRUE] /\ Complain
           /\ UNCHANGED <<pc, item>>
        \/ /\ n # None /\ Changed = {} /\ kind[n] = "dir" /\ MeetsDestination(n)
           /\ Abandon
        \/ /\ n # None /\ Changed = {} /\ ~(kind[n] = "dir" /\ MeetsDestination(n))
           /\ kind[n] = "special" \/ p.act = "skip"
           /\ frames' = rest /\ Complain
           /\ UNCHANGED <<pc, item>>
        \/ /\ n # None /\ Changed = {} /\ ~(kind[n] = "dir" /\ MeetsDestination(n))
           /\ kind[n] # "special" /\ p.act # "skip"
           /\ frames' = rest
           /\ item' = [Entry(n, Inner.src, x, Inner.dst) EXCEPT
                        !.final = p.name, !.act = p.act]
           /\ pc' = CASE kind[n] = "dir" -> "opendir"
                      [] kind[n] = "link" -> "link"
                      [] OTHER -> "open"
           /\ UNCHANGED marks
  BY Zenon DEF WalkEntry
<1> DEFINE n == Lookup(Inner.src, x)
           rest == [frames EXCEPT ![Len(frames)].todo = @ \ {x}]
           p == Place(Inner.dst, x, kind[n])
           first == CHOOSE i \in Changed : \A j \in Changed : i <= j
<1>4. rest = [frames EXCEPT ![Len(frames)].todo = Inner.todo \ {x}]
  BY DEF Inner
<1> HIDE DEF rest
<1>5. x \in Name /\ Inner.todo \ {x} \subseteq Name
  BY <1>2, <1>3 DEF Frame
<1>6. /\ rest \in Seq(Frame) /\ rest # <<>> /\ DOMAIN rest = DOMAIN frames /\ Len(rest) = Len(frames)
      /\ \A i \in DOMAIN rest : rest[i].src = frames[i].src /\ rest[i].dst = frames[i].dst
  BY <1>1, <1>4, <1>5, TodoSet
<1>7. ASSUME frames' = rest PROVE SameDirs
  BY <1>6, <1>7 DEF SameDirs
<1>8. ASSUME frames' = [rest EXCEPT ![first].changed = TRUE] PROVE SameDirs
  <2> HIDE DEF first
  <2>1. /\ frames' \in Seq(Frame) /\ DOMAIN frames' = DOMAIN rest /\ Len(frames') = Len(rest)
        /\ \A j \in DOMAIN frames' : frames'[j].src = rest[j].src /\ frames'[j].dst = rest[j].dst
    <3>1. LET g == [rest EXCEPT ![first].changed = TRUE] IN
          /\ g \in Seq(Frame) /\ DOMAIN g = DOMAIN rest /\ Len(g) = Len(rest)
          /\ \A j \in DOMAIN g : g[j].src = rest[j].src /\ g[j].dst = rest[j].dst
      BY <1>6, ChangedSet, Zenon
    <3> QED
      BY <1>8, <3>1, Zenon
  <2>2. frames' # <<>>
    BY <1>1, <1>6, <2>1
  <2> QED
    BY <2>1, <2>2, <1>6 DEF SameDirs
<1>9. CASE /\ n # None /\ p.act # "skip" /\ frames' = rest
           /\ item' = [Entry(n, Inner.src, x, Inner.dst) EXCEPT !.final = p.name, !.act = p.act]
           /\ pc' = (CASE kind[n] = "dir" -> "opendir"
                      [] kind[n] = "link" -> "link"
                      [] OTHER -> "open")
           /\ UNCHANGED marks
  <2>1. n \in Node
    BY <1>9, LookupFound
  <2>2. pc' \in {"opendir", "link", "open"}
    BY <1>9
  <2>3. Taken(x, n)
    BY <1>9, <2>2, Zenon DEF Taken
  <2>4. SameDirs
    BY <1>7, <1>9
  <2> HIDE DEF n, p
  <2> QED
    BY <1>5, <1>9, <2>1, <2>3, <2>4
<1> QED
  BY <1>3, <1>7, <1>8, <1>9, Zenon DEF rest

LEMMA SameDirsKept ==
  ASSUME SameDirs, JobOK, frames # <<>>
  PROVE  Inner'.dst = Inner.dst /\ Inner'.src = Inner.src
<1>1. Len(frames) \in DOMAIN frames
  BY DEF JobOK, JobTyped
<1> QED
  BY <1>1 DEF SameDirs, Inner

LEMMA TaskRests ==
  ASSUME WorldOK, JobOK, TaskOK, Drift, root' = root, pc' \notin Tasked,
         pc' \notin {"root", "end"} => pc \notin {"root", "end"}
  PROVE  TaskOK'
<1>1. pc \notin {"root", "end"} => root.id \in Node
  BY DEF JobOK, JobTyped, Task
<1> QED
  BY <1>1 DEF TaskOK, Drift

LEMMA TaskGoes ==
  ASSUME WorldOK, JobOK, TaskOK, Drift, sc' = sc, UNCHANGED <<root, frames>>, pc \in Tasked,
         pc' \in Tasked \ {"pin"}, item'.act = item.act, item'.ddir = item.ddir, item'.id = item.id,
         pc' \in Building => pc \in Building /\ item'.where = item.where,
         pc' = "link0" => sc.build = "unnamed"
  PROVE  TaskOK'
<1>1. root.id \in Node
  BY DEF JobOK, JobTyped, Task
<1>2. Into' = Into
  BY DstSame DEF Into, Inner
<1>3. kind'[root.id] # "none"
  BY <1>1 DEF TaskOK, Drift
<1> QED
  BY <1>2, <1>3 DEF TaskOK

LEMMA TakeRootTask ==
  ASSUME WorldOK, JobOK, TaskOK, Drift, TakeRoot
  PROVE  TaskOK'
<1> DEFINE n == Lookup(Top, Head(left))
<1>1. pc = "root" /\ frames = <<>> /\ frames' = frames /\ UNCHANGED <<sc, kind>>
  BY DEF TakeRoot, JobOK, JobTyped, world
<1>2. CASE UNCHANGED <<pc, item, root>>
  BY <1>1, <1>2, TaskRests
<1>3. CASE n # None /\ item' = Entry(n, Top, Head(left), Dst) /\ root' = item' /\ pc' = "place"
  <2>1. n \in Node /\ kind[n] # "none"
    BY <1>3, LookedUp DEF WorldOK
  <2> HIDE DEF n
  <2>2. item'.id = n /\ item'.act = "create" /\ item'.ddir = Dst
    BY <1>3 DEF Entry
  <2>3. Into' = Dst
    BY <1>1, DstSame DEF Into
  <2> QED
    BY <1>1, <1>3, <2>1, <2>2, <2>3 DEF TaskOK
<1> QED
  BY <1>2, <1>3 DEF TakeRoot

LEMMA PlaceRootTask ==
  ASSUME WorldOK, JobOK, TaskOK, Drift, PlaceRoot
  PROVE  TaskOK'
<1>1. /\ pc = "place" /\ frames' = frames /\ root' = root /\ item \in Task /\ item.name \in Name
      /\ UNCHANGED <<sc, kind>> /\ root.id \in Node
  BY DEF PlaceRoot, JobOK, JobTyped, world, Task
<1>2. CASE Leave("root")
  BY <1>1, <1>2, TaskRests DEF Leave
<1>3. CASE /\ RootPlace.act # "skip"
           /\ item' = [item EXCEPT !.final = RootPlace.name, !.act = RootPlace.act]
           /\ pc' \in {"rename", "begin"}
  <2>1. item'.act = RootPlace.act /\ item'.ddir = item.ddir /\ item'.id = item.id
    BY <1>1, <1>3 DEF Task
  <2>2. Into' = Into
    BY <1>1, DstSame DEF Into, Inner
  <2>3. item'.act = "overwrite" => sc.policy = "overwrite"
    BY <1>1, <2>1, RootPlaceTyped
  <2> QED
    BY <1>1, <1>3, <2>1, <2>2, <2>3 DEF TaskOK
<1> QED
  BY <1>2, <1>3 DEF PlaceRoot

LEMMA OpenDirTask ==
  ASSUME WorldOK, JobOK, TaskOK, Drift, OpenDir
  PROVE  TaskOK'
<1> DEFINE n == Lookup(item.dir, item.name)
<1>1. pc = "opendir" /\ root' = root /\ item \in Task /\ UNCHANGED <<sc, kind>> /\ root.id \in Node
  BY DEF OpenDir, JobOK, JobTyped, world, Task
<1>2. CASE Leave("finish") \/ Leave("walk")
  BY <1>1, <1>2, TaskRests DEF Leave
<1>3. CASE /\ frames = <<>> => n = item.id
           /\ item' = [item EXCEPT !.id = n, !.mode = data[n]]
           /\ pc' = "mkdir" /\ UNCHANGED frames
  <2>1. item'.act = item.act /\ item'.ddir = item.ddir /\ item'.id = n
    BY <1>1, <1>3 DEF Task
  <2>2. Into' = Into
    BY <1>1, <1>3, DstSame DEF Into, Inner
  <2> QED
    BY <1>1, <1>3, <2>1, <2>2 DEF TaskOK
<1> QED
  BY <1>2, <1>3 DEF OpenDir, Abandon

LEMMA WalkEntryTask ==
  ASSUME WorldOK, JobOK, TaskOK, Drift, WalkEntry
  PROVE  TaskOK'
<1>1. pc = "walk" /\ root' = root /\ UNCHANGED <<sc, kind>> /\ root.id \in Node /\ frames # <<>>
      /\ frames \in Seq(Frame)
  BY DEF WalkEntry, JobOK, JobTyped, world, Task
<1>2. CASE Abandon \/ UNCHANGED <<pc, item>>
  BY <1>1, <1>2, TaskRests DEF Leave, Abandon
<1>3. ASSUME SameDirs, NEW x \in Name, NEW n \in Node, Taken(x, n)
      PROVE  TaskOK'
  <2> DEFINE p == Place(Inner.dst, x, kind[n])
             e == Entry(n, Inner.src, x, Inner.dst)
  <2>1. Inner.src \in Node /\ Inner.dst \in Node
    <3>1. Len(frames) \in DOMAIN frames
      BY <1>1
    <3> QED
      BY <1>1, <3>1, FramesTyped DEF Inner
  <2>2. e \in Task /\ e.ddir = Inner.dst
    BY <2>1, EntryTyped DEF Entry
  <2>3. p.act = "overwrite" => sc.policy = "overwrite"
    BY PlaceTyped
  <2>4. item' = [e EXCEPT !.final = p.name, !.act = p.act] /\ pc' \in {"opendir", "link", "open"}
    BY <1>3 DEF Taken
  <2> HIDE DEF p, e
  <2>5. item'.act = p.act /\ item'.ddir = Inner.dst
    BY <2>2, <2>4 DEF Task
  <2>6. frames' # <<>> /\ Into' = Inner.dst
    BY <1>1, <1>3, SameDirsKept DEF Into, SameDirs
  <2> QED
    BY <1>1, <2>3, <2>4, <2>5, <2>6 DEF TaskOK
<1> QED
  BY <1>2, <1>3, WalkEntryDoes

LEMMA EnterTask ==
  ASSUME WorldOK, JobOK, TaskOK, Drift, pc \in {"mkdir", "pin"}, NEW d, NEW c, Enter(d, c)
  PROVE  TaskOK'
<1>1. item \in Task /\ item.id \in Node /\ root \in Task /\ root.id \in Node /\ kind[item.id] # "none"
  BY DEF JobOK, JobTyped, Sorted, Task
<1>2. root' = root \/ root' = [item EXCEPT !.new = d]
  BY DEF Enter
<1>3. kind'[root'.id] # "none"
  BY <1>1, <1>2 DEF TaskOK, Drift, Task
<1>4. pc' \in {"finish", "opened"}
  BY DEF Enter, Abandon, Leave
<1> QED
  BY <1>3, <1>4 DEF TaskOK

LEMMA MakeDirTask ==
  ASSUME WorldOK, JobOK, TaskOK, Drift, MakeDir
  PROVE  TaskOK'
<1> DEFINE p == IF Staged THEN <<Stage, Temp>> ELSE <<item.ddir, item.final>>
<1>1. pc = "mkdir" /\ item \in Task /\ sc' = sc /\ root.id \in Node
  BY DEF MakeDir, JobOK, JobTyped, Task
<1>2. CASE Leave(After) /\ UNCHANGED root
  BY <1>1, <1>2, TaskRests DEF Leave, After
<1>3. CASE \E d, c : Enter(d, c)
  BY <1>1, <1>3, EnterTask
<1>4. CASE /\ item' = [item EXCEPT !.new = Spare, !.where = p[1], !.temp = p[2]]
           /\ pc' = "pin" /\ UNCHANGED <<root, frames>>
  <2>1. /\ item'.act = item.act /\ item'.ddir = item.ddir /\ item'.id = item.id
        /\ item'.final = item.final /\ item'.where = p[1] /\ item'.temp = p[2]
    <3> HIDE DEF p
    <3> QED
      BY <1>1, <1>4 DEF Task
  <2>2. item'.where = Stage \/ <<item'.where, item'.temp>> = <<item'.ddir, item'.final>>
    BY <2>1
  <2>3. Into' = Into
    BY <1>1, <1>4, DstSame DEF Into, Inner
  <2> QED
    BY <1>1, <1>4, <2>1, <2>2, <2>3 DEF TaskOK, Drift
<1> QED
  BY <1>2, <1>3, <1>4 DEF MakeDir

LEMMA BuildTask ==
  ASSUME WorldOK, JobOK, TaskOK, Drift, Build
  PROVE  TaskOK'
<1> DEFINE p == BuildPlace
           w == IF p = Nowhere THEN item.ddir ELSE p[1]
           t == IF p # Nowhere THEN p[2] ELSE IF item.act = "overwrite" THEN Temp ELSE item.final
<1>1. pc = "build" /\ item \in Task /\ UNCHANGED <<sc, root, frames>> /\ root.id \in Node
  BY DEF Build, context, JobOK, JobTyped, Task
<1>2. CASE Leave(After)
  BY <1>1, <1>2, TaskRests DEF Leave, After
<1>3. CASE item' = [item EXCEPT !.new = Spare, !.where = w, !.temp = t] /\ pc' = "read"
  <2>1. sc.build = "unnamed" => w = item.ddir
    BY DEF BuildPlace
  <2> HIDE DEF w, t, p
  <2>2. /\ item'.act = item.act /\ item'.ddir = item.ddir /\ item'.id = item.id /\ item'.where = w
    BY <1>1, <1>3 DEF Task
  <2>3. Into' = Into
    BY <1>1, <1>3, DstSame DEF Into, Inner
  <2> QED
    BY <1>1, <1>3, <2>1, <2>2, <2>3 DEF TaskOK, Drift
<1> QED
  BY <1>2, <1>3 DEF Build

\* The steps that end an entry or go on with it as it is.
Onward ==
    \/ TryRename \/ BeginCopy \/ OpenSource \/ Settle \/ ReadFirst \/ ReadLast \/ Verify
    \/ LinkUnnamed \/ Publish \/ CloseCopy \/ CopyLink

LEMMA OnwardDoes ==
  ASSUME JobOK, Onward
  PROVE  /\ pc \in Tasked /\ UNCHANGED <<sc, root, frames, del, tracked, full>>
         /\ \/ Leave("root") \/ Leave("end") \/ Leave(After)
            \/ /\ pc' \in Tasked \ {"pin"}
               /\ item'.act = item.act /\ item'.ddir = item.ddir /\ item'.id = item.id
               /\ item'.where = item.where /\ item'.final = item.final /\ item'.temp = item.temp
               /\ pc' \in Building => pc \in Building
               /\ pc' = "link0" => sc.build = "unnamed"
<1> USE DEF JobOK, JobTyped, Task
<1>1. CASE TryRename \/ BeginCopy
  BY <1>1 DEF TryRename, BeginCopy, ledgerVars
<1>2. CASE OpenSource
  BY <1>2 DEF OpenSource, context
<1>3. CASE Settle \/ CloseCopy \/ Verify \/ LinkUnnamed \/ Publish
  BY <1>3 DEF Settle, CloseCopy, Verify, LinkUnnamed, Publish, GiveUpFile, context
<1>4. CASE ReadFirst
  BY <1>4 DEF ReadFirst, context
<1>5. CASE ReadLast
  BY <1>5 DEF ReadLast, context
<1>6. CASE CopyLink
  BY <1>6 DEF CopyLink, context
<1> QED
  BY <1>1, <1>2, <1>3, <1>4, <1>5, <1>6 DEF Onward

LEMMA OnwardTask ==
  ASSUME WorldOK, JobOK, TaskOK, Drift, Onward
  PROVE  TaskOK'
BY OnwardDoes, TaskRests, TaskGoes DEF Leave, After

\* The steps of the walk and of the removal that take up no entry to copy.
Aside ==
    \/ Opened \/ Unwind \/ StopCopy \/ FinishRoot \/ DeleteNext \/ Look \/ CompareFirst
    \/ CompareLast \/ UnlinkEntry \/ RemoveDir \/ RootGone \/ StopDelete \/ Finish

LEMMA AsideDoes ==
  ASSUME JobOK, Aside
  PROVE  /\ pc' \notin Tasked /\ UNCHANGED <<sc, root>>
         /\ pc' \notin {"root", "end"} => pc \notin {"root", "end"}
<1>1. CASE Opened \/ Unwind \/ StopCopy \/ FinishRoot
  BY <1>1 DEF Opened, Unwind, StopCopy, FinishRoot, Abandon, Leave, Stop, JobOK, JobTyped
<1>2. CASE DeleteNext \/ Look \/ CompareFirst \/ CompareLast
  BY <1>2 DEF DeleteNext, Look, CompareFirst, CompareLast, KeepEntry, DropEntry, removal
<1>3. CASE UnlinkEntry \/ RemoveDir \/ RootGone \/ StopDelete \/ Finish
  BY <1>3 DEF UnlinkEntry, RemoveDir, RootGone, StopDelete, Stop, Finish, KeepEntry, DropEntry, removal
<1> QED
  BY <1>1, <1>2, <1>3 DEF Aside

LEMMA AsideTask ==
  ASSUME WorldOK, JobOK, TaskOK, Drift, Aside
  PROVE  TaskOK'
BY AsideDoes, TaskRests

LEMMA PinDirTask ==
  ASSUME WorldOK, JobOK, TaskOK, Drift, PinDir
  PROVE  TaskOK'
<1>1. pc = "pin" /\ sc' = sc
  BY DEF PinDir
<1>2. CASE Leave(After) /\ UNCHANGED root
  BY <1>1, <1>2, TaskRests DEF Leave, After
<1>3. CASE Enter(item.new, TRUE)
  BY <1>1, <1>3, EnterTask
<1> QED
  BY <1>2, <1>3 DEF PinDir

LEMMA JobIs ==
  ASSUME Thinks \/ Acts
  PROVE  \/ Onward \/ Aside \/ TakeRoot \/ PlaceRoot \/ OpenDir \/ WalkEntry \/ MakeDir \/ PinDir \/ Build
BY Zenon DEF Thinks, Acts, Onward, Aside

LEMMA JobTask ==
  ASSUME WorldOK, JobOK, TaskOK, Drift, Thinks \/ Acts
  PROVE  TaskOK'
BY JobIs, OnwardTask, AsideTask, TakeRootTask, PlaceRootTask, OpenDirTask, WalkEntryTask, MakeDirTask,
   PinDirTask, BuildTask, Zenon

-----------------------------------------------------------------------------
(* The marks: what was flushed, and what was written when.                 *)
MarkedOK == SyncedOK /\ FreshOK /\ RecordOK

LEMMA MarkedRests ==
  ASSUME MarkedOK, Drift, UNCHANGED <<synced, data, budget>>, pc' \notin Building \cup {"record"}
  PROVE  MarkedOK'
<1>1. SyncedOK' /\ RecordOK'
  BY DEF MarkedOK, SyncedOK, RecordOK, Drift, Backed
<1>2. FreshOK'
  BY DEF MarkedOK, FreshOK, Aged
<1> QED
  BY <1>1, <1>2 DEF MarkedOK

LEMMA JobGrows ==
  ASSUME Thinks \/ Acts, JobDid
  PROVE  Grown
<1> DEFINE G == /\ held \subseteq held' /\ made \subseteq made' /\ synced \subseteq synced'
                /\ copied \subseteq copied' /\ flushed \subseteq flushed'
<1> USE DEF ghosts
<1>1. CASE TakeRoot \/ PlaceRoot \/ BeginCopy \/ OpenDir \/ Opened \/ WalkEntry
  <2>1. UNCHANGED ghosts
    BY <1>1, Zenon DEF TakeRoot, PlaceRoot, BeginCopy, OpenDir, Opened, WalkEntry
  <2>2. G
    BY <2>1
  <2> QED
    BY <2>2 DEF JobDid, Grown
<1>2. CASE TryRename \/ MakeDir \/ PinDir \/ Unwind \/ OpenSource \/ Settle \/ Build
  <2>1. G
    BY <1>2 DEF TryRename, MakeDir, PinDir, Unwind, OpenSource, Settle, Build, Enter, Persist, Abandon
  <2> QED
    BY <2>1 DEF JobDid, Grown
<1>3. CASE ReadFirst \/ ReadLast \/ Verify \/ LinkUnnamed \/ Publish \/ CloseCopy \/ CopyLink \/ StopCopy
  <2>1. G
    BY <1>3 DEF ReadFirst, ReadLast, Verify, LinkUnnamed, Publish, CloseCopy, CopyLink, StopCopy
  <2> QED
    BY <2>1 DEF JobDid, Grown
<1>4. CASE FinishRoot \/ DeleteNext \/ Look \/ CompareFirst \/ CompareLast \/ UnlinkEntry \/ RemoveDir
  <2>1. G
    BY <1>4 DEF FinishRoot, DeleteNext, Look, CompareFirst, CompareLast, UnlinkEntry, RemoveDir, removal
  <2> QED
    BY <2>1 DEF JobDid, Grown
<1>5. CASE RootGone \/ StopDelete \/ Finish
  <2>1. G
    BY <1>5 DEF RootGone, StopDelete, Finish, removal
  <2> QED
    BY <2>1 DEF JobDid, Grown
<1> QED
  BY <1>1, <1>2, <1>3, <1>4, <1>5, Zenon DEF Thinks, Acts

\* The steps that neither write a copy nor end its making.
Bystand ==
    \/ TakeRoot \/ PlaceRoot \/ TryRename \/ BeginCopy \/ OpenDir \/ MakeDir \/ PinDir \/ Opened
    \/ WalkEntry \/ Unwind \/ OpenSource \/ Settle \/ CloseCopy \/ StopCopy \/ FinishRoot
    \/ DeleteNext \/ Look \/ CompareFirst \/ CompareLast \/ UnlinkEntry \/ RemoveDir \/ RootGone
    \/ StopDelete \/ Finish

LEMMA BystandDoes ==
  ASSUME Bystand
  PROVE  UNCHANGED <<synced, data>> /\ pc' \notin Building \cup {"record"}
<1> USE DEF ghosts, world
<1>1. CASE TakeRoot \/ PlaceRoot \/ TryRename \/ BeginCopy
  BY <1>1 DEF TakeRoot, PlaceRoot, TryRename, BeginCopy, Leave
<1>2. CASE OpenDir \/ MakeDir \/ PinDir
  BY <1>2 DEF OpenDir, MakeDir, PinDir, Enter, Abandon, Leave, After
<1>3. CASE Opened \/ WalkEntry \/ Unwind
  BY <1>3, Zenon DEF Opened, WalkEntry, Unwind, Abandon, Leave
<1>4. CASE OpenSource \/ Settle \/ CloseCopy \/ StopCopy \/ FinishRoot
  BY <1>4 DEF OpenSource, Settle, CloseCopy, StopCopy, FinishRoot, Stop, Leave, After
<1>5. CASE DeleteNext \/ Look \/ CompareFirst \/ CompareLast
  BY <1>5 DEF DeleteNext, Look, CompareFirst, CompareLast, KeepEntry, DropEntry, removal
<1>6. CASE UnlinkEntry \/ RemoveDir \/ RootGone \/ StopDelete \/ Finish
  BY <1>6 DEF UnlinkEntry, RemoveDir, RootGone, StopDelete, Stop, Finish, KeepEntry, DropEntry, removal
<1> QED
  BY <1>1, <1>2, <1>3, <1>4, <1>5, <1>6 DEF Bystand

LEMMA BuildMarked ==
  ASSUME WorldOK, JobOK, MarkedOK, Drift, Build, JobDid
  PROVE  MarkedOK'
<1>1. synced' = synced /\ budget' = budget
  BY DEF Build, JobDid
<1>2. CASE UNCHANGED world /\ Leave(After)
  BY <1>1, <1>2, MarkedRests DEF Leave, After, world
<1>3. CASE /\ Unused # {} /\ data' = [data EXCEPT ![Spare] = Partial(Spare)] /\ pc' = "read"
           /\ item'.new = Spare
  <2>1. Spare \notin synced
    BY <1>3, SpareUnused DEF MarkedOK, SyncedOK
  <2>2. SyncedOK' /\ RecordOK'
    BY <1>1, <1>3, <2>1 DEF MarkedOK, SyncedOK, RecordOK, Drift, Backed
  <2>3. \A n \in Node : data'[n] = data[n] \/ data'[n][1] = "partial"
    BY <1>3 DEF WorldOK, Partial
  <2>4. FreshOK'
    BY <1>1, <1>3, <2>3 DEF MarkedOK, FreshOK, Aged
  <2> QED
    BY <2>2, <2>4 DEF MarkedOK
<1>4. item \in Task
  BY DEF Build, JobOK, JobTyped
<1> QED
  BY <1>2, <1>3, <1>4 DEF Build, Task

LEMMA ReadMarked ==
  ASSUME WorldOK, JobOK, MarkedOK, Drift, ReadFirst \/ ReadLast, JobDid
  PROVE  MarkedOK'
<1>1. /\ synced' = synced /\ budget' = budget /\ item \in Task /\ item.id \in Node /\ item.new \in Node
  BY DEF ReadFirst, ReadLast, ghosts, JobDid, JobOK, JobTyped, Sorted, Task
<1>2. CASE ReadFirst
  <2>1. pc = "read" /\ pc' = "more" /\ data' = data /\ item'.new = item.new /\ item'.half = data[item.id]
    BY <1>1, <1>2 DEF ReadFirst, Task, world
  <2>2. SyncedOK' /\ RecordOK'
    BY <1>1, <2>1 DEF MarkedOK, SyncedOK, RecordOK, Drift, Backed
  <2>3. FreshOK'
    BY <1>1, <2>1 DEF MarkedOK, FreshOK, Aged
  <2> QED
    BY <2>2, <2>3 DEF MarkedOK
<1>3. CASE ReadLast
  <2> DEFINE c == IF data[item.id] = item.half THEN item.half ELSE Torn(item.new)
  <2>1. /\ pc = "more" /\ pc' = "verify" /\ item' = item
        /\ data' = [data EXCEPT ![item.new] = c]
    BY <1>3 DEF ReadLast
  <2>2. c = item.half \/ c[1] = "torn"
    BY DEF Torn
  <2> HIDE DEF c
  <2>3. \A n \in Node : data'[n] = data[n] \/ data'[n] = c
    BY <2>1 DEF WorldOK
  <2>4. SyncedOK' /\ RecordOK'
    BY <1>1, <2>1 DEF MarkedOK, SyncedOK, RecordOK, Drift, Backed
  <2>5. FreshOK'
    BY <1>1, <2>1, <2>2, <2>3 DEF MarkedOK, FreshOK, Aged
  <2> QED
    BY <2>4, <2>5 DEF MarkedOK
<1> QED
  BY <1>2, <1>3

LEMMA LastMarked ==
  ASSUME WorldOK, JobOK, MarkedOK, Drift, Verify \/ LinkUnnamed \/ Publish, JobDid
  PROVE  MarkedOK'
<1>1. /\ budget' = budget /\ data' = data /\ item \in Task /\ item.id \in Node /\ item.new \in Node
      /\ kind[item.id] = "file"
  BY DEF Verify, LinkUnnamed, Publish, ghosts, JobDid, JobOK, JobTyped, Sorted, Task
<1>2. CASE Leave(After) /\ synced' = synced
  BY <1>1, <1>2, MarkedRests DEF Leave, After
<1>3. CASE /\ Verify /\ synced' = synced \cup {item.new} /\ pc' \in {"link0", "publish"} /\ item' = item
  <2>3. kind[item.new] = "file"
    BY <1>3 DEF Verify, JobOK, Sorted
  <2>1. SyncedOK' /\ RecordOK'
    BY <1>1, <1>3, <2>3 DEF MarkedOK, SyncedOK, RecordOK, Drift, Backed
  <2>2. FreshOK'
    BY <1>1, <1>3 DEF MarkedOK, FreshOK, Aged
  <2> QED
    BY <2>1, <2>2 DEF MarkedOK
<1>4. CASE LinkUnnamed /\ pc' = "publish" /\ item' = item
  <2>1. pc = "link0" /\ synced' = synced
    BY <1>4 DEF LinkUnnamed, ghosts
  <2>2. SyncedOK' /\ RecordOK'
    BY <1>1, <1>4, <2>1 DEF MarkedOK, SyncedOK, RecordOK, Drift, Backed
  <2>3. FreshOK'
    BY <1>1, <1>4 DEF MarkedOK, FreshOK, Aged
  <2> QED
    BY <2>2, <2>3 DEF MarkedOK
<1>5. CASE Publish /\ pc' = "record" /\ item' = item /\ held' = held \cup {<<item.new, data[item.new]>>}
  <2>1. pc = "publish" /\ synced' = synced
    BY <1>5 DEF Publish
  <2>2. SyncedOK'
    BY <1>1, <1>5, <2>1 DEF MarkedOK, SyncedOK, Drift
  <2>3. <<item'.new, data'[item'.new]>> \in held' /\ kind'[item'.id] = "file"
    BY <1>1, <1>5 DEF Drift
  <2>4. RecordOK'
    BY <2>3 DEF RecordOK, Backed
  <2>5. FreshOK'
    BY <1>1, <1>5 DEF MarkedOK, FreshOK, Aged
  <2> QED
    BY <2>2, <2>4, <2>5 DEF MarkedOK
<1>6. CASE Verify
  BY <1>2, <1>3, <1>6 DEF Verify, GiveUpFile
<1>7. CASE LinkUnnamed
  BY <1>2, <1>4, <1>7 DEF LinkUnnamed, ghosts
<1>8. CASE Publish
  BY <1>2, <1>5, <1>8 DEF Publish, GiveUpFile
<1> QED
  BY <1>6, <1>7, <1>8

LEMMA CopyLinkMarked ==
  ASSUME WorldOK, JobOK, MarkedOK, Drift, CopyLink, JobDid
  PROVE  MarkedOK'
<1> DEFINE n == Lookup(item.dir, item.name)
<1>1. budget' = budget /\ item \in Task /\ item.id \in Node /\ kind[item.id] = "link"
  BY DEF CopyLink, JobDid, JobOK, JobTyped, Sorted, Task
<1>2. CASE UNCHANGED <<world, synced>> /\ Leave(After)
  BY <1>1, <1>2, MarkedRests DEF Leave, After, world
<1>3. CASE /\ n = item.id /\ Unused # {} /\ kind' = [kind EXCEPT ![Spare] = "link"]
           /\ data' = [data EXCEPT ![Spare] = data[n]]
           /\ held' = held \cup {<<Spare, data[n]>>}
           /\ synced' = synced \cup {Spare}
           /\ item' = [item EXCEPT !.new = Spare]
           /\ pc' = "record"
  <2> HIDE DEF n
  <2>1. Spare \in Node /\ Spare # item.id /\ kind[Spare] = "none"
    BY <1>1, <1>3, SpareUnused
  <2>2. item'.new = Spare /\ item'.id = item.id /\ data'[item.id] = data[item.id] /\ kind'[Spare] = "link"
        /\ kind'[item.id] = "link"
    BY <1>1, <1>3, <2>1 DEF Task, WorldOK
  <2>3. SyncedOK'
    BY <1>3, <2>1, <2>2 DEF MarkedOK, SyncedOK, Drift
  <2>4. RecordOK'
    BY <1>3, <2>2 DEF RecordOK, Backed
  <2>5. \A m \in Node : data'[m] = data[m] \/ data'[m] = data[item.id]
    BY <1>3 DEF WorldOK
  <2>6. FreshOK'
    BY <1>1, <1>3, <2>5 DEF MarkedOK, FreshOK, Aged
  <2> QED
    BY <2>3, <2>4, <2>6 DEF MarkedOK
<1> QED
  BY <1>2, <1>3 DEF CopyLink

LEMMA JobMarked ==
  ASSUME WorldOK, JobOK, MarkedOK, Thinks \/ Acts, JobDid
  PROVE  MarkedOK' /\ Drift
<1>1. Drift
  BY JobDrifts DEF MarkedOK
<1>2. CASE Bystand
  <2>1. budget' = budget
    BY DEF JobDid
  <2> QED
    BY <1>1, <1>2, <2>1, BystandDoes, MarkedRests
<1>3. Bystand \/ Build \/ ReadFirst \/ ReadLast \/ Verify \/ LinkUnnamed \/ Publish \/ CopyLink
  BY Zenon DEF Bystand, Thinks, Acts
<1> QED
  BY <1>1, <1>2, <1>3, BuildMarked, ReadMarked, LastMarked, CopyLinkMarked, Zenon

LEMMA OthersMarked ==
  ASSUME WorldOK, JobOK, WriteOK, MarkedOK, OthersDid, UNCHANGED job
  PROVE  MarkedOK' /\ Drift /\ Grown
<1>1. Drift
  BY OthersDrift
<1>2. Grown /\ UNCHANGED <<pc, item, synced, sc, held>>
  BY DEF Grown, OthersDid, job, ghosts
<1>3. SyncedOK'
  BY <1>1, <1>2 DEF MarkedOK, SyncedOK, Drift
<1>4. FreshOK'
  <2>1. budget' \in Nat /\ budget' = budget - 1 /\ budget \in Nat
    BY DEF OthersDid, WorldOK
  <2>2. ASSUME NEW c, Aged(c) PROVE c[1] = "theirs" => c[2] \in Nat /\ c[2] > budget'
    BY <2>1, <2>2 DEF Aged
  <2>3. ASSUME NEW n \in Node PROVE data'[n][1] = "theirs" => data'[n][2] \in Nat /\ data'[n][2] > budget'
    <3>1. CASE data'[n] = data[n]
      BY <2>2, <3>1 DEF MarkedOK, FreshOK
    <3>2. CASE data'[n] = <<"theirs", budget>>
      BY <2>1, <3>2
    <3> QED
      BY <3>1, <3>2 DEF OthersDid
  <2>4. pc' = "more" => (item'.half[1] = "theirs" => item'.half[2] \in Nat /\ item'.half[2] > budget')
    BY <1>2, <2>2 DEF MarkedOK, FreshOK
  <2> QED
    BY <2>3, <2>4 DEF FreshOK, Aged
<1>5. RecordOK'
  <2> SUFFICES ASSUME pc = "record"
               PROVE  /\ sc.move /\ kind'[item.id] = "file" => Backed(item.id, item.new, item.seen)'
                      /\ kind'[item.id] = "link" => <<item.new, data'[item.id]>> \in held
    BY <1>2 DEF RecordOK, Backed
  <2>1. /\ item \in Task /\ item.id \in Node /\ item.seen \in Nat /\ kind[item.id] # "none"
        /\ item.new \in Node /\ kind[item.new] # "none" /\ item.new \in synced
        /\ kind'[item.id] = kind[item.id]
    BY <1>1 DEF JobOK, JobTyped, Sorted, Task, MarkedOK, SyncedOK, Drift
  <2>2. ASSUME sc.move, kind[item.id] = "file"
        PROVE  Backed(item.id, item.new, item.seen)'
    <3>1. item.seen < clock /\ Backed(item.id, item.new, item.seen)
      BY <2>2 DEF WriteOK, SettledOK, MarkedOK, RecordOK
    <3>2. (Backed(item.id, item.new, item.seen))' <=> 
            (stamp'[item.id] = item.seen /\ data'[item.id] = data'[item.new] => <<item.new, data'[item.new]>> \in held')
      BY <1>2 DEF Backed
    <3>3. FreshOK
      BY DEF MarkedOK
    <3>4. \A n \in Node, m \in synced, seen \in Nat :
             m \in Node /\ kind[n] # "none" /\ kind[m] # "none" /\ seen < clock /\ Backed(n, m, seen) =>
               (stamp'[n] = seen /\ data'[n] = data'[m] => <<m, data'[m]>> \in held')
      BY <1>1, <1>2, <3>3, BackedKept DEF Backed
    <3> QED
      BY <2>1, <3>1, <3>2, <3>4
  <2>3. kind[item.id] = "link" => data'[item.id] = data[item.id]
    BY <1>1, <2>1 DEF Drift
  <2> QED
    BY <2>1, <2>2, <2>3 DEF MarkedOK, RecordOK
<1> QED
  BY <1>1, <1>2, <1>3, <1>4, <1>5 DEF MarkedOK

-----------------------------------------------------------------------------
(* The ledger: a source is recorded with a copy that stood whole.          *)
LEMMA LedgerGrows ==
  ASSUME WorldOK, JobOK, OwnOK, MarkedOK, LedgerOK, Drift, Grown, sc' = sc,
         \A e \in ledger' \ ledger : sc.move /\ EntryOK(e)', del' # <<>> => sc.move
  PROVE  LedgerOK'
<1>1. SyncedOK /\ FreshOK /\ ledger \subseteq Entries
  BY DEF MarkedOK, JobOK, JobTyped
<1>2. ASSUME NEW e \in ledger PROVE EntryOK(e)'
  BY <1>1, EntryKept DEF LedgerOK
<1>3. \A e \in ledger' : EntryOK(e)'
  BY <1>2
<1>4. ledger' # {} => sc.move
  BY DEF LedgerOK
<1> QED
  BY <1>3, <1>4 DEF LedgerOK

LEMMA LedgerRests ==
  ASSUME WorldOK, JobOK, OwnOK, MarkedOK, LedgerOK, Drift, Grown, sc' = sc,
         ledger' \subseteq ledger, del' # <<>> => sc.move
  PROVE  LedgerOK'
BY LedgerGrows

LEMMA CloseCopyLedger ==
  ASSUME WorldOK, JobOK, OwnOK, WriteOK, MarkedOK, LedgerOK, Drift, Grown, CloseCopy
  PROVE  LedgerOK'
<1>1. /\ pc = "record" /\ item \in Task /\ UNCHANGED <<sc, del, world, ghosts>>
      /\ kind[item.id] \in {"file", "link"} /\ del = <<>>
      /\ item.new \in made \cap synced
  BY DEF CloseCopy, context, JobOK, JobTyped, Sorted, WriteOK, HomeOK, MarkedOK, SyncedOK
<1> DEFINE n == Lookup(item.ddir, item.final)
           noted == [dir |-> item.dir, name |-> item.name, kind |-> kind[item.id],
            id |-> item.id, seen |-> item.seen, dname |-> item.final,
            did |-> IF n = item.new THEN n ELSE None,
            dseen |-> IF n = item.new THEN stamp[n] ELSE 0]
<1>0. PICK e : e = noted
  OBVIOUS
<1>2. e \in Entries
  BY <1>0, <1>1 DEF Entries, Task, WorldOK, JobOK, Sorted
<1>3. /\ e.kind = kind[item.id] /\ e.id = item.id /\ e.seen = item.seen
      /\ e.did \in {item.new, None}
  BY <1>0
<1>4. ledger' = ledger \/ Record(e)
  BY <1>0 DEF CloseCopy, RecordPublished
<1> HIDE DEF noted
<1>5. ASSUME sc.move PROVE EntryOK(e)
  <2>1. e.kind = "file" => /\ e.seen \in Nat /\ e.seen < clock /\ e.seen <= stamp[e.id]
                           /\ e.did # None => Backed(e.id, e.did, e.seen)
    BY <1>1, <1>3, <1>5 DEF WriteOK, SettledOK, MarkedOK, RecordOK, Task
  <2>2. e.kind = "link" /\ e.did # None => <<e.did, data[e.id]>> \in held
    BY <1>1, <1>3, <1>5 DEF MarkedOK, RecordOK
  <2> QED
    BY <1>1, <1>3, <2>1, <2>2 DEF EntryOK
<1>6. CASE ledger' = ledger
  BY <1>1, <1>6, LedgerRests
<1>7. CASE Record(e)
  <2>1. CASE ledger' = ledger
    BY <1>1, <2>1, LedgerRests
  <2>2. CASE sc.move /\ ledger' = ledger \cup {e}
    <3>1. EntryOK(e)'
      BY <1>2, <1>5, <2>2, EntryKept DEF MarkedOK
    <3>2. \A x \in ledger' \ ledger : sc.move /\ EntryOK(x)'
      BY <1>2, <2>2, <3>1 DEF EntryOK, Backed
    <3> QED
      BY <1>1, <2>2, <3>2, LedgerGrows DEF EntryOK, Backed
  <2> QED
    BY <1>7, <2>1, <2>2 DEF Record
<1> QED
  BY <1>4, <1>6, <1>7

LEMMA EnterLedger ==
  ASSUME WorldOK, JobOK, OwnOK, MarkedOK, LedgerOK, Drift, Grown, pc \in {"mkdir", "pin"},
         NEW d \in Node, kind[d] = "dir", NEW c, Enter(d, c), UNCHANGED <<sc, del>>
  PROVE  LedgerOK'
<1>1. item \in Task /\ item.id \in Node /\ kind[item.id] = "dir" /\ del = <<>>
  BY DEF JobOK, JobTyped, Sorted, Task
<1>0. PICK e : e = [dir |-> item.dir, name |-> item.name, kind |-> "dir",
                    id |-> item.id, seen |-> item.mode,
                    dname |-> item.final, did |-> d, dseen |-> 0]
  OBVIOUS
<1>2. e \in Entries /\ e.kind = "dir" /\ e.id = item.id /\ e.did = d
  BY <1>0, <1>1 DEF Entries, Task, Kinds
<1>3. ledger' = ledger \/ (Record(e) /\ copied' = copied \cup {item.id})
  BY <1>0, Zenon DEF Enter
<1>4. CASE ledger' = ledger
  BY <1>1, <1>4, LedgerRests
<1>5. CASE sc.move /\ ledger' = ledger \cup {e} /\ copied' = copied \cup {item.id}
  <2>1. EntryOK(e)'
    BY <1>1, <1>2, <1>5 DEF EntryOK, Drift
  <2>2. \A x \in ledger' \ ledger : sc.move /\ EntryOK(x)'
    BY <1>2, <1>5, <2>1 DEF EntryOK, Backed
  <2> QED
    BY <1>1, <1>5, <2>2, LedgerGrows DEF EntryOK, Backed
<1> QED
  BY <1>3, <1>4, <1>5 DEF Record

LEMMA JobLedger ==
  ASSUME WorldOK, JobOK, OwnOK, WriteOK, MarkedOK, LedgerOK, Drift, Grown, Thinks \/ Acts, sc' = sc
  PROVE  LedgerOK'
<1>1. pc \in Removing => sc.move
  BY DEF JobOK, JobTyped, LedgerOK
<1>2. CASE CloseCopy
  BY <1>2, CloseCopyLedger
<1>3. CASE MakeDir \/ PinDir
  <2>1. UNCHANGED del /\ pc \in {"mkdir", "pin"}
    BY <1>3 DEF MakeDir, PinDir
  <2>2. CASE UNCHANGED ledger
    BY <1>1, <2>1, <2>2, LedgerRests DEF JobOK, JobTyped
  <2>3. CASE \E d \in Node, c \in BOOLEAN : kind[d] = "dir" /\ Enter(d, c)
    BY <2>1, <2>3, EnterLedger
  <2>4. pc = "pin" => item.new \in Node /\ kind[item.new] = "dir"
    BY DEF JobOK, Sorted
  <2> QED
    BY <1>3, <2>2, <2>3, <2>4 DEF MakeDir, PinDir, Dirs
<1>4. CASE Onward /\ ~CloseCopy
  <2>1. UNCHANGED del /\ ledger' \subseteq ledger
    BY <1>4, OnwardDoes DEF Onward, TryRename, BeginCopy, OpenSource, Settle, ReadFirst, ReadLast, Verify,
                 LinkUnnamed, Publish, CopyLink, ledgerVars
  <2> QED
    BY <2>1, LedgerRests DEF LedgerOK
<1>5. CASE Aside
  <2>1. ledger' = ledger /\ (del' # <<>> => del # <<>> \/ sc.move)
    <3>1. CASE Opened \/ Unwind \/ StopCopy \/ FinishRoot
      BY <3>1 DEF Opened, Unwind, StopCopy, FinishRoot, Stop, ledgerVars
    <3>2. CASE DeleteNext \/ Look \/ CompareFirst \/ CompareLast \/ UnlinkEntry \/ RemoveDir \/ RootGone
      <4>1. pc \in Removing /\ ledger' = ledger
        BY <3>2, Zenon DEF DeleteNext, Look, CompareFirst, CompareLast, UnlinkEntry, RemoveDir, RootGone, removal
      <4> QED
        BY <1>1, <4>1
    <3>3. CASE StopDelete \/ Finish
      BY <3>3 DEF StopDelete, Stop, Finish, ledgerVars
    <3> QED
      BY <1>5, <3>1, <3>2, <3>3 DEF Aside
  <2> QED
    BY <2>1, LedgerRests DEF LedgerOK
<1>6. CASE TakeRoot \/ PlaceRoot \/ OpenDir \/ WalkEntry \/ Build
  <2>1. UNCHANGED <<ledger, del>>
    BY <1>6, Zenon DEF TakeRoot, PlaceRoot, OpenDir, WalkEntry, Build, ledgerVars, context
  <2> QED
    BY <2>1, LedgerRests DEF LedgerOK
<1> QED
  BY <1>2, <1>3, <1>4, <1>5, <1>6, JobIs, Zenon

-----------------------------------------------------------------------------
(* The names: while a move copies, a recorded copy stands in a             *)
(* directory the move will still flush.                                    *)
LEMMA EntryDid ==
  ASSUME OwnOK, SyncedOK, NEW e \in Entries, EntryOK(e), e.did # None
  PROVE  e.did \in Node /\ kind[e.did] # "none"
BY DEF Entries, EntryOK, SyncedOK

\* Whatever has a place keeps it, loses it, or comes to stand where the walk copies to.
Homes == \A m \in Node : kind[m] # "none" => at'[m] \in {at[m], Nowhere} \/ at'[m][1] = Into
FramesStay == \A i \in DOMAIN frames : \E j \in DOMAIN frames' : frames'[j].dst = frames[i].dst

LEMMA PlacesNew ==
  ASSUME Thinks \/ Acts
  PROVE  /\ pc = "pin" => PinDir
         /\ pc = "link0" => LinkUnnamed
         /\ pc = "publish" => Publish
<1>1. CASE TakeRoot \/ PlaceRoot \/ BeginCopy \/ OpenDir \/ Opened \/ WalkEntry \/ Unwind
  BY <1>1, Zenon DEF TakeRoot, PlaceRoot, BeginCopy, OpenDir, Opened, WalkEntry, Unwind
<1>2. CASE OpenSource \/ Settle \/ ReadFirst \/ CloseCopy \/ FinishRoot \/ DeleteNext \/ Look
  BY <1>2 DEF OpenSource, Settle, ReadFirst, CloseCopy, FinishRoot, DeleteNext, Look
<1>3. CASE CompareFirst \/ CompareLast \/ RootGone \/ StopDelete \/ Finish
  BY <1>3 DEF CompareFirst, CompareLast, RootGone, StopDelete, Finish
<1>4. CASE TryRename \/ MakeDir \/ Build \/ ReadLast \/ Verify \/ CopyLink
  BY <1>4 DEF TryRename, MakeDir, Build, ReadLast, Verify, CopyLink
<1>5. CASE StopCopy \/ UnlinkEntry \/ RemoveDir \/ PinDir \/ LinkUnnamed \/ Publish
  BY <1>5 DEF StopCopy, UnlinkEntry, RemoveDir, PinDir, LinkUnnamed, Publish
<1> QED
  BY <1>1, <1>2, <1>3, <1>4, <1>5, Zenon DEF Thinks, Acts

LEMMA JobHomes ==
  ASSUME WorldOK, JobOK, TaskOK, JobDid, Thinks \/ Acts, pc \in Copying \cup {"finish"}
  PROVE  Homes
<1>1. CASE pc \notin {"pin", "link0", "publish"}
  BY <1>1 DEF JobDid, Homes
<1>2. ASSUME pc \in {"pin", "link0", "publish"}
      PROVE  at'[item.new] \in {at[item.new], Nowhere} \/ at'[item.new][1] = Into
  <2>1. /\ item \in Task /\ item.new \in Node /\ item.ddir \in Node /\ item.final \in Name
        /\ item.where \in Node \cup {Stage} /\ item.temp \in Name \cup {Temp} /\ item.ddir = Into
    BY <1>2 DEF JobOK, JobTyped, Sorted, Task, TaskOK
  <2>2. CASE pc = "pin"
    <3>1. PinDir
      BY <2>2, PlacesNew
    <3>2. CASE at' = Renamed(item.new, item.ddir, item.final)
      BY <2>1, <3>2 DEF Renamed
    <3>3. CASE at' \in {at, Unlinked(item.new)}
      BY <2>1, <3>3, UnlinkedPlaces DEF WorldOK
    <3> QED
      BY <3>1, <3>2, <3>3 DEF PinDir, DroppedDir
  <2>3. CASE pc = "link0"
    <3>1. LinkUnnamed
      BY <2>3, PlacesNew
    <3>2. item.where = Into
      BY <2>1, <2>3 DEF TaskOK
    <3>3. CASE at' = [at EXCEPT ![item.new] = <<item.where, item.temp>>]
      BY <2>1, <3>2, <3>3 DEF WorldOK, WellPlaced
    <3> QED
      BY <3>1, <3>3 DEF LinkUnnamed
  <2>4. CASE pc = "publish"
    <3>1. Publish
      BY <2>4, PlacesNew
    <3>2. CASE at' = Renamed(item.new, item.ddir, item.final)
      BY <2>1, <3>2 DEF Renamed
    <3>3. CASE at' \in {at, Unlinked(item.new)}
      BY <2>1, <3>3, UnlinkedPlaces DEF WorldOK
    <3> QED
      BY <3>1, <3>2, <3>3 DEF Publish, GiveUpFile, Discarded
  <2> QED
    BY <1>2, <2>2, <2>3, <2>4
<1> QED
  BY <1>1, <1>2 DEF JobDid, Homes

LEMMA FiledStays ==
  ASSUME Grown, Homes, FramesStay, sc' = sc, frames \in Seq(Frame), NEW m \in Node, kind[m] # "none",
         Filed(m) \/ at'[m][1] = Into
  PROVE  Filed(m)'
<1>1. Dst' = Dst
  BY DstSame
<1>2. CASE at'[m] = Nowhere
  BY <1>2 DEF Filed, OnDiskOrGone
<1>3. CASE at'[m][1] = Into
  <2>1. CASE frames = <<>>
    BY <1>1, <1>3, <2>1 DEF Filed, Into
  <2>2. CASE frames # <<>>
    <3>1. Len(frames) \in DOMAIN frames
      BY <2>2
    <3>2. PICK j \in DOMAIN frames' : frames'[j].dst = Inner.dst
      BY <3>1 DEF FramesStay, Inner
    <3> QED
      BY <1>3, <2>2, <3>2 DEF Filed, Into
  <2> QED
    BY <2>1, <2>2
<1>4. CASE at'[m] = at[m] /\ Filed(m)
  <2>1. CASE OnDiskOrGone(m)
    BY <1>4, <2>1 DEF Filed, OnDiskOrGone, OnDisk, Grown
  <2>2. CASE at[m][1] = Dst
    BY <1>1, <1>4, <2>2 DEF Filed
  <2>3. CASE \E i \in DOMAIN frames : at[m][1] = frames[i].dst
    BY <1>4, <2>3 DEF Filed, FramesStay
  <2> QED
    BY <1>4, <2>1, <2>2, <2>3 DEF Filed
<1> QED
  BY <1>2, <1>3, <1>4 DEF Homes

LEMMA FiledRests ==
  ASSUME WorldOK, JobOK, OwnOK, TaskOK, MarkedOK, LedgerOK, FiledOK, Drift, Grown,
         Homes, FramesStay, sc' = sc, root' = root, ledger' = ledger, pc \in Copying \cup {"finish"},
         spoiled' = spoiled,
         frames' # <<>> \/ pc' = "finish" => frames # <<>> \/ pc = "finish" \/ kind[root.id] # "dir"
  PROVE  FiledOK'
<1> SUFFICES ASSUME ~spoiled, sc.move
             PROVE  /\ \A e \in ledger : e.did # None => Filed(e.did)'
                    /\ kind'[root.id] = "dir" /\ (frames' # <<>> \/ pc' = "finish") =>
                          /\ root.id \in copied' /\ root.new \in Node /\ kind'[root.new] = "dir"
                          /\ Filed(root.new)'
  BY DEF FiledOK, Filed, OnDiskOrGone, OnDisk
<1>1. frames \in Seq(Frame) /\ ledger \subseteq Entries /\ root \in Task /\ root.id \in Node
      /\ kind[root.id] # "none"
  BY DEF JobOK, JobTyped, Task, TaskOK
<1>2. ASSUME NEW e \in ledger, e.did # None
      PROVE  Filed(e.did)'
  BY <1>1, <1>2, EntryDid, FiledStays DEF FiledOK, LedgerOK, MarkedOK
<1>3. ASSUME kind'[root.id] = "dir", frames' # <<>> \/ pc' = "finish"
      PROVE  /\ root.id \in copied' /\ root.new \in Node /\ kind'[root.new] = "dir"
             /\ Filed(root.new)'
  <2>1. kind[root.id] = "dir" /\ root.id \in copied /\ root.new \in Node /\ kind[root.new] = "dir"
        /\ Filed(root.new)
    BY <1>1, <1>3 DEF FiledOK, Drift
  <2> QED
    BY <1>1, <2>1, FiledStays DEF Grown, Drift
<1> QED
  BY <1>2, <1>3

\* All of the invariant but what is still to be shown.
Sound == WorldOK /\ JobOK /\ OwnOK /\ WriteOK /\ TaskOK /\ MarkedOK /\ LedgerOK

LEMMA FiledAway ==
  ASSUME Complain \/ pc' \notin Copying \cup {"finish"}
  PROVE  FiledOK'
BY DEF FiledOK, Complain

\* A step that goes on with the same frames, root and ledger.
LEMMA FiledSame ==
  ASSUME Sound, FiledOK, Drift, Grown, Homes, sc' = sc, UNCHANGED <<root, frames, ledger>>,
         pc \in Copying \cup {"finish"}, Complain \/ spoiled' = spoiled,
         Complain \/ (pc' = "finish" => frames # <<>> \/ pc = "finish" \/ kind[root.id] # "dir")
  PROVE  FiledOK'
<1>1. CASE Complain
  BY <1>1, FiledAway
<1>2. CASE ~Complain
  <2>1. FramesStay
    BY DEF FramesStay
  <2> QED
    BY <1>2, <2>1, FiledRests DEF Sound
<1> QED
  BY <1>1, <1>2

LEMMA OnwardFiled ==
  ASSUME Sound, FiledOK, Drift, Grown, Homes, Onward, ~CloseCopy, ~BeginCopy, ~TryRename
  PROVE  FiledOK'
<1>1. /\ pc \in FilePC \cup {"link"}
      /\ Complain \/ spoiled' = spoiled
      /\ ledger' = ledger
  BY DEF Onward, OpenSource, Settle, ReadFirst, ReadLast, Verify, LinkUnnamed, Publish, CopyLink, marks,
         GiveUpFile
<1>2. /\ sc' = sc /\ UNCHANGED <<root, frames>>
  BY OnwardDoes DEF Sound
<1>3. frames = <<>> => kind[root.id] # "dir"
  BY <1>1 DEF Sound, TaskOK, JobOK, Sorted
<1> QED
  BY <1>1, <1>2, <1>3, FiledSame

LEMMA BuildFiled ==
  ASSUME Sound, FiledOK, Drift, Grown, Homes, Build
  PROVE  FiledOK'
<1>1. /\ pc = "build"
      /\ Complain \/ spoiled' = spoiled
      /\ sc' = sc /\ UNCHANGED <<root, frames, ledger>>
  BY DEF Build, context, marks
<1>3. frames = <<>> => kind[root.id] # "dir"
  BY <1>1 DEF Sound, TaskOK, JobOK, Sorted
<1> QED
  BY <1>1, <1>3, FiledSame

LEMMA BeginFiled ==
  ASSUME Sound, TryRename \/ BeginCopy
  PROVE  FiledOK'
<1>1. CASE pc' \notin Copying \cup {"finish"}
  BY <1>1, FiledAway
<1>2. CASE ledger' = {} /\ frames' = frames /\ pc' \in {"opendir", "link", "open"} /\ pc = "begin"
  BY <1>2 DEF FiledOK, Sound, JobOK, JobTyped
<1> QED
  BY <1>1, <1>2 DEF TryRename, BeginCopy, Leave

LEMMA OpenDirFiled ==
  ASSUME Sound, FiledOK, Drift, Grown, Homes, OpenDir
  PROVE  FiledOK'
<1>1. /\ pc = "opendir" /\ sc' = sc /\ UNCHANGED <<root, ledger>>
      /\ Complain \/ (pc' = "mkdir" /\ UNCHANGED <<frames, marks>>)
  BY DEF OpenDir, ledgerVars, Abandon
<1> QED
  BY <1>1, FiledAway, FiledSame DEF marks

LEMMA WalkEntryFiled ==
  ASSUME Sound, FiledOK, Drift, Grown, Homes, WalkEntry
  PROVE  FiledOK'
<1>1. /\ pc = "walk" /\ sc' = sc /\ UNCHANGED <<root, ledger>> /\ frames # <<>>
  BY DEF WalkEntry, ledgerVars
<1>2. CASE Complain
  BY <1>2, FiledAway
<1>3. CASE SameDirs /\ UNCHANGED marks
  <2>1. FramesStay
    BY <1>3 DEF SameDirs, FramesStay
  <2> QED
    BY <1>1, <1>3, <2>1, FiledRests DEF Sound, marks
<1> QED
  BY <1>2, <1>3, WalkEntryDoes DEF Sound, Abandon

LEMMA OpenedFiled ==
  ASSUME Sound, FiledOK, Drift, Grown, Homes, Opened
  PROVE  FiledOK'
<1>1. /\ pc = "opened" /\ sc' = sc /\ UNCHANGED <<root, ledger>> /\ frames # <<>> /\ frames \in Seq(Frame)
  BY DEF Opened, ledgerVars, Sound, JobOK, JobTyped
<1>2. CASE Abandon
  BY <1>2, FiledAway DEF Abandon
<1>3. CASE frames' = [frames EXCEPT ![Len(frames)].todo = {at[m][2] : m \in Children(Inner.src)}]
           /\ UNCHANGED marks
  <2>1. FramesStay
    BY <1>1, <1>3 DEF FramesStay
  <2> QED
    BY <1>1, <1>3, <2>1, FiledRests DEF Sound, marks
<1> QED
  BY <1>2, <1>3 DEF Opened

LEMMA UnwindFiled ==
  ASSUME Sound, FiledOK, Drift, Grown, Unwind
  PROVE  FiledOK'
<1>1. /\ pc = "walk" /\ sc' = sc /\ UNCHANGED <<root, ledger, world>> /\ frames # <<>> /\ frames \in Seq(Frame)
      /\ frames' = SubSeq(frames, 1, Len(frames) - 1)
      /\ ledger \subseteq Entries /\ root \in Task /\ root.id \in Node
  BY DEF Unwind, ledgerVars, Sound, JobOK, JobTyped, Task
<1>2. CASE Complain
  BY <1>2, FiledAway
<1>3. ASSUME UNCHANGED marks, sc.move => flushed' = flushed \cup Children(Inner.dst), ~spoiled, sc.move
      PROVE  FiledOK'
  <2>1. Len(frames) \in Nat /\ Len(frames) > 0 /\ DOMAIN frames = 1 .. Len(frames)
    BY <1>1
  <2>2. \A i \in DOMAIN frames : i # Len(frames) => i \in DOMAIN frames' /\ frames'[i] = frames[i]
    <3> DEFINE k == Len(frames) - 1
    <3>1. k \in Nat /\ \A i \in 1 .. k : i \in DOMAIN frames
      BY <2>1
    <3>2. Len(frames) = k + 1
      BY <2>1
    <3> HIDE DEF k
    <3>3. DOMAIN SubSeq(frames, 1, k) = 1 .. k /\ \A i \in 1 .. k : SubSeq(frames, 1, k)[i] = frames[i]
      BY <1>1, <3>1
    <3>4. frames' = SubSeq(frames, 1, k)
      BY <1>1 DEF k
    <3> QED
      BY <2>1, <3>1, <3>2, <3>3, <3>4
  <2>3. Dst' = Dst
    BY <1>1, DstSame
  <2>4. ASSUME NEW m \in Node, kind[m] # "none", Filed(m)
        PROVE  Filed(m)'
    <3>1. at' = at /\ (OnDisk(m) => OnDisk(m)')
      BY <1>1 DEF world, OnDisk, Grown
    <3>2. CASE OnDiskOrGone(m)
      BY <3>1, <3>2 DEF Filed, OnDiskOrGone
    <3>3. CASE at[m][1] = Dst
      BY <2>3, <3>1, <3>3 DEF Filed
    <3>4. CASE at[m] # Nowhere /\ \E i \in DOMAIN frames : at[m][1] = frames[i].dst
      <4>1. PICK i \in DOMAIN frames : at[m][1] = frames[i].dst
        BY <3>4
      <4>2. CASE i = Len(frames)
        <5>1. m \in flushed'
          BY <1>3, <3>4, <4>1, <4>2 DEF Children, Inner
        <5> QED
          BY <5>1 DEF Filed, OnDiskOrGone, OnDisk
      <4>3. CASE i # Len(frames)
        BY <2>2, <3>1, <4>1, <4>3 DEF Filed
      <4> QED
        BY <4>2, <4>3
    <3> QED
      BY <2>4, <3>2, <3>3, <3>4 DEF Filed, OnDiskOrGone
  <2>5. ASSUME NEW e \in ledger, e.did # None
        PROVE  Filed(e.did)'
    BY <1>1, <1>3, <2>4, <2>5, EntryDid DEF FiledOK, Sound, LedgerOK, MarkedOK
  <2>6. kind[root.id] = "dir" => root.id \in copied /\ root.new \in Node /\ kind[root.new] = "dir" /\ Filed(root.new)'
    BY <1>1, <1>3, <2>4 DEF FiledOK
  <2> QED
    BY <1>1, <2>5, <2>6 DEF FiledOK, world, Grown, Filed, OnDiskOrGone, OnDisk
<1> QED
  BY <1>1, <1>2, <1>3 DEF Unwind, Persist, FiledOK, marks

\* What stands at the place the entry at work is copied to.
LEMMA StandsInto ==
  ASSUME Sound, pc \in Tasked, NEW n, n = Lookup(item.ddir, item.final), n # None, at' = at
  PROVE  n \in Node /\ at'[n][1] = Into /\ at[n] # Nowhere /\ kind[n] # "none"
<1>1. n \in Node /\ at[n] = <<item.ddir, item.final>>
  BY LookupFound
<1>2. item.ddir = Into
  BY DEF Sound, TaskOK
<1>3. at[n] # Nowhere
  BY <1>1 DEF Nowhere
<1>4. kind[n] # "none"
  BY <1>1, <1>3 DEF Sound, WorldOK
<1> QED
  BY <1>1, <1>2, <1>3, <1>4

LEMMA CloseCopyFiled ==
  ASSUME Sound, FiledOK, Drift, Grown, Homes, CloseCopy
  PROVE  FiledOK'
<1>1. /\ pc = "record" /\ item \in Task /\ UNCHANGED <<sc, root, frames>> /\ at' = at
      /\ kind[item.id] \in {"file", "link"} /\ item.new # None
      /\ frames \in Seq(Frame) /\ ledger \subseteq Entries
      /\ frames = <<>> => kind[root.id] # "dir"
  BY NodeAssumption DEF CloseCopy, context, world, Sound, JobOK, JobTyped, Sorted, TaskOK
<1> DEFINE n == Lookup(item.ddir, item.final)
           d == IF n = item.new THEN n ELSE None
           e == [dir |-> item.dir, name |-> item.name, kind |-> kind[item.id],
            id |-> item.id, seen |-> item.seen, dname |-> item.final,
            did |-> d,
            dseen |-> IF n = item.new THEN stamp[n] ELSE 0]
<1>2. CASE Complain
  BY <1>2, FiledAway
<1>3. CASE ledger' = ledger /\ UNCHANGED marks
  BY <1>1, <1>3, FiledSame DEF marks
<1>4. ASSUME ledger' = ledger \cup {e}, UNCHANGED marks, ~spoiled, sc.move, pc' \in {"finish", "walk"}
      PROVE  FiledOK'
  <2>1. FramesStay
    BY <1>1 DEF FramesStay
  <2>2. ASSUME NEW m \in Node, kind[m] # "none", Filed(m) \/ at'[m][1] = Into
        PROVE  Filed(m)'
    BY <1>1, <2>1, <2>2, FiledStays
  <2>3. ASSUME NEW x \in ledger', x.did # None
        PROVE  Filed(x.did)'
    <3>1. CASE x \in ledger
      BY <1>1, <1>4, <2>2, <2>3, <3>1, EntryDid DEF FiledOK, Sound, LedgerOK, MarkedOK
    <3>2. CASE x.did = n /\ n # None
      BY <1>1, <2>2, <3>2, StandsInto
    <3>3. x \in ledger \/ x.did = d
      BY <1>4, <2>3
    <3> QED
      BY <2>3, <3>1, <3>2, <3>3
  <2>4. kind'[root.id] = "dir" /\ (frames # <<>> \/ pc' = "finish") => frames # <<>>
    <3>1. root.id \in Node /\ kind[root.id] # "none"
      BY <1>1 DEF Sound, JobOK, JobTyped, TaskOK, Task
    <3> QED
      BY <1>1, <3>1 DEF Drift
  <2>5. kind[root.id] = "dir" /\ frames # <<>> =>
          root.id \in copied /\ root.new \in Node /\ kind[root.new] = "dir" /\ Filed(root.new)'
    BY <1>1, <1>4, <2>2 DEF FiledOK
  <2>6. root.id \in Node /\ kind'[root.id] = kind[root.id] /\ (root.new \in Node /\ kind[root.new] = "dir" => kind'[root.new] = "dir")
        /\ copied \subseteq copied'
    BY <1>1 DEF Sound, JobOK, JobTyped, TaskOK, Task, Drift, Grown
  <2> QED
    BY <1>1, <2>3, <2>4, <2>5, <2>6 DEF FiledOK, Filed, OnDiskOrGone, OnDisk
<1> HIDE DEF e
<1>5. (Complain \/ (Record(e) /\ UNCHANGED marks)) /\ pc' \in {"finish", "walk"}
  BY DEF CloseCopy, RecordPublished, Leave, After, e
<1>6. CASE ~sc.move \/ spoiled
  <2>1. spoiled' = spoiled \/ Complain
    BY <1>5 DEF marks
  <2> QED
    BY <1>1, <1>2, <1>6, <2>1 DEF FiledOK
<1>7. Record(e) => ledger' \in {ledger, ledger \cup {e}}
  BY DEF Record
<1> QED
  BY <1>2, <1>3, <1>4, <1>5, <1>6, <1>7

\* A directory is entered: it stands where the walk copies to.
LEMMA EnterFiled ==
  ASSUME Sound, FiledOK, Drift, Grown, Homes, sc' = sc, pc \in {"mkdir", "pin"},
         NEW d \in Node, kind[d] = "dir", NEW c, Enter(d, c), at'[d][1] = Into
  PROVE  FiledOK'
<1>1. /\ item \in Task /\ item.id \in Node /\ kind[item.id] = "dir"
      /\ frames \in Seq(Frame) /\ ledger \subseteq Entries /\ root \in Task /\ root.id \in Node
      /\ kind[root.id] # "none"
  BY DEF Sound, JobOK, JobTyped, Sorted, Task, TaskOK
<1> DEFINE f == [src |-> item.id, dst |-> d, mode |-> item.mode, changed |-> FALSE,
                 created |-> c, todo |-> {}]
           e == [dir |-> item.dir, name |-> item.name, kind |-> "dir",
                 id |-> item.id, seen |-> item.mode,
                 dname |-> item.final, did |-> d, dseen |-> 0]
<1>2. CASE Complain
  BY <1>2, FiledAway
<1>3. ASSUME frames' = Append(frames, f), copied' = copied \cup {item.id}, pc' = "opened",
             UNCHANGED marks, ~spoiled, sc.move,
             IF frames = <<>> THEN root' = [item EXCEPT !.new = d] /\ ledger' = ledger
             ELSE root' = root /\ ledger' \in {ledger, ledger \cup {e}}
      PROVE  FiledOK'
  <2> HIDE DEF f
  <2>1. FramesStay
    <3>1. \A i \in DOMAIN frames : i \in DOMAIN frames' /\ frames'[i] = frames[i]
      <4>1. DOMAIN frames = 1 .. Len(frames) /\ Len(frames) \in Nat
        BY <1>1
      <4>2. DOMAIN Append(frames, f) = 1 .. Len(frames) + 1 
            /\ \A i \in 1 .. Len(frames) : Append(frames, f)[i] = frames[i]
        BY <1>1
      <4> QED
        BY <1>3, <4>1, <4>2
    <3> QED
      BY <3>1 DEF FramesStay
  <2>2. ASSUME NEW m \in Node, kind[m] # "none", Filed(m) \/ at'[m][1] = Into
        PROVE  Filed(m)'
    BY <1>1, <2>1, <2>2, FiledStays
  <2>3. Filed(d)'
    BY <2>2
  <2>4. ASSUME NEW x \in ledger', x.did # None
        PROVE  Filed(x.did)'
    <3>1. CASE x \in ledger
      BY <1>1, <1>3, <2>2, <2>4, <3>1, EntryDid DEF FiledOK, Sound, LedgerOK, MarkedOK
    <3>2. CASE x.did = d
      BY <2>2, <3>2
    <3>3. x \in ledger \/ x.did = d
      BY <1>3, <2>4
    <3> QED
      BY <2>4, <3>1, <3>2, <3>3
  <2>5. ASSUME kind'[root'.id] = "dir"
        PROVE  root'.id \in copied' /\ root'.new \in Node /\ kind'[root'.new] = "dir" /\ Filed(root.new)'
    <3>1. CASE frames = <<>>
      <4>1. root'.id = item.id /\ root'.new = d
        BY <1>1, <1>3, <3>1 DEF Task
      <4>2. kind'[d] = "dir"
        BY DEF Drift
      <4>3. Filed(root.new)'
        BY <2>3, <4>1 DEF Filed, OnDiskOrGone, OnDisk
      <4> QED
        BY <1>3, <4>1, <4>2, <4>3
    <3>2. CASE frames # <<>>
      <4>1. root' = root /\ kind'[root.id] = kind[root.id]
        BY <1>1, <1>3, <3>2 DEF Drift
      <4>2. /\ root.id \in copied /\ root.new \in Node /\ kind[root.new] = "dir" /\ Filed(root.new)
        BY <1>3, <2>5, <3>2, <4>1 DEF FiledOK
      <4>3. ASSUME NEW r, r = root.new PROVE Filed(r)'
        BY <2>2, <4>2, <4>3
      <4>4. Filed(root.new)'
        BY <4>1, <4>3 DEF Filed, OnDiskOrGone, OnDisk
      <4> QED
        BY <1>3, <4>1, <4>2, <4>4 DEF Drift
    <3> QED
      BY <3>1, <3>2
  <2>6. pc' = "opened"
    BY <1>3
  <2> QED
    BY <2>4, <2>5, <2>6 DEF FiledOK, Filed, OnDiskOrGone, OnDisk
<1> HIDE DEF e, f
<1>4. \/ Complain
      \/ /\ frames' = Append(frames, f) /\ copied' = copied \cup {item.id} /\ pc' = "opened"
         /\ UNCHANGED marks
         /\ IF frames = <<>> THEN root' = [item EXCEPT !.new = d] /\ ledger' = ledger
            ELSE root' = root /\ Record(e)
  BY DEF Enter, Abandon, Leave, e, f
<1>5. CASE ~sc.move \/ spoiled
  <2>1. spoiled' = spoiled \/ Complain
    BY <1>4 DEF marks
  <2> QED
    BY <1>2, <1>5, <2>1 DEF FiledOK
<1>6. Record(e) => ledger' \in {ledger, ledger \cup {e}}
  BY DEF Record
<1> QED
  BY <1>2, <1>3, <1>4, <1>5, <1>6

LEMMA MakeDirFiled ==
  ASSUME Sound, FiledOK, Drift, Grown, Homes, MakeDir
  PROVE  FiledOK'
<1> DEFINE there == Lookup(item.ddir, item.final)
<1>1. pc = "mkdir" /\ sc' = sc
  BY DEF MakeDir
<1>2. CASE Complain
  BY <1>2, FiledAway
<1>3. CASE there \in Dirs /\ Enter(there, FALSE) /\ UNCHANGED world
  <2>1. there \in Node /\ kind[there] = "dir" /\ there # None
    BY <1>3, NodeAssumption DEF Dirs
  <2>2. at'[there][1] = Into
    BY <1>1, <1>3, <2>1, StandsInto DEF world
  <2> HIDE DEF there
  <2> QED
    BY <1>1, <1>3, <2>1, <2>2, EnterFiled
<1>4. CASE UNCHANGED <<root, frames, ledger, marks>> /\ pc' = "pin"
  BY <1>1, <1>4, FiledSame DEF marks
<1> QED
  BY <1>2, <1>3, <1>4 DEF MakeDir

LEMMA PinDirFiled ==
  ASSUME Sound, FiledOK, Drift, Grown, Homes, PinDir
  PROVE  FiledOK'
<1>1. /\ pc = "pin" /\ sc' = sc /\ item.new \in Node /\ kind[item.new] = "dir" /\ item.ddir = Into
  BY DEF PinDir, Sound, JobOK, Sorted, TaskOK
<1>2. CASE Complain
  BY <1>2, FiledAway
<1>3. CASE at' = Renamed(item.new, item.ddir, item.final) /\ Enter(item.new, TRUE)
  <2>1. at'[item.new][1] = Into
    BY <1>1, <1>3 DEF Renamed
  <2> QED
    BY <1>1, <1>3, <2>1, EnterFiled
<1> QED
  BY <1>2, <1>3 DEF PinDir

LEMMA JobFiled ==
  ASSUME Sound, FiledOK, JobDid, Drift, Grown, Thinks \/ Acts
  PROVE  FiledOK'
<1>1. CASE pc' \notin Copying \cup {"finish"}
  BY <1>1, FiledAway
<1>2. CASE TryRename \/ BeginCopy
  BY <1>2, BeginFiled
<1>3. ASSUME pc \in Copying \cup {"finish"} PROVE Homes
  BY <1>3, JobHomes DEF Sound
<1>4. CASE OpenDir \/ WalkEntry \/ Opened
  <2>1. Homes
    BY <1>3, <1>4, Zenon DEF OpenDir, WalkEntry, Opened
  <2> QED
    BY <1>4, <2>1, OpenDirFiled, WalkEntryFiled, OpenedFiled
<1>5. CASE Unwind
  BY <1>5, UnwindFiled
<1>6. CASE MakeDir \/ PinDir \/ Build
  <2>1. Homes
    BY <1>3, <1>6 DEF MakeDir, PinDir, Build
  <2> QED
    BY <1>6, <2>1, MakeDirFiled, PinDirFiled, BuildFiled
<1>7. CASE CloseCopy
  <2>1. Homes
    BY <1>3, <1>7 DEF CloseCopy
  <2> QED
    BY <1>7, <2>1, CloseCopyFiled
<1>8. CASE Onward /\ ~CloseCopy /\ ~BeginCopy /\ ~TryRename
  <2>1. pc \in FilePC \cup {"link"}
    BY <1>8 DEF Onward, OpenSource, Settle, ReadFirst, ReadLast, Verify, LinkUnnamed, Publish, CopyLink
  <2>2. Homes
    BY <1>3, <2>1
  <2> QED
    BY <1>8, <2>2, OnwardFiled
<1>9. CASE TakeRoot \/ PlaceRoot
  BY <1>1, <1>9 DEF TakeRoot, PlaceRoot, Leave
<1>10. CASE Aside /\ ~Opened /\ ~Unwind
  <2>1. CASE StopCopy \/ FinishRoot \/ RootGone \/ StopDelete \/ Finish
    BY <1>1, <2>1 DEF StopCopy, FinishRoot, RootGone, StopDelete, Finish, Stop
  <2>2. CASE DeleteNext \/ Look \/ CompareFirst \/ CompareLast \/ UnlinkEntry \/ RemoveDir
    BY <1>1, <2>2 DEF DeleteNext, Look, CompareFirst, CompareLast, UnlinkEntry, RemoveDir, KeepEntry, DropEntry
  <2> QED
    BY <1>10, <2>1, <2>2 DEF Aside
<1> QED
  BY <1>2, <1>4, <1>5, <1>6, <1>7, <1>8, <1>9, <1>10, JobIs, Zenon

-----------------------------------------------------------------------------
(* The removal: what is taken up was recorded, and is on the disk.         *)
LEMMA RemovingAway ==
  ASSUME JobOK', pc' \notin Removing
  PROVE  RemovingOK'
<1>1. del' = <<>>
  BY DEF JobOK, JobTyped
<1>2. LevelsOK'
  BY <1>1 DEF LevelsOK
<1>3. LookOK'
  BY DEF LookOK
<1> QED
  BY <1>2, <1>3 DEF RemovingOK

\* A level of the removal goes on with less to do, or a directory that was copied
\* is taken up.
Descends(i) ==
    \/ /\ i \in DOMAIN del /\ del'[i].dir = del[i].dir /\ del'[i].dst = del[i].dst
       /\ del'[i].todo \subseteq del[i].todo
    \/ /\ del'[i].dir \in copied /\ kind[del'[i].dir] = "dir"
       /\ del'[i].dst \in Node /\ kind[del'[i].dst] = "dir" /\ OnDisk(del'[i].dst)
       /\ del'[i].todo \subseteq ledger

LEMMA LevelsGoOn ==
  ASSUME Sound, LevelsOK, Drift, Grown, GoneStays, pc \in Removing, ledger' = ledger,
         \A i \in DOMAIN del' : Descends(i)
  PROVE  LevelsOK'
<1>1. ledger \subseteq Entries /\ del \in Seq(Levels)
  BY DEF Sound, JobOK, JobTyped
<1>2. ASSUME NEW e \in Entries, DoneOK(e)
      PROVE  DoneOK(e)'
  BY <1>2, DoneKept DEF Sound, MarkedOK
<1>3. \A e \in ledger : DoneOK(e)'
  BY <1>1, <1>2 DEF LevelsOK
<1>4. ASSUME NEW i \in DOMAIN del', NEW e \in del'[i].todo
      PROVE  DoneOK(e)'
  <2>1. CASE e \in ledger
    BY <1>3, <2>1
  <2>2. CASE i \in DOMAIN del /\ e \in del[i].todo
    <3>1. del[i] \in Levels
      BY <1>1, <2>2
    <3>2. e \in Entries
      BY <2>2, <3>1 DEF Levels
    <3> QED
      BY <1>2, <2>2, <3>2 DEF LevelsOK
  <2> QED
    BY <1>4, <2>1, <2>2 DEF Descends
<1>5. ASSUME NEW i \in DOMAIN del', i # 1
      PROVE  del'[i].dir \in copied' /\ kind'[del'[i].dir] = "dir" /\ OnDisk(del[i].dst)'
  <2>1. /\ del'[i].dir \in copied /\ kind[del'[i].dir] = "dir" /\ del'[i].dir \in Node
        /\ del'[i].dst \in flushed \cup theirs
    <3>1. CASE /\ i \in DOMAIN del /\ del'[i].dir = del[i].dir /\ del'[i].dst = del[i].dst
      BY <1>5, <3>1 DEF LevelsOK, OnDisk, Sound, OwnOK
    <3>2. CASE del'[i].dir \in copied /\ kind[del'[i].dir] = "dir" /\ OnDisk(del'[i].dst)
      BY <3>2 DEF OnDisk, Sound, OwnOK
    <3> QED
      BY <1>5, <3>1, <3>2 DEF Descends
  <2> QED
    BY <2>1 DEF Drift, Grown, OnDisk
<1> QED
  BY <1>3, <1>4, <1>5 DEF LevelsOK

LEMMA ShrunkDescends ==
  ASSUME Shrunk(del', del), del \in Seq(Levels)
  PROVE  \A i \in DOMAIN del' : Descends(i)
<1>1. DOMAIN del' = 1 .. Len(del) /\ DOMAIN del = 1 .. Len(del)
  BY DEF Shrunk
<1> QED
  BY <1>1 DEF Shrunk, Descends

LEMMA LowerDescends ==
  ASSUME del \in Seq(Levels), Len(del) > 1, NEW k, Lower(k)
  PROVE  \A i \in DOMAIN del' : Descends(i)
<1> DEFINE n == Len(del) - 1
           s == SubSeq(del, 1, n)
<1>1. Shrunk(del', s)
  BY LowerShrinks
<1>2. n \in Nat /\ n > 0 /\ DOMAIN del = 1 .. n + 1 /\ \A i \in 1 .. n : del[i] \in Levels
  OBVIOUS
<1> HIDE DEF n
<1>3. Len(s) = n /\ \A i \in 1 .. n : s[i] = del[i]
  BY <1>2
<1> HIDE DEF s
<1>4. DOMAIN del' = 1 .. n
  BY <1>1, <1>3 DEF Shrunk
<1>5. ASSUME NEW i \in 1 .. n PROVE Descends(i)
  BY <1>1, <1>2, <1>3 DEF Shrunk, Descends
<1> QED
  BY <1>4, <1>5

\* A step that ends what was looked at, or empties a level further.
LEMMA RemovingGoesOn ==
  ASSUME Sound, RemovingOK, Drift, Grown, GoneStays, pc \in Removing, ledger' = ledger,
         pc' = "delete", \A i \in DOMAIN del' : Descends(i)
  PROVE  RemovingOK'
<1>1. LevelsOK'
  BY LevelsGoOn DEF RemovingOK
<1>2. LookOK'
  BY DEF LookOK
<1> QED
  BY <1>1, <1>2 DEF RemovingOK

LEMMA DropRemoving ==
  ASSUME Sound, RemovingOK, Drift, Grown, GoneStays, pc \in Looking, ledger' = ledger,
         NEW k, DropEntry(k)
  PROVE  RemovingOK'
<1>1. Shrunk(del', del) /\ del \in Seq(Levels) /\ pc' = "delete"
  BY DropEntryDoes, RemovingTyped DEF Sound
<1> QED
  BY <1>1, ShrunkDescends, RemovingGoesOn

\* The look goes on: what is looked at, and the levels, stay.
LEMMA LooksOn ==
  ASSUME Sound, RemovingOK, Drift, Grown, GoneStays, pc \in Looking, pc' \in Looking,
         UNCHANGED <<ledger, del, item>>
  PROVE  LevelsOK' /\ DoneOK(item)' /\ item'.kind # "dir"
<1>1. \A i \in DOMAIN del' : Descends(i)
  BY DEF Descends
<1>2. LevelsOK'
  BY <1>1, LevelsGoOn DEF RemovingOK
<1>3. item \in Entries /\ DoneOK(item) /\ item.kind # "dir"
  BY DEF Sound, JobOK, JobTyped, RemovingOK, LookOK
<1>4. ASSUME NEW e, e = item PROVE DoneOK(e)'
  BY <1>3, <1>4, DoneKept DEF Sound, MarkedOK
<1>5. DoneOK(item)'
  BY <1>4 DEF DoneOK, EntryOK, Backed, OnDiskOrGone, OnDisk
<1> QED
  BY <1>2, <1>3, <1>5

LEMMA LookRemoving ==
  ASSUME Sound, RemovingOK, Drift, Grown, GoneStays, Look
  PROVE  RemovingOK'
<1>1. /\ pc = "look" /\ UNCHANGED <<world, ledger, ghosts>> /\ item \in Entries
      /\ item.kind \in {"file", "link"} /\ DoneOK(item)
  BY DEF Look, removal, Sound, JobOK, JobTyped, RemovingOK, LookOK, DoneOK, EntryOK
<1>2. CASE DropEntry(TRUE) \/ DropEntry(FALSE)
  BY <1>1, <1>2, DropRemoving
<1>3. CASE /\ CopyStillThere /\ UNCHANGED <<item, del>>
           /\ pc' = IF item.kind = "link" THEN "unlink" ELSE "compare"
  <2>1. LevelsOK' /\ DoneOK(item)' /\ item'.kind # "dir"
    BY <1>1, <1>3, LooksOn
  <2>2. item.did # None /\ OnDisk(item.did)
    <3>1. item.did # None /\ at[item.did] = <<Level.dst, item.dname>>
      BY <1>3, LookupFound DEF CopyStillThere
    <3>2. at[item.did] # Nowhere
      BY <3>1 DEF Nowhere
    <3> QED
      BY <1>1, <3>1, <3>2 DEF DoneOK, OnDiskOrGone
  <2>3. item'.did # None /\ OnDisk(item.did)'
    BY <1>1, <1>3, <2>2 DEF OnDisk, ghosts, world
  <2>4. LookOK'
    BY <1>1, <1>3, <2>1, <2>3 DEF LookOK
  <2> QED
    BY <2>1, <2>4 DEF RemovingOK
<1> QED
  BY <1>2, <1>3 DEF Look, KeepEntry

LEMMA CompareRemoving ==
  ASSUME Sound, RemovingOK, Drift, Grown, GoneStays, CompareFirst \/ CompareLast
  PROVE  RemovingOK'
<1>1. /\ pc \in {"compare", "compare2"} /\ UNCHANGED <<world, ledger, ghosts>> /\ item \in Entries
      /\ item.kind = "file" /\ item.did # None /\ DoneOK(item) /\ OnDisk(item.did)
  BY DEF CompareFirst, CompareLast, removal, Sound, JobOK, JobTyped, RemovingOK, LookOK
<1>2. CASE KeepEntry
  BY <1>1, <1>2, DropRemoving DEF KeepEntry
<1>3. CASE /\ UNCHANGED <<item, del>> /\ pc' \in {"compare2", "unlink"}
           /\ pc' = "unlink" => SameBytes
  <2>1. LevelsOK' /\ DoneOK(item)' /\ item'.kind # "dir"
    BY <1>1, <1>3, LooksOn
  <2>2. item'.did # None /\ OnDisk(item.did)'
    BY <1>1, <1>3 DEF OnDisk, ghosts, world
  <2>3. pc' = "unlink" /\ stamp[item.id] = item.seen => <<item.did, data[item.id]>> \in held
    BY <1>1, <1>3 DEF SameBytes, DoneOK, EntryOK, Backed
  <2>4. LookOK'
    BY <1>1, <1>3, <2>1, <2>2, <2>3 DEF LookOK, ghosts, world
  <2> QED
    BY <2>1, <2>4 DEF RemovingOK
<1> QED
  BY <1>2, <1>3 DEF CompareFirst, CompareLast

LEMMA DeleteNextRemoving ==
  ASSUME Sound, RemovingOK, Drift, Grown, GoneStays, DeleteNext
  PROVE  RemovingOK'
<1>1. /\ pc = "delete" /\ UNCHANGED <<world, ledger, ghosts>>
      /\ del \in Seq(Levels) /\ del # <<>> /\ ledger \subseteq Entries
  BY DEF DeleteNext, removal, Sound, JobOK, JobTyped
<1>3. /\ Len(del) \in Nat /\ Len(del) > 0 /\ Len(del) \in 1 .. Len(del) /\ DOMAIN del = 1 .. Len(del)
      /\ Level.todo \subseteq Entries /\ Level = del[Len(del)]
  BY <1>1, LevelTyped
<1>4. CASE ~LevelsUnchanged /\ Lower(TRUE) /\ UNCHANGED <<pc, item>>
  <2>1. Len(del) > 1
    <3>1. CASE Len(del) = 1
      BY <1>4, <3>1 DEF LevelsUnchanged
    <3> QED
      BY <1>3, <3>1
  <2> QED
    BY <1>1, <1>4, <2>1, LowerDescends, RemovingGoesOn
<1>5. ASSUME NEW e \in Level.todo,
             LET n == Lookup(Level.dir, e.name)
                 d == Lookup(Level.dst, e.dname)
                 same == StillTheRecorded(n, e) /\ OpenRecordedDest(d, e)
             IN  \/ /\ e.kind # "dir"
                    /\ item' = e /\ pc' = "look"
                    /\ UNCHANGED <<del, marks>>
                 \/ /\ e.kind = "dir" /\ ~same
                    /\ Complain
                    /\ del' = [del EXCEPT ![Len(del)].todo = @ \ {e},
                                         ![Len(del)].kept = TRUE]
                    /\ UNCHANGED <<pc, item>>
                 \/ /\ e.kind = "dir" /\ same
                    /\ del' = Append([del EXCEPT ![Len(del)].todo = @ \ {e}],
                          [dir |-> n, dst |-> d, mode |-> e.seen, entry |-> e.name,
                           kept |-> FALSE, todo |-> {x \in ledger : x.dir = n}])
                    /\ UNCHANGED <<pc, item, marks>>
      PROVE  RemovingOK'
  <2> DEFINE n == Lookup(Level.dir, e.name)
             d == Lookup(Level.dst, e.dname)
  <2>1. e \in Entries /\ DoneOK(e)
    BY <1>3 DEF RemovingOK, LevelsOK
  <2>2. CASE e.kind # "dir" /\ item' = e /\ pc' = "look" /\ UNCHANGED del
    <3>1. \A i \in DOMAIN del' : Descends(i)
      BY <2>2 DEF Descends
    <3>2. LevelsOK'
      BY <1>1, <3>1, LevelsGoOn DEF RemovingOK
    <3>3. DoneOK(e)'
      BY <2>1, DoneKept DEF Sound, MarkedOK
    <3>4. DoneOK(item)'
      BY <2>2, <3>3 DEF DoneOK, EntryOK, Backed, OnDiskOrGone, OnDisk
    <3>5. LookOK'
      BY <2>2, <3>4 DEF LookOK
    <3> QED
      BY <3>2, <3>5 DEF RemovingOK
  <2>3. CASE del' = [del EXCEPT ![Len(del)].todo = @ \ {e}, ![Len(del)].kept = TRUE] /\ UNCHANGED <<pc, item>>
    <3>1. Shrunk(del', del)
      BY <1>1, <2>3, LessTodoIsKept
    <3> QED
      BY <1>1, <2>3, <3>1, ShrunkDescends, RemovingGoesOn
  <2>4. CASE /\ e.kind = "dir" /\ StillTheRecorded(n, e) /\ OpenRecordedDest(d, e)
             /\ del' = Append([del EXCEPT ![Len(del)].todo = @ \ {e}],
                          [dir |-> n, dst |-> d, mode |-> e.seen, entry |-> e.name,
                           kept |-> FALSE, todo |-> {x \in ledger : x.dir = n}])
             /\ UNCHANGED <<pc, item>>
    <3> DEFINE s == [del EXCEPT ![Len(del)].todo = @ \ {e}]
               l == [dir |-> n, dst |-> d, mode |-> e.seen, entry |-> e.name,
                     kept |-> FALSE, todo |-> {x \in ledger : x.dir = n}]
    <3>1. Shrunk(s, del)
      BY <1>1, LessTodo
    <3>2. /\ n \in Node /\ d \in Node /\ kind[d] = "dir" /\ n = e.id /\ d = e.did
          /\ n \in copied /\ kind[n] = "dir"
      BY <2>1, <2>4 DEF StillTheRecorded, OpenRecordedDest, Dirs, DoneOK, EntryOK
    <3>3. d \in flushed \cup theirs
      <4>1. d # None
        BY <3>2, NodeAssumption
      <4>2. at[d] = <<Level.dst, e.dname>>
        BY <4>1, LookupFound
      <4>3. at[d] # Nowhere
        BY <4>2 DEF Nowhere
      <4> HIDE DEF d
      <4> QED
        BY <2>1, <3>2, <4>1, <4>3 DEF DoneOK, OnDiskOrGone, OnDisk
    <3> HIDE DEF n, d
    <3>4. l \in Levels /\ l.dir = n /\ l.dst = d /\ l.todo \subseteq ledger
      BY <1>1, <2>1, <3>2 DEF Levels, Entries
    <3> HIDE DEF s, l
    <3>5. s \in Seq(Levels) /\ Len(s) = Len(del)
      BY <3>1 DEF Shrunk
    <3>6. /\ Len(Append(s, l)) = Len(del) + 1 /\ Append(s, l) \in Seq(Levels)
          /\ \A i \in 1 .. Len(del) : Append(s, l)[i] = s[i]
          /\ Append(s, l)[Len(del) + 1] = l
      BY <3>4, <3>5, AppendProperties
    <3>7. del' = Append(s, l)
      BY <2>4 DEF s, l, n, d
    <3>8. DOMAIN del' = 1 .. Len(del) + 1
      BY <1>3, <3>6, <3>7
    <3>9. ASSUME NEW i \in 1 .. Len(del) PROVE Descends(i)
      BY <1>3, <3>1, <3>6, <3>7 DEF Shrunk, Descends
    <3>10. Descends(Len(del) + 1)
      BY <3>2, <3>3, <3>4, <3>6, <3>7 DEF Descends, OnDisk
    <3>11. \A i \in DOMAIN del' : Descends(i)
      <4>1. \A i \in 1 .. Len(del) + 1 : i \in 1 .. Len(del) \/ i = Len(del) + 1
        BY <1>3
      <4> QED
        BY <3>8, <3>9, <3>10, <4>1
    <3> QED
      BY <1>1, <2>4, <3>11, RemovingGoesOn
  <2> QED
    BY <1>5, <2>2, <2>3, <2>4, Zenon
<1> QED
  BY <1>4, <1>5, Zenon DEF DeleteNext

LEMMA UnlinkEntryRemoving ==
  ASSUME Sound, RemovingOK, Drift, Grown, GoneStays, UnlinkEntry
  PROVE  RemovingOK'
<1>1. DropEntry(TRUE) \/ DropEntry(FALSE)
  BY DEF UnlinkEntry, KeepEntry, removal
<1>2. pc \in Looking /\ ledger' = ledger
  BY DEF UnlinkEntry, removal
<1> QED
  BY <1>1, <1>2, DropRemoving

LEMMA RemoveDirRemoving ==
  ASSUME Sound, RemovingOK, Drift, Grown, GoneStays, RemoveDir
  PROVE  RemovingOK'
<1>1. /\ pc = "delete" /\ pc' = pc /\ ledger' = ledger /\ Len(del) > 1 /\ del \in Seq(Levels)
      /\ Lower(TRUE) \/ Lower(Level.kept)
  BY DEF RemoveDir, removal, Sound, JobOK, JobTyped
<1> QED
  BY <1>1, LowerDescends, RemovingGoesOn

LEMMA FinishRootRemoving ==
  ASSUME Sound, FiledOK, RemovingOK, Drift, Grown, JobOK', FinishRoot
  PROVE  RemovingOK'
<1>1. /\ pc = "finish" /\ frames = <<>> /\ UNCHANGED <<world, sc, ledger, root>>
      /\ ledger \subseteq Entries /\ root \in Task /\ root.id \in Node /\ kind[root.id] # "none"
  BY DEF FinishRoot, Sound, JobOK, JobTyped, TaskOK, Task
<1>2. CASE pc' \notin Removing
  BY <1>2, RemovingAway
<1>3. CASE /\ pc' = "delete" /\ ~spoiled /\ sc.move
           /\ flushed' = flushed \cup Children(Dst)
           /\ del' = <<[dir |-> Top, dst |-> Dst, mode |-> 0, entry |-> None,
                       kept |-> FALSE, todo |-> RootEntries]>>
  <2>1. ASSUME NEW m \in Node, Filed(m) PROVE OnDiskOrGone(m)'
    <3>1. CASE OnDiskOrGone(m)
      BY <1>1, <3>1 DEF OnDiskOrGone, OnDisk, Grown, world
    <3>2. CASE at[m][1] = Dst /\ at[m] # Nowhere
      BY <1>3, <3>2 DEF OnDiskOrGone, OnDisk, Children
    <3>3. DOMAIN frames = {}
      BY <1>1
    <3> QED
      BY <2>1, <3>1, <3>2, <3>3 DEF Filed, OnDiskOrGone
  <2>2. ASSUME NEW e \in ledger PROVE DoneOK(e)'
    <3>1. EntryOK(e)'
      BY <1>1, EntryKept DEF Sound, LedgerOK, MarkedOK
    <3>2. e.did # None => OnDiskOrGone(e.did)'
      BY <1>1, <1>3, <2>1, EntryDid DEF FiledOK, Sound, LedgerOK, MarkedOK
    <3> QED
      BY <3>1, <3>2 DEF DoneOK
  <2>3. ASSUME NEW e \in RootEntries PROVE DoneOK(e)'
    <3>1. CASE kind[root.id] # "dir"
      <4>1. e \in ledger
        BY <3>1 DEF RootEntries
      <4> QED
        BY <2>2, <4>1
    <3>2. CASE kind[root.id] = "dir"
      <4>1. e.kind = "dir" /\ e.id = root.id /\ e.did = root.new
        BY <3>2 DEF RootEntries
      <4>2. root.id \in copied /\ root.new \in Node /\ kind[root.new] = "dir" /\ Filed(root.new)
        BY <1>1, <1>3, <3>2 DEF FiledOK
      <4>3. EntryOK(e)'
        BY <1>1, <3>2, <4>1, <4>2 DEF EntryOK, world, Grown
      <4>4. OnDiskOrGone(e.did)'
        BY <2>1, <4>1, <4>2
      <4> QED
        BY <4>3, <4>4 DEF DoneOK
    <3> QED
      BY <3>1, <3>2
  <2>4. DOMAIN del' = {1} /\ del'[1].todo = RootEntries
    BY <1>3
  <2>5. ledger' = ledger
    BY <1>1
  <2>6. LevelsOK'
    BY <2>2, <2>3, <2>4, <2>5 DEF LevelsOK
  <2>7. LookOK'
    BY <1>3 DEF LookOK
  <2> QED
    BY <2>6, <2>7 DEF RemovingOK
<1> QED
  BY <1>2, <1>3 DEF FinishRoot

LEMMA JobRemoving ==
  ASSUME Sound, FiledOK, RemovingOK, JobDid, Drift, Grown, JobOK', Thinks \/ Acts
  PROVE  RemovingOK'
<1>1. CASE pc' \notin Removing
  BY <1>1, RemovingAway
<1>2. ASSUME pc # "link0" PROVE GoneStays
  BY <1>2 DEF JobDid, GoneStays
<1>3. CASE DeleteNext \/ Look \/ CompareFirst \/ CompareLast \/ UnlinkEntry \/ RemoveDir
  <2>1. GoneStays
    BY <1>2, <1>3 DEF DeleteNext, Look, CompareFirst, CompareLast, UnlinkEntry, RemoveDir
  <2> QED
    BY <1>3, <2>1, DeleteNextRemoving, LookRemoving, CompareRemoving, UnlinkEntryRemoving, RemoveDirRemoving
<1>4. CASE FinishRoot
  BY <1>4, FinishRootRemoving
<1>5. CASE StopCopy \/ StopDelete \/ RootGone \/ Finish
  BY <1>1, <1>5 DEF StopCopy, StopDelete, RootGone, Finish, Stop
<1>6. CASE Opened \/ Unwind \/ TakeRoot \/ PlaceRoot \/ OpenDir \/ WalkEntry
  <2>1. pc' \notin Removing
    BY <1>6, Zenon DEF Opened, Unwind, TakeRoot, PlaceRoot, OpenDir, WalkEntry, Abandon, Leave, Sound, JobOK, JobTyped
  <2> QED
    BY <1>1, <2>1
<1>7. CASE MakeDir \/ PinDir \/ Build
  <2>1. pc' \notin Removing
    BY <1>7 DEF MakeDir, PinDir, Build, Enter, Abandon, Leave, After
  <2> QED
    BY <1>1, <2>1
<1>8. CASE Onward
  <2>1. pc' \notin Removing
    BY <1>8, OnwardDoes DEF Leave, After, Sound
  <2> QED
    BY <1>1, <2>1
<1> QED
  BY <1>3, <1>4, <1>5, <1>6, <1>7, <1>8, JobIs, Zenon DEF Aside

-----------------------------------------------------------------------------
(* Together: what holds of a move while others act.                        *)
\* What holds of a move.
MoveOK == TaskOK /\ MarkedOK /\ LedgerOK /\ FiledOK /\ RemovingOK

\* The job stands where it stood while the tree, or the clock, moves on.
Waits ==
    /\ UNCHANGED <<sc, pc, root, item, frames, ledger, del, spoiled>>
    /\ Drift /\ Grown /\ GoneStays
    /\ \A m \in Node : kind[m] # "none" => at'[m] \in {at[m], Nowhere} \/ m \in theirs'

LEMMA WaitsTask ==
  ASSUME Sound, Waits
  PROVE  TaskOK' /\ LedgerOK'
<1>1. pc \notin {"root", "end"} => root.id \in Node
  BY DEF Sound, JobOK, JobTyped, Task
<1>2. Into' = Into
  BY DstSame DEF Waits, Into, Inner
<1>3. TaskOK'
  BY <1>1, <1>2 DEF Sound, TaskOK, Waits, Drift
<1>4. LedgerOK'
  BY LedgerRests DEF Waits, Sound, LedgerOK
<1> QED
  BY <1>3, <1>4

LEMMA WaitsFiled ==
  ASSUME Sound, FiledOK, Waits
  PROVE  FiledOK'
<1>1. Dst' = Dst
  BY DstSame DEF Waits
<1>2. ASSUME NEW m \in Node, kind[m] # "none", Filed(m)
      PROVE  Filed(m)'
  <2>1. CASE at'[m] = Nowhere \/ m \in theirs'
    BY <2>1 DEF Filed, OnDiskOrGone, OnDisk
  <2>2. CASE at'[m] = at[m]
    BY <1>1, <1>2, <2>2 DEF Filed, OnDiskOrGone, OnDisk, Waits, Grown
  <2> QED
    BY <1>2, <2>1, <2>2 DEF Waits
<1>3. ledger \subseteq Entries /\ (pc \in Copying \cup {"finish"} => root.id \in Node /\ kind[root.id] # "none")
  BY DEF Sound, JobOK, JobTyped, TaskOK, Task
<1> SUFFICES ASSUME pc \in Copying \cup {"finish"}, ~spoiled, sc.move
             PROVE  /\ \A e \in ledger : e.did # None => Filed(e.did)'
                    /\ kind'[root.id] = "dir" /\ (frames # <<>> \/ pc = "finish") =>
                          /\ root.id \in copied' /\ root.new \in Node /\ kind'[root.new] = "dir"
                          /\ Filed(root.new)'
  BY DEF Waits, FiledOK, Filed, OnDiskOrGone, OnDisk
<1>4. ASSUME NEW e \in ledger, e.did # None
      PROVE  Filed(e.did)'
  BY <1>2, <1>3, <1>4, EntryDid DEF FiledOK, Sound, LedgerOK, MarkedOK
<1>5. ASSUME kind'[root.id] = "dir", frames # <<>> \/ pc = "finish"
      PROVE  /\ root.id \in copied' /\ root.new \in Node /\ kind'[root.new] = "dir"
             /\ Filed(root.new)'
  <2>1. kind[root.id] = "dir" /\ root.id \in copied /\ root.new \in Node /\ kind[root.new] = "dir"
        /\ Filed(root.new)
    BY <1>3, <1>5 DEF FiledOK, Waits, Drift
  <2>2. ASSUME NEW r, r = root.new PROVE Filed(r)'
    BY <1>2, <2>1, <2>2
  <2>3. Filed(root.new)'
    BY <2>2 DEF Waits, Filed, OnDiskOrGone, OnDisk
  <2> QED
    BY <2>1, <2>3 DEF Waits, Grown, Drift
<1> QED
  BY <1>4, <1>5

LEMMA WaitsRemoving ==
  ASSUME Sound, RemovingOK, Waits
  PROVE  RemovingOK'
<1>1. UNCHANGED <<pc, item, ledger, del>> /\ Drift /\ Grown /\ GoneStays
  BY DEF Waits
<1>2. CASE pc \notin Removing
  <2>1. del = <<>>
    BY <1>2 DEF Sound, JobOK, JobTyped
  <2> QED
    BY <1>1, <1>2, <2>1 DEF RemovingOK, LevelsOK, LookOK
<1>3. CASE pc = "delete"
  BY <1>1, <1>3, RemovingGoesOn DEF Descends
<1>4. CASE pc \in Looking
  <2>1. LevelsOK' /\ DoneOK(item)' /\ item'.kind # "dir"
    BY <1>1, <1>4, LooksOn
  <2>2. item \in Entries /\ item.id \in Node /\ EntryOK(item) /\ kind[item.id] # "none"
    BY <1>4 DEF Sound, JobOK, JobTyped, RemovingOK, LookOK, Entries, DoneOK, EntryOK
  <2>3. pc \in {"compare", "compare2", "unlink"} => item.did # None /\ OnDisk(item.did)'
    BY <1>1, <1>4 DEF RemovingOK, LookOK, OnDisk, Grown
  <2>4. ASSUME pc = "unlink", item.kind = "file", stamp'[item.id] = item.seen
        PROVE  <<item.did, data'[item.id]>> \in held'
    <3>1. stamp[item.id] = item.seen /\ data'[item.id] = data[item.id]
      BY <1>1, <2>2, <2>4 DEF EntryOK, Drift, Sound, WorldOK
    <3> QED
      BY <1>1, <2>4, <3>1 DEF RemovingOK, LookOK, Grown
  <2>5. LookOK'
    BY <1>1, <1>4, <2>1, <2>3, <2>4 DEF RemovingOK, LookOK, OnDisk
  <2> QED
    BY <2>1, <2>5 DEF RemovingOK
<1> QED
  BY <1>2, <1>3, <1>4

LEMMA WaitsMarked ==
  ASSUME MarkedOK, Waits, UNCHANGED <<data, stamp, kind, budget, held, synced>>
  PROVE  MarkedOK'
<1>1. SyncedOK'
  BY DEF MarkedOK, SyncedOK, Waits
<1>2. FreshOK'
  BY DEF MarkedOK, FreshOK, Aged, Waits
<1>3. RecordOK'
  BY DEF MarkedOK, RecordOK, Backed, Waits
<1> QED
  BY <1>1, <1>2, <1>3 DEF MarkedOK

LEMMA QuietWaits ==
  ASSUME WorldOK, Cancel \/ (Tick /\ UNCHANGED job) \/ UNCHANGED vars
  PROVE  Waits /\ UNCHANGED <<data, stamp, kind, budget, held, synced>>
<1>1. CASE Cancel
  BY <1>1 DEF Cancel, Waits, Drift, Grown, GoneStays, world, ledgerVars, marks, ghosts, WorldOK
<1>2. CASE Tick /\ UNCHANGED job
  BY <1>2 DEF Tick, job, Waits, Drift, Grown, GoneStays, ledgerVars, marks, ghosts, WorldOK
<1>3. CASE UNCHANGED vars
  BY <1>3 DEF vars, Waits, Drift, Grown, GoneStays, world, ledgerVars, marks, ghosts, WorldOK
<1> QED
  BY <1>1, <1>2, <1>3

LEMMA OthersWaits ==
  ASSUME WorldOK, OthersDid, UNCHANGED job, Drift, Grown
  PROVE  Waits
<1>1. UNCHANGED <<sc, pc, root, item, frames, ledger, del, spoiled>>
  BY DEF job, ledgerVars, marks
<1>2. GoneStays /\ \A m \in Node : kind[m] # "none" => at'[m] \in {at[m], Nowhere} \/ m \in theirs'
  BY DEF OthersDid, GoneStays
<1> QED
  BY <1>1, <1>2 DEF Waits

LEMMA JobScene ==
  ASSUME Thinks \/ Acts
  PROVE  sc' = sc
<1>1. CASE Thinks
  BY <1>1, ThinksStays
<1>2. CASE TryRename \/ MakeDir \/ PinDir \/ StopCopy
  BY <1>2 DEF TryRename, MakeDir, PinDir, StopCopy
<1>3. CASE Build \/ ReadLast \/ Verify \/ LinkUnnamed \/ Publish \/ CopyLink
  BY <1>3 DEF Build, ReadLast, Verify, LinkUnnamed, Publish, CopyLink, context
<1>4. CASE UnlinkEntry \/ RemoveDir
  BY <1>4 DEF UnlinkEntry, RemoveDir, removal
<1> QED
  BY <1>1, <1>2, <1>3, <1>4 DEF Acts

LEMMA MoveStep ==
  ASSUME Base, OwnOK, WriteOK, MoveOK, Base', [Next]_vars
  PROVE  MoveOK'
<1>1. Sound /\ WorldOK /\ JobOK /\ JobOK' /\ TaskOK /\ MarkedOK /\ FiledOK /\ RemovingOK /\ LedgerOK
  BY DEF Base, MoveOK, Sound
<1>2. CASE Thinks \/ Acts
  <2>1. JobDid /\ sc' = sc
    BY <1>2, ThinksBase, ActsBase, JobScene DEF Base
  <2>2. MarkedOK' /\ Drift /\ Grown
    BY <1>1, <1>2, <2>1, JobMarked, JobGrows
  <2>3. TaskOK' /\ LedgerOK'
    BY <1>1, <1>2, <2>1, <2>2, JobTask, JobLedger
  <2>4. FiledOK' /\ RemovingOK'
    BY <1>1, <1>2, <2>1, <2>2, JobFiled, JobRemoving
  <2> QED
    BY <2>2, <2>3, <2>4 DEF MoveOK
<1>3. CASE Others
  <2>1. OthersDid /\ UNCHANGED job
    BY <1>3, OthersBase
  <2>2. MarkedOK' /\ Drift /\ Grown
    BY <1>1, <2>1, OthersMarked
  <2>3. Waits
    BY <1>1, <2>1, <2>2, OthersWaits
  <2> QED
    BY <1>1, <2>2, <2>3, WaitsTask, WaitsFiled, WaitsRemoving DEF MoveOK
<1>4. CASE Cancel \/ (Tick /\ UNCHANGED job) \/ UNCHANGED vars
  <2>1. Waits /\ MarkedOK'
    BY <1>1, <1>4, QuietWaits, WaitsMarked
  <2> QED
    BY <1>1, <2>1, WaitsTask, WaitsFiled, WaitsRemoving DEF MoveOK
<1> QED
  BY <1>2, <1>3, <1>4, StepIs

LEMMA InitMove ==
  ASSUME Init
  PROVE  MoveOK
<1>1. Base
  BY InitBase
<1>2. /\ pc = "root" /\ ledger = {} /\ del = <<>> /\ synced = {} /\ item = NoItem
      /\ data \in [Node -> {"first"} \X Nat]
  BY ScenarioAssumption, LayoutAssumption DEF Init, start
<1>3. FreshOK
  BY <1>2 DEF FreshOK, Aged
<1>4. TaskOK /\ SyncedOK /\ RecordOK
  BY <1>2 DEF TaskOK, SyncedOK, RecordOK
<1>5. LedgerOK /\ FiledOK
  BY <1>2 DEF LedgerOK, FiledOK
<1>6. RemovingOK
  BY <1>2 DEF RemovingOK, LevelsOK, LookOK
<1> QED
  BY <1>3, <1>4, <1>5, <1>6 DEF MoveOK, MarkedOK

\* Whatever a move recorded has a flushed copy that stood whole while the source
\* shows no change, and a source is looked at for removal only when the name of its
\* copy is on the disk (recordEntry, deleteRecorded).
THEOREM MoveInvariant == Spec => [](Base /\ OwnOK /\ WriteOK /\ MoveOK)
<1>1. Init => MoveOK
  BY InitMove
<1>2. Base /\ OwnOK /\ WriteOK /\ MoveOK /\ Base' /\ [Next]_vars => MoveOK'
  BY MoveStep
<1> QED
  BY <1>1, <1>2, WriteInvariant, PTL DEF Spec

-----------------------------------------------------------------------------
(* What vanishes from the tree.                                            *)
\* What vanishes is an empty directory the move read, an entry that is saved, or
\* one the job was told to overwrite.
Accounted(n) ==
    \/ sc.move /\ kind[n] = "dir" /\ Children(n) = {} /\ n \in copied
    \/ sc.move /\ kind[n] # "dir" /\ Saved(n)
    \/ kind[n] # "dir" /\ Replaced(n)

\* What a rename takes away stood under the new name; nothing stood under a free one.
LEMMA RenameTakes ==
  ASSUME WorldOK, NEW n \in Node, NEW d \in Node \cup {Stage}, NEW x \in Name \cup {Temp},
         at' = Renamed(n, d, x), NEW v \in Node, Vanishes(v)
  PROVE  v # n /\ at[v] = <<d, x>> /\ Lookup(d, x) = v /\ Lookup(d, x) # None /\ at'[n] = at[v]
<1>1. v # n /\ at[v] = <<d, x>> /\ at'[n] = <<d, x>>
  <2>1. WellPlaced(at) /\ at[v] # Nowhere /\ at'[v] = Nowhere /\ <<d, x>> # Nowhere
    BY SlotFacts DEF WorldOK, Vanishes
  <2>2. /\ at'[n] = <<d, x>>
        /\ \A m \in Node \ {n} : at[m] # <<d, x>> => at'[m] = at[m]
    BY <2>1, RenamedPlaces
  <2> QED
    BY <2>1, <2>2
<1>2. OneEach
  BY DEF WorldOK, WellPlaced, OneEach
<1> QED
  BY <1>1, <1>2, LookupIs, NodeAssumption

LEMMA UnlinkTakes ==
  ASSUME WorldOK, NEW n \in Node, at' = Unlinked(n), NEW v \in Node, Vanishes(v)
  PROVE  v = n
BY UnlinkedPlaces DEF WorldOK, Vanishes

LEMMA StaysTakes ==
  ASSUME at' = at, NEW v \in Node
  PROVE  ~Vanishes(v)
BY DEF Vanishes

\* What the job gives up is its own.
LEMMA GivenUpTakes ==
  ASSUME Base, WriteOK, pc \in Building, at' = Discarded, made' = made, NEW v \in Node
  PROVE  ~Vanishes(v)
<1>1. item.new \in made
  BY DEF WriteOK, HomeOK
<1>2. \A m \in Node \ {item.new} : at'[m] = at[m]
  BY DiscardedHome DEF Base
<1> QED
  BY <1>1, <1>2 DEF Vanishes

LEMMA TryRenameAccounts ==
  ASSUME Base, MoveOK, TryRename, NEW v \in Node, Vanishes(v)
  PROVE  Accounted(v)
<1>1. pc = "rename" /\ item \in Task /\ item.id \in Node /\ item.final \in Name /\ Dst \in Node
  BY DEF TryRename, Base, JobOK, JobTyped, Task, WorldOK
<1>2. at' = Renamed(item.id, Dst, item.final) /\ ~RenameRefused
  BY StaysTakes DEF TryRename, world
<1>3. v # item.id /\ Lookup(Dst, item.final) = v /\ v # None /\ at'[item.id] = at[v]
  BY <1>1, <1>2, RenameTakes DEF Base
<1>4. item.act = "overwrite" /\ kind[v] # "dir"
  BY <1>2, <1>3 DEF RenameRefused
<1>5. sc.policy = "overwrite"
  BY <1>1, <1>4 DEF MoveOK, TaskOK
<1> QED
  BY <1>1, <1>3, <1>4, <1>5 DEF Accounted, Replaced

LEMMA MakeDirKeeps ==
  ASSUME Base, MakeDir, NEW v \in Node
  PROVE  ~Vanishes(v)
<1> DEFINE p == IF Staged THEN <<Stage, Temp>> ELSE <<item.ddir, item.final>>
<1>1. pc = "mkdir" /\ item \in Task /\ item.ddir \in Node /\ item.final \in Name
  BY DEF MakeDir, Base, JobOK, JobTyped, Task
<1>2. p[1] \in Node \cup {Stage} /\ p[2] \in Name \cup {Temp}
  BY <1>1
<1>3. CASE UNCHANGED world
  BY <1>3, StaysTakes DEF world
<1>4. CASE Unused # {} /\ Lookup(p[1], p[2]) = None /\ at' = Renamed(Spare, p[1], p[2])
  <2> HIDE DEF p
  <2> QED
    BY <1>2, <1>4, SpareUnused, RenameTakes DEF Base
<1> QED
  BY <1>3, <1>4 DEF MakeDir

LEMMA PinDirKeeps ==
  ASSUME Base, MoveOK, PinDir, NEW v \in Node
  PROVE  ~Vanishes(v)
<1>1. /\ pc = "pin" /\ item \in Task /\ item.ddir \in Node /\ item.final \in Name /\ item.new \in Node
      /\ item.where = Stage \/ <<item.where, item.temp>> = <<item.ddir, item.final>>
  BY DEF PinDir, Base, JobOK, JobTyped, Sorted, Task, MoveOK, TaskOK
<1>2. CASE at' = at
  BY <1>2, StaysTakes
<1>3. CASE at' = Unlinked(item.new) /\ item.new \in made'
  BY <1>1, <1>3, UnlinkTakes DEF Base, Vanishes
<1>4. CASE /\ Proved
           /\ item.where = Stage => Lookup(item.ddir, item.final) = None
           /\ at' = Renamed(item.new, item.ddir, item.final)
  <2> SUFFICES ASSUME Vanishes(v) PROVE FALSE
    OBVIOUS
  <2>1. v # item.new /\ at[v] = <<item.ddir, item.final>> /\ Lookup(item.ddir, item.final) = v /\ v # None
    BY <1>1, <1>4, RenameTakes DEF Base
  <2>2. item.where # Stage
    BY <1>4, <2>1
  <2>3. at[item.new] = <<item.where, item.temp>>
    BY <1>1, <1>4, LookupFound, NodeAssumption DEF Proved
  <2> QED
    BY <1>1, <2>1, <2>2, <2>3 DEF Base, WorldOK, WellPlaced, Vanishes
<1> QED
  BY <1>2, <1>3, <1>4 DEF PinDir, DroppedDir

LEMMA BuildKeeps ==
  ASSUME Base, Build, NEW v \in Node
  PROVE  ~Vanishes(v)
<1>1. CASE at' = at
  BY <1>1, StaysTakes
<1>2. CASE Unused # {} /\ at' = [at EXCEPT ![Spare] = BuildPlace]
  <2>1. Spare \in Node /\ at[Spare] = Nowhere
    BY <1>2, SpareUnused DEF Base, WorldOK
  <2> QED
    BY <1>2, <2>1 DEF Base, WorldOK, WellPlaced, Vanishes
<1> QED
  BY <1>1, <1>2 DEF Build, world

LEMMA WritingKeeps ==
  ASSUME Base, WriteOK, ReadLast \/ Verify \/ LinkUnnamed \/ StopCopy, NEW v \in Node
  PROVE  ~Vanishes(v)
<1>1. CASE ReadLast
  BY <1>1, StaysTakes DEF ReadLast
<1>2. CASE Verify
  BY <1>2, StaysTakes, GivenUpTakes DEF Verify, GiveUpFile
<1>3. CASE LinkUnnamed
  <2>1. pc = "link0" /\ item \in Task /\ item.new \in Node
    BY <1>3 DEF LinkUnnamed, Base, JobOK, JobTyped, Sorted
  <2>2. item.where \in Node \cup {Stage} /\ item.temp \in Name \cup {Temp}
    BY <2>1 DEF Task
  <2>3. CASE at' = [at EXCEPT ![item.new] = <<item.where, item.temp>>]
    BY <2>1, <2>2, <2>3, SlotFacts DEF Base, WorldOK, WellPlaced, Vanishes
  <2> QED
    BY <1>3, <2>3, StaysTakes DEF LinkUnnamed
<1>4. CASE StopCopy
  BY <1>4, StaysTakes, GivenUpTakes DEF StopCopy, ghosts
<1> QED
  BY <1>1, <1>2, <1>3, <1>4

LEMMA PublishAccounts ==
  ASSUME Base, WriteOK, MoveOK, Publish, NEW v \in Node, Vanishes(v)
  PROVE  Accounted(v)
<1>1. /\ pc = "publish" /\ item \in Task /\ item.ddir \in Node /\ item.final \in Name
      /\ item.new \in Node /\ kind[item.new] = "file" /\ UNCHANGED <<data, made, synced>>
  BY DEF Publish, Base, JobOK, JobTyped, Sorted, Task
<1>2. /\ at' = Renamed(item.new, item.ddir, item.final)
      /\ StillOurs
      /\ InPlace \/ MayPublish
  BY <1>1, StaysTakes, GivenUpTakes DEF Publish, GiveUpFile
<1>3. v # item.new /\ at[v] = <<item.ddir, item.final>> /\ Target = v /\ v # None /\ at'[item.new] = at[v]
  BY <1>1, <1>2, RenameTakes DEF Base, Target
<1>4. ~InPlace
  BY <1>1, <1>2, <1>3 DEF StillOurs, InPlace, Base, WorldOK, WellPlaced, Vanishes
<1>5. item.act = "overwrite" /\ kind[v] = "file"
  BY <1>1, <1>2, <1>3, <1>4 DEF MayPublish
<1>6. sc.policy = "overwrite" /\ item.new \in synced'
  BY <1>1, <1>5 DEF MoveOK, TaskOK, MarkedOK, SyncedOK
<1>7. /\ data'[item.new] # Partial(item.new)
      /\ sc.move => data'[item.new] # Torn(item.new)
  BY <1>1 DEF WriteOK, MarksOK, SettledOK
<1> QED
  BY <1>1, <1>3, <1>5, <1>6, <1>7 DEF Accounted, Replaced

LEMMA CopyLinkAccounts ==
  ASSUME Base, WriteOK, MoveOK, CopyLink, NEW v \in Node, Vanishes(v)
  PROVE  Accounted(v)
<1> DEFINE n == Lookup(item.dir, item.name)
<1>1. pc = "link" /\ item \in Task /\ item.id \in Node /\ item.ddir \in Node /\ item.final \in Name
  BY DEF CopyLink, Base, JobOK, JobTyped, Task
<1>2. /\ n = item.id /\ Unused # {} /\ at' = Renamed(Spare, item.ddir, item.final)
      /\ Target # None => item.act = "overwrite" /\ kind[Target] = "link"
      /\ data' = [data EXCEPT ![Spare] = data[n]] /\ Spare \in synced'
  BY StaysTakes DEF CopyLink, world
<1> HIDE DEF n
<1>3. Spare \in Node /\ kind[Spare] = "none"
  BY <1>2, SpareUnused
<1>4. v # Spare /\ Target = v /\ v # None /\ at'[Spare] = at[v]
  BY <1>1, <1>2, <1>3, RenameTakes DEF Base, Target
<1>5. sc.policy = "overwrite" /\ kind[v] = "link"
  BY <1>1, <1>2, <1>4 DEF MoveOK, TaskOK
<1>6. data'[Spare] = data[item.id] /\ ~Marked(data[item.id], Spare)
  BY <1>1, <1>2, <1>3 DEF WriteOK, MarksOK, Base, WorldOK
<1> HIDE DEF Spare
<1>7. data'[Spare] # Partial(Spare) /\ data'[Spare] # Torn(Spare)
  BY <1>6 DEF Marked
<1> QED
  BY <1>2, <1>3, <1>4, <1>5, <1>7 DEF Accounted, Replaced

LEMMA UnlinkEntryAccounts ==
  ASSUME Base, MoveOK, UnlinkEntry, NEW v \in Node, Vanishes(v)
  PROVE  Accounted(v)
<1>1. pc = "unlink" /\ item \in Entries /\ item.id \in Node /\ del # <<>>
  BY DEF UnlinkEntry, Base, JobOK, JobTyped, Entries
<1>2. SourceMatches /\ at' = Unlinked(item.id)
  BY StaysTakes DEF UnlinkEntry
<1>3. v = item.id
  BY <1>1, <1>2, UnlinkTakes DEF Base
<1>4. /\ item.kind \in {"file", "link"} /\ kind[v] = item.kind
      /\ item.did \in made \cap synced /\ OnDisk(item.did)
  BY <1>1, <1>3 DEF MoveOK, RemovingOK, LookOK, DoneOK, EntryOK
<1>5. <<item.did, data[v]>> \in held
  BY <1>1, <1>2, <1>3, <1>4 DEF MoveOK, RemovingOK, LookOK, DoneOK, EntryOK, SourceMatches
<1>6. \A i \in 2 .. Len(del) : OnDisk(del[i].dst)
  <2>1. \A i \in DOMAIN del : i # 1 => OnDisk(del[i].dst)
    BY DEF MoveOK, RemovingOK, LevelsOK
  <2>2. DOMAIN del = 1 .. Len(del) /\ Len(del) \in Nat
    BY DEF Base, JobOK, JobTyped
  <2> QED
    BY <2>1, <2>2
<1>7. sc.move
  BY <1>1 DEF MoveOK, LedgerOK
<1> QED
  BY <1>4, <1>5, <1>6, <1>7 DEF Accounted, Saved

LEMMA RemoveDirAccounts ==
  ASSUME Base, MoveOK, RemoveDir, NEW v \in Node, Vanishes(v)
  PROVE  Accounted(v)
<1>1. del \in Seq(Levels) /\ Len(del) \in DOMAIN del /\ Len(del) # 1 /\ del # <<>>
  BY DEF RemoveDir, Base, JobOK, JobTyped
<1>2. Level.dir \in Node /\ Level.dir \in copied /\ kind[Level.dir] = "dir"
  <2>1. Level \in Levels
    BY <1>1 DEF Level
  <2>2. del[Len(del)].dir \in copied /\ kind[del[Len(del)].dir] = "dir"
    BY <1>1 DEF MoveOK, RemovingOK, LevelsOK
  <2> QED
    BY <2>1, <2>2 DEF Level, Levels
<1>3. at' = Unlinked(Level.dir) /\ Children(Level.dir) = {}
  BY StaysTakes DEF RemoveDir
<1>4. v = Level.dir
  BY <1>2, <1>3, UnlinkTakes DEF Base
<1>5. sc.move
  BY <1>1 DEF MoveOK, LedgerOK
<1> QED
  BY <1>2, <1>3, <1>4, <1>5 DEF Accounted

LEMMA ActsAccount ==
  ASSUME Base, WriteOK, MoveOK, Acts, NEW v \in Node, Vanishes(v)
  PROVE  Accounted(v)
BY TryRenameAccounts, MakeDirKeeps, PinDirKeeps, BuildKeeps, WritingKeeps, PublishAccounts,
   CopyLinkAccounts, UnlinkEntryAccounts, RemoveDirAccounts, Zenon DEF Acts

LEMMA StepAccounts ==
  ASSUME Base, WriteOK, MoveOK, [Next]_vars, ByTheJob, NEW v \in Node, Vanishes(v)
  PROVE  Accounted(v)
<1>1. CASE Thinks
  BY <1>1, ThinksStays, StaysTakes DEF world
<1>2. CASE Others
  BY <1>2, OthersBase DEF OthersDid, ByTheJob, Base, WorldOK
<1>3. CASE Cancel \/ (Tick /\ UNCHANGED job) \/ UNCHANGED vars
  BY <1>3, StaysTakes DEF Cancel, Tick, vars, world
<1> QED
  BY <1>1, <1>2, <1>3, ActsAccount, StepIs

\* Whatever the others do between the steps, and wherever a crash comes, what the
\* job removes is its own, an overwritten file's place taken by a whole copy, or
\* the source of a move whose content is on the destination's disk.
THEOREM JobLosesNothing == Spec => NothingIsLost
<1>1. Base /\ WriteOK /\ MoveOK /\ [Next]_vars =>
        (ByTheJob => \A n \in Node : Vanishes(n) => Accounted(n))
  BY StepAccounts
<1>2. Base /\ WriteOK /\ MoveOK /\ [Next]_vars =>
        (ByTheJob => \A n \in Node : Vanishes(n) =>
           \/ sc.move /\ kind[n] = "dir" /\ Children(n) = {} /\ n \in copied
           \/ sc.move /\ kind[n] # "dir" /\ Saved(n)
           \/ kind[n] # "dir" /\ Replaced(n))
  BY <1>1, Zenon DEF Accounted
<1> QED
  BY <1>2, MoveInvariant, PTL DEF Spec, NothingIsLost

-----------------------------------------------------------------------------
(* The flags of the job, and its types.                                    *)
\* The types of the flags.
FlagsOK ==
    /\ clock <= MaxClock
    /\ result \in {"none", "done", "failed", "cancelled"}
    /\ {spoiled, grumbled, cancelled, full, touched, ledgerFull} \subseteq BOOLEAN

LEMMA ThinksFlags ==
  ASSUME FlagsOK, Thinks
  PROVE  FlagsOK'
<1> USE DEF FlagsOK, Complain, Leave, Abandon, Stop
<1>1. CASE TakeRoot \/ PlaceRoot \/ BeginCopy
  BY <1>1 DEF TakeRoot, PlaceRoot, BeginCopy, world, marks, ledgerVars
<1>2. CASE OpenDir \/ Opened \/ Unwind
  BY <1>2 DEF OpenDir, Opened, Unwind, Persist, world, marks, ledgerVars
<1>3. CASE WalkEntry
  BY <1>3 DEF WalkEntry, world, marks, ledgerVars
<1>4. CASE OpenSource \/ Settle \/ ReadFirst
  BY <1>4 DEF OpenSource, Settle, ReadFirst, context, world, marks
<1>5. CASE CloseCopy
  BY <1>5 DEF CloseCopy, RecordPublished, Record, context, world, marks
<1>6. CASE FinishRoot \/ DeleteNext \/ Look
  BY <1>6 DEF FinishRoot, DeleteNext, Look, KeepEntry, removal, world, marks
<1>7. CASE CompareFirst \/ CompareLast \/ RootGone \/ StopDelete \/ Finish
  BY <1>7 DEF CompareFirst, CompareLast, RootGone, StopDelete, Finish, KeepEntry, removal, world, marks,
              ledgerVars
<1> QED
  BY <1>1, <1>2, <1>3, <1>4, <1>5, <1>6, <1>7, Zenon DEF Thinks

LEMMA ActsFlags ==
  ASSUME FlagsOK, Acts
  PROVE  FlagsOK'
<1> USE DEF FlagsOK, Complain, Leave, Abandon, Stop
<1>1. CASE TryRename
  BY <1>1 DEF TryRename, world, marks, ledgerVars
<1>2. CASE MakeDir \/ PinDir
  BY <1>2 DEF MakeDir, PinDir, Enter, Record, world, marks
<1>3. CASE Build \/ ReadLast \/ Verify
  BY <1>3 DEF Build, ReadLast, Verify, GiveUpFile, context, world, marks
<1>4. CASE LinkUnnamed \/ Publish \/ CopyLink
  BY <1>4 DEF LinkUnnamed, Publish, CopyLink, GiveUpFile, context, world, marks
<1>5. CASE StopCopy \/ UnlinkEntry \/ RemoveDir
  BY <1>5 DEF StopCopy, UnlinkEntry, RemoveDir, KeepEntry, removal, marks
<1> QED
  BY <1>1, <1>2, <1>3, <1>4, <1>5, Zenon DEF Acts

LEMMA FlagsStep ==
  ASSUME Base, FlagsOK, [Next]_vars
  PROVE  FlagsOK'
<1>1. CASE Cancel
  BY <1>1 DEF Cancel, FlagsOK, world, marks, ledgerVars
<1>2. CASE Tick /\ UNCHANGED job
  BY <1>2, NodeAssumption DEF Tick, job, FlagsOK, marks, ledgerVars, Base, WorldOK
<1>3. CASE Others
  <2>1. clock' = clock /\ UNCHANGED job
    BY <1>3, OthersBase DEF OthersDid
  <2> QED
    BY <2>1 DEF job, FlagsOK, marks, ledgerVars
<1>4. CASE UNCHANGED vars
  BY <1>4 DEF vars, FlagsOK, world, marks, ledgerVars
<1> QED
  BY <1>1, <1>2, <1>3, <1>4, ThinksFlags, ActsFlags, StepIs

\* Every variable of the job has its type, and what it holds open exists.
THEOREM TypeInvariant == Spec => []TypeOK
<1>1. Init => FlagsOK
  <2>1. Init => /\ clock = 0 /\ result = "none"
                /\ <<full, touched, ledgerFull, spoiled, grumbled, cancelled>>
                     = <<FALSE, FALSE, FALSE, FALSE, FALSE, FALSE>>
    BY DEF Init
  <2> QED
    BY <2>1, NodeAssumption DEF FlagsOK
<1>2. Base /\ FlagsOK /\ [Next]_vars => FlagsOK'
  BY FlagsStep
<1>3. Base /\ OwnOK /\ MoveOK /\ FlagsOK => TypeOK
  <2> SUFFICES ASSUME Base, OwnOK, MoveOK, FlagsOK PROVE TypeOK
    OBVIOUS
  <2>1. \A n \in Node : at[n] = Nowhere \/ at[n] \in (Node \cup {Stage}) \X (Name \cup {Temp})
    BY DEF Base, WorldOK, WellPlaced, Places, Slots
  <2>2. kind \in [Node -> Kinds] /\ clock \in 0 .. MaxClock
    BY NodeAssumption DEF Base, WorldOK, FlagsOK
  <2>3. theirs \cup made \cup tracked \cup synced \subseteq Node
    BY DEF Base, WorldOK, JobOK, JobTyped, OwnOK, MoveOK, MarkedOK, SyncedOK
  <2>4. \A i \in DOMAIN frames : kind[frames[i].src] = "dir" /\ kind[frames[i].dst] = "dir"
    BY DEF Base, JobOK, Sorted
  <2>5. del # <<>> => sc.move /\ frames = <<>>
    BY DEF Base, JobOK, JobTyped, MoveOK, LedgerOK
  <2>6. \A m, n \in Node : m # n /\ at[m] = at[n] => at[m] = Nowhere
    BY DEF Base, WorldOK, WellPlaced
  <2> QED
    BY <2>1, <2>2, <2>3, <2>4, <2>5, <2>6 DEF TypeOK, FlagsOK
<1> QED
  BY <1>1, <1>2, <1>3, MoveInvariant, PTL DEF Spec

-----------------------------------------------------------------------------
(* What a silent end means: the trees a job starts with.                   *)
\* The layouts, as the job at work sees its own.
LEMMA LayoutFacts ==
  ASSUME WorldOK
  PROVE  /\ start.at \in [Node -> {Nowhere} \cup Node \X Name] /\ start.kind \in [Node -> Kinds]
         /\ start.roots \in Seq(Name) /\ start.kind[Top] = "dir" /\ start.at[Top] = Nowhere
         /\ \A n \in Node : start.at[n] # Nowhere =>
               start.kind[n] # "none" /\ start.kind[start.at[n][1]] = "dir"
         /\ start.src = {n \in Node : \/ Selects(start, n)
                                      \/ start.at[n] # Nowhere /\ start.at[n][1] \in start.src}
         /\ \A n \in start.src : Top \in AncestorsIn(start.at, n)
<1>1. sc.tree \in DOMAIN Layout
  BY ScenarioAssumption DEF WorldOK
<1> DEFINE l == Layout[sc.tree]
<1>2. /\ l.at \in [Node -> {Nowhere} \cup Node \X Name] /\ l.kind \in [Node -> Kinds]
      /\ l.roots \in Seq(Name) /\ l.kind[Top] = "dir" /\ l.at[Top] = Nowhere
      /\ \A n \in Node : l.at[n] # Nowhere => l.kind[n] # "none" /\ l.kind[l.at[n][1]] = "dir"
      /\ l.src = {n \in Node : Selects(l, n) \/ (l.at[n] # Nowhere /\ l.at[n][1] \in l.src)}
      /\ \A n \in l.src : Top \in AncestorsIn(l.at, n)
  BY <1>1, LayoutAssumption
<1>3. start = l
  BY DEF start
<1>4. QED
  BY <1>2, <1>3

\* An entry of the selected trees stands in another one, or in Top.
LEMMA SourceFacts ==
  ASSUME WorldOK, NEW n \in start.src
  PROVE  /\ n \in Node /\ n # Top /\ start.kind[n] # "none" /\ start.at[n] # Nowhere
         /\ start.at[n] = <<start.at[n][1], start.at[n][2]>>
         /\ start.at[n][1] \in Node /\ start.at[n][2] \in Name
         /\ start.kind[start.at[n][1]] = "dir"
         /\ start.at[n][1] \in start.src \/ Selects(start, n)
         /\ Selects(start, n) => start.at[n][1] = Top
<1> DEFINE s == start
<1>1. /\ s.at \in [Node -> {Nowhere} \cup Node \X Name] /\ s.at[Top] = Nowhere
      /\ \A m \in Node : s.at[m] # Nowhere => s.kind[m] # "none" /\ s.kind[s.at[m][1]] = "dir"
      /\ n \in {m \in Node : Selects(s, m) \/ (s.at[m] # Nowhere /\ s.at[m][1] \in s.src)}
  BY LayoutFacts
<1> HIDE DEF s
<1>2. n \in Node /\ (Selects(s, n) \/ (s.at[n] # Nowhere /\ s.at[n][1] \in s.src))
  BY <1>1
<1>3. Selects(s, n) => s.at[n] # Nowhere /\ s.at[n][1] = Top
  BY DEF Selects, Nowhere
<1>4. s.at[n] # Nowhere
  BY <1>2, <1>3
<1>5. s.at[n] \in Node \X Name
  BY <1>1, <1>2, <1>4
<1>6. n # Top
  BY <1>1, <1>4
<1>7. QED
  BY <1>1, <1>2, <1>3, <1>4, <1>5, <1>6 DEF s

LEMMA BelowSource ==
  ASSUME WorldOK, NEW n \in Node, start.at[n] # Nowhere, start.at[n][1] \in start.src
  PROVE  n \in start.src
<1>1. start.src = {m \in Node : \/ Selects(start, m)
                                \/ start.at[m] # Nowhere /\ start.at[m][1] \in start.src}
  BY LayoutFacts
<1>2. QED
  BY <1>1

LEMMA SelectedSource ==
  ASSUME WorldOK, NEW n \in Node, Selects(start, n)
  PROVE  n \in start.src
<1>1. start.src = {m \in Node : \/ Selects(start, m)
                                \/ start.at[m] # Nowhere /\ start.at[m][1] \in start.src}
  BY LayoutFacts
<1>2. QED
  BY <1>1

\* A set that holds, with an entry, what the entry stands in holds what is above it.
LEMMA ClimbInside ==
  ASSUME NEW a, NEW Q, \A S : S \subseteq Q => UpIn(a, S) \subseteq Q, NEW n \in Q
  PROVE  AncestorsIn(a, n) \subseteq Q
<1> DEFINE U1 == UpIn(a, {n})  U2 == UpIn(a, U1)  U3 == UpIn(a, U2)  U4 == UpIn(a, U3)
           U5 == UpIn(a, U4)   U6 == UpIn(a, U5)
<1>1. U1 \subseteq Q
  OBVIOUS
<1> HIDE DEF U1
<1>2. U2 \subseteq Q
  BY <1>1
<1> HIDE DEF U2
<1>3. U3 \subseteq Q
  BY <1>2
<1> HIDE DEF U3
<1>4. U4 \subseteq Q
  BY <1>3
<1> HIDE DEF U4
<1>5. U5 \subseteq Q
  BY <1>4
<1> HIDE DEF U5
<1>6. U6 \subseteq Q
  BY <1>5
<1> HIDE DEF U6
<1>7. UpIn(a, U6) \subseteq Q
  BY <1>6
<1>8. AncestorsIn(a, n) = UpIn(a, U6)
  BY Zenon DEF AncestorsIn, U1, U2, U3, U4, U5, U6
<1>9. QED
  BY <1>7, <1>8

\* Two trees that agree on such a set have the same directories above an entry of it.
LEMMA ClimbAlike ==
  ASSUME NEW a, NEW b, NEW Q, NEW n \in Q,
         \A S : S \subseteq Q => UpIn(a, S) \subseteq Q /\ UpIn(a, S) = UpIn(b, S)
  PROVE  AncestorsIn(a, n) = AncestorsIn(b, n)
<1> DEFINE U1 == UpIn(a, {n})  U2 == UpIn(a, U1)  U3 == UpIn(a, U2)  U4 == UpIn(a, U3)
           U5 == UpIn(a, U4)   U6 == UpIn(a, U5)
<1>1. U1 \subseteq Q /\ U1 = UpIn(b, {n})
  OBVIOUS
<1> HIDE DEF U1
<1>2. U2 \subseteq Q /\ U2 = UpIn(b, U1)
  BY <1>1
<1> HIDE DEF U2
<1>3. U3 \subseteq Q /\ U3 = UpIn(b, U2)
  BY <1>2
<1> HIDE DEF U3
<1>4. U4 \subseteq Q /\ U4 = UpIn(b, U3)
  BY <1>3
<1> HIDE DEF U4
<1>5. U5 \subseteq Q /\ U5 = UpIn(b, U4)
  BY <1>4
<1> HIDE DEF U5
<1>6. U6 \subseteq Q /\ U6 = UpIn(b, U5)
  BY <1>5
<1> HIDE DEF U6
<1>7. UpIn(a, U6) = UpIn(b, U6)
  BY <1>6
<1>8. AncestorsIn(a, n) = UpIn(a, U6)
  BY Zenon DEF AncestorsIn, U1, U2, U3, U4, U5, U6
<1>9. AncestorsIn(b, n) = UpIn(b, U6)
  BY <1>1, <1>2, <1>3, <1>4, <1>5, <1>6, Zenon DEF AncestorsIn
<1>10. QED
  BY <1>7, <1>8, <1>9

\* What holds of the selected roots, and of an entry when it holds of its
\* directory, holds of every entry of the selected trees.
LEMMA SourceInduction ==
  ASSUME WorldOK, NEW P,
         \A n \in start.src : Selects(start, n) => n \in P,
         \A n \in start.src : start.at[n][1] \in start.src \cap P => n \in P
  PROVE  start.src \subseteq P
<1> SUFFICES ASSUME NEW n \in start.src, n \notin P
             PROVE  FALSE
  OBVIOUS
<1> DEFINE Q == start.src \ P
<1>1. \A m \in Q : start.at[m][1] \in Q
  BY SourceFacts
<1>2. ASSUME NEW S, S \subseteq Q
      PROVE  UpIn(start.at, S) \subseteq Q
  BY <1>1, <1>2 DEF UpIn
<1>3. n \in Q /\ Top \notin Q
  BY SourceFacts
<1> HIDE DEF Q
<1>4. AncestorsIn(start.at, n) \subseteq Q
  BY <1>2, <1>3, ClimbInside
<1>5. QED
  BY <1>3, <1>4, LayoutFacts

\* A chain of directories that ends in Top: the next step adds one directory, or
\* none.
Chain(a, S) ==
    \/ Top \in S /\ UpIn(a, S) = S
    \/ Top \notin S /\ \E t \in S : UpIn(a, S) \subseteq S \cup {a[t][1]}

LEMMA ChainGrows ==
  ASSUME NEW a, a[Top] = Nowhere, NEW S, Chain(a, S)
  PROVE  Chain(a, UpIn(a, S)) /\ S \subseteq UpIn(a, S)
<1>1. S \subseteq UpIn(a, S)
  BY DEF UpIn
<1>2. CASE Top \in S /\ UpIn(a, S) = S
  BY <1>1, <1>2 DEF Chain
<1>3. CASE Top \notin S /\ \E t \in S : UpIn(a, S) \subseteq S \cup {a[t][1]}
  <2>1. PICK t \in S : UpIn(a, S) \subseteq S \cup {a[t][1]}
    BY <1>3
  <2> DEFINE p == a[t][1]  V == UpIn(a, S)
  <2>2. UpIn(a, V) \subseteq V \cup {a[p][1]} /\ (a[p] = Nowhere => UpIn(a, V) \subseteq V)
    BY <2>1 DEF UpIn
  <2>3. V \subseteq UpIn(a, V) /\ V \subseteq S \cup {p}
    BY <2>1 DEF UpIn
  <2> HIDE DEF p, V
  <2>4. CASE Top \in V
    <3>1. p = Top
      BY <2>3, <2>4, <1>3
    <3>2. UpIn(a, V) = V
      BY <3>1, <2>2, <2>3
    <3>3. Chain(a, V)
      BY <3>2, <2>4 DEF Chain
    <3>4. QED
      BY <3>3, <1>1 DEF V
  <2>5. CASE Top \notin V /\ p \in V
    <3>1. Chain(a, V)
      BY <2>2, <2>5 DEF Chain
    <3>2. QED
      BY <3>1, <1>1 DEF V
  <2>6. CASE Top \notin V /\ p \notin V
    <3>1. V = S
      BY <2>3, <2>6, <1>1 DEF V
    <3>2. QED
      BY <3>1, <1>1 DEF V
  <2>7. QED
    BY <2>4, <2>5, <2>6, <1>1
<1>4. QED
  BY <1>2, <1>3 DEF Chain

LEMMA UpGrows ==
  ASSUME NEW a, NEW S, NEW V, S \subseteq V
  PROVE  UpIn(a, S) \subseteq UpIn(a, V)
BY DEF UpIn

\* What stands above the directory of an entry stands above the entry.
LEMMA AboveParent ==
  ASSUME NEW a, a[Top] = Nowhere, NEW n \in Node, a[n] # Nowhere, Top \in AncestorsIn(a, n)
  PROVE  AncestorsIn(a, a[n][1]) \subseteq AncestorsIn(a, n)
<1> DEFINE U1 == UpIn(a, {n})  U2 == UpIn(a, U1)  U3 == UpIn(a, U2)  U4 == UpIn(a, U3)
           U5 == UpIn(a, U4)   U6 == UpIn(a, U5)  U7 == UpIn(a, U6)
           p  == a[n][1]
           W1 == UpIn(a, {p})  W2 == UpIn(a, W1)  W3 == UpIn(a, W2)  W4 == UpIn(a, W3)
           W5 == UpIn(a, W4)   W6 == UpIn(a, W5)
<1>1. Chain(a, U1) /\ {p} \subseteq U1
  <2>1. U1 = {n, p}
    BY DEF UpIn
  <2>2. n # Top
    OBVIOUS
  <2>3. UpIn(a, {n}) \subseteq {n} \cup {a[n][1]}
    BY DEF UpIn
  <2>4. Chain(a, {n})
    BY <2>2, <2>3 DEF Chain
  <2>5. QED
    BY <2>1, <2>4, ChainGrows
<1>w. /\ AncestorsIn(a, n) = U7
      /\ AncestorsIn(a, p) = UpIn(a, W6)
  BY Zenon DEF AncestorsIn
<1> HIDE DEF U1, p
<1>2. Chain(a, U2) /\ W1 \subseteq U2
  BY <1>1, ChainGrows, UpGrows
<1> HIDE DEF U2, W1
<1>3. Chain(a, U3) /\ W2 \subseteq U3
  BY <1>2, ChainGrows, UpGrows
<1> HIDE DEF U3, W2
<1>4. Chain(a, U4) /\ W3 \subseteq U4
  BY <1>3, ChainGrows, UpGrows
<1> HIDE DEF U4, W3
<1>5. Chain(a, U5) /\ W4 \subseteq U5
  BY <1>4, ChainGrows, UpGrows
<1> HIDE DEF U5, W4
<1>6. Chain(a, U6) /\ W5 \subseteq U6
  BY <1>5, ChainGrows, UpGrows
<1> HIDE DEF U6, W5
<1>7. Chain(a, U7) /\ W6 \subseteq U7
  BY <1>6, ChainGrows, UpGrows
<1> HIDE DEF U7, W6
<1>8. UpIn(a, W6) \subseteq UpIn(a, U7)
  BY <1>7, UpGrows
<1>9. UpIn(a, U7) = U7
  BY <1>7, <1>w DEF Chain
<1>10. QED
  BY <1>8, <1>9, <1>w DEF p

-----------------------------------------------------------------------------
(* Undisturbed: what nobody else touched, and what the job reproduced.     *)
\* Nobody else touched the selected trees or what the job made, and the job has
\* had nothing to say.
Calm == ~grumbled /\ theirs \cap (start.src \cup made) = {}
\* A move has reproduced n, and where it left n anything else has reproduced that.
Gone(n) ==
    /\ sc.move
    /\ \/ <<n, data[n]>> \in held
       \/ at[n] = Nowhere /\ (kind[n] # "dir" => \E m \in Node : <<m, data[n]>> \in held)

\* The selected trees keep their kinds, and what the job writes is none of them.
SourceOK ==
    /\ at[Top] = Nowhere
    /\ \A n \in start.src : kind[n] = start.kind[n] /\ n \notin made
    /\ pc \in {"pin", "record"} \cup Building => item.new \notin start.src \cup {Top}

\* A root keeps its name, only a move renames, and a removal begins in Top.
RootOK ==
    /\ pc \in Tasked /\ frames = <<>> => item.name = root.name
    /\ frames # <<>> => kind[root.id] = "dir"
    /\ pc = "rename" => sc.move
    /\ del # <<>> => del[1].dir = Top

LEMMA NewIs ==
  ASSUME JobOK, Thinks \/ Acts
  PROVE  /\ \A n \in made' : n \in made \/ (pc = "pin" /\ n = item.new) \/ kind[n] = "none"
         /\ pc' \in {"pin", "record"} \cup Building =>
               \/ kind[item'.new] = "none"
               \/ pc \in {"record"} \cup Building /\ item'.new = item.new
<1>0. pc \in Tasked => item \in Task
  BY DEF JobOK, JobTyped
<1> USE DEF ghosts
<1>1. CASE TakeRoot \/ PlaceRoot \/ BeginCopy \/ OpenDir
  BY <1>1 DEF TakeRoot, PlaceRoot, BeginCopy, OpenDir, Leave, Abandon
<1>2. CASE Opened \/ WalkEntry \/ Unwind \/ OpenSource \/ Settle
  BY <1>2, Zenon DEF Opened, WalkEntry, Unwind, OpenSource, Settle, Leave, Abandon, After
<1>3. CASE ReadFirst \/ ReadLast
  BY <1>0, <1>3 DEF ReadFirst, ReadLast, Task
<1>4. CASE Verify \/ LinkUnnamed \/ Publish \/ CloseCopy
  BY <1>4 DEF Verify, LinkUnnamed, Publish, CloseCopy, GiveUpFile, Leave, After
<1>5. CASE FinishRoot \/ DeleteNext \/ Look \/ CompareFirst \/ CompareLast
  BY <1>5 DEF FinishRoot, DeleteNext, Look, CompareFirst, CompareLast, KeepEntry, DropEntry, removal
<1>6. CASE RootGone \/ StopDelete \/ Finish \/ UnlinkEntry \/ RemoveDir \/ StopCopy
  BY <1>6 DEF RootGone, StopDelete, Finish, UnlinkEntry, RemoveDir, StopCopy, Stop, KeepEntry,
              DropEntry, removal
<1>7. CASE TryRename
  BY <1>7 DEF TryRename, Leave
<1>8. CASE PinDir
  BY <1>8 DEF PinDir, Enter, Abandon, Leave, After
<1>9. CASE MakeDir
  <2>1. CASE pc' = "pin"
    <3>1. Unused # {} /\ item' = [item EXCEPT !.new = Spare, !.where = item'.where, !.temp = item'.temp]
      BY <1>9, <2>1 DEF MakeDir, Enter, Abandon, Leave, After
    <3>2. item'.new = Spare
      BY <3>1, <1>0, <1>9 DEF MakeDir, Task
    <3> QED
      BY <1>9, <3>1, <3>2, SpareUnused DEF MakeDir
  <2>2. CASE pc' # "pin"
    BY <1>9, <2>2 DEF MakeDir, Enter, Abandon, Leave, After
  <2> QED
    BY <2>1, <2>2
<1>10. CASE Build
  <2>1. CASE pc' = "read"
    <3>1. Unused # {} /\ item' = [item EXCEPT !.new = Spare, !.where = item'.where, !.temp = item'.temp]
      BY <1>10, <2>1 DEF Build, Leave, After
    <3>2. item'.new = Spare /\ made' = made \cup {Spare}
      BY <3>1, <1>0, <1>10, <2>1 DEF Build, Task, Leave, After
    <3> QED
      BY <1>10, <3>1, <3>2, SpareUnused
  <2>2. CASE pc' # "read"
    BY <1>10, <2>2 DEF Build, Leave, After
  <2> QED
    BY <2>1, <2>2
<1>11. CASE CopyLink
  <2>1. CASE pc' = "record"
    <3>1. Unused # {} /\ item' = [item EXCEPT !.new = Spare] /\ made' = made \cup {Spare}
      BY <1>11, <2>1 DEF CopyLink, Leave, After
    <3>2. item'.new = Spare
      BY <3>1, <1>0, <1>11 DEF CopyLink, Task
    <3> QED
      BY <3>1, <3>2, SpareUnused
  <2>2. CASE pc' # "record"
    BY <1>11, <2>2 DEF CopyLink, Leave, After
  <2> QED
    BY <2>1, <2>2
<1> QED
  BY <1>1, <1>2, <1>3, <1>4, <1>5, <1>6, <1>7, <1>8, <1>9, <1>10, <1>11, Zenon DEF Thinks, Acts

LEMMA SourceKind ==
  ASSUME WorldOK, SourceOK, NEW n \in start.src
  PROVE  n \in Node /\ n # Top /\ kind[n] # "none" /\ kind[n] = start.kind[n] /\ n \notin made
BY SourceFacts DEF SourceOK

LEMMA StartSame == ASSUME sc' = sc PROVE start' = start
BY DEF start

LEMMA SourceStep ==
  ASSUME Base, SourceOK, [Next]_vars
  PROVE  SourceOK'
<1>0. WorldOK /\ JobOK /\ kind[Top] = "dir" /\ Top \in Node /\ at[Top] = Nowhere
  BY NodeAssumption DEF Base, WorldOK, SourceOK
<1>1. CASE Thinks \/ Acts
  <2>1. JobDid /\ start' = start
    BY <1>1, ThinksBase, ActsBase, JobScene, StartSame
  <2>2. pc \in {"link0", "pin", "record"} \cup Building => item.new \notin start.src \cup {Top}
    BY DEF SourceOK
  <2>3. at'[Top] = Nowhere
    BY <1>0, <2>1, <2>2 DEF JobDid
  <2>4. \A n \in start.src : kind'[n] = start.kind[n]
    BY <1>0, <2>1, SourceKind DEF JobDid
  <2>5. \A n \in start.src : n \notin made'
    BY <1>0, <1>1, <2>2, NewIs, SourceKind
  <2>6. pc' \in {"pin", "record"} \cup Building => item'.new \notin start.src \cup {Top}
    BY <1>0, <1>1, <2>2, NewIs, SourceKind
  <2> QED
    BY <2>1, <2>3, <2>4, <2>5, <2>6 DEF SourceOK
<1>2. CASE Others
  <2>1. OthersDid /\ UNCHANGED job
    BY <1>2, OthersBase
  <2>2. start' = start /\ UNCHANGED <<pc, item, made>>
    BY <2>1, StartSame DEF job, ghosts
  <2>3. at'[Top] = Nowhere /\ \A n \in start.src : kind'[n] = start.kind[n]
    BY <1>0, <2>1, SourceKind DEF OthersDid
  <2> QED
    BY <2>2, <2>3 DEF SourceOK
<1>3. CASE Cancel \/ (Tick /\ UNCHANGED job) \/ UNCHANGED vars
  <2>1. UNCHANGED <<at, kind, sc, pc, item, made>>
    BY <1>3 DEF Cancel, Tick, job, vars, world, ghosts
  <2> QED
    BY <2>1, StartSame DEF SourceOK
<1> QED
  BY <1>1, <1>2, <1>3, StepIs

LEMMA InitSource == ASSUME Init PROVE SourceOK /\ RootOK
<1>1. WorldOK
  BY InitBase DEF Base
<1>2. start.at[Top] = Nowhere
  BY <1>1, LayoutFacts
<1> QED
  BY <1>2 DEF Init, SourceOK, RootOK

LEMMA OnwardNames ==
  ASSUME JobOK, Onward, pc' \in Tasked
  PROVE  item'.name = item.name /\ item'.dir = item.dir /\ item'.id = item.id /\ pc' # "rename"
<1> USE DEF JobOK, JobTyped, Task
<1>1. CASE TryRename \/ BeginCopy
  BY <1>1 DEF TryRename, BeginCopy, Leave
<1>2. CASE OpenSource
  BY <1>2 DEF OpenSource, Leave, After
<1>3. CASE Settle \/ CloseCopy \/ Verify \/ LinkUnnamed \/ Publish
  BY <1>3 DEF Settle, CloseCopy, Verify, LinkUnnamed, Publish, GiveUpFile, Leave, After
<1>4. CASE ReadFirst \/ ReadLast
  BY <1>4 DEF ReadFirst, ReadLast
<1>5. CASE CopyLink
  BY <1>5 DEF CopyLink, Leave, After
<1> QED
  BY <1>1, <1>2, <1>3, <1>4, <1>5 DEF Onward

\* A removal keeps to the directory it began in.
LEMMA DelBegins ==
  ASSUME JobOK, RootOK, Thinks \/ Acts
  PROVE  del' # <<>> => del'[1].dir = Top
<1>0. del \in Seq(Levels) /\ (pc \in Removing <=> del # <<>>) /\ (del # <<>> => del[1].dir = Top)
  BY DEF JobOK, JobTyped, RootOK
<1>1. CASE TakeRoot \/ PlaceRoot \/ OpenDir \/ WalkEntry \/ Opened \/ Unwind
  BY <1>0, <1>1, Zenon DEF TakeRoot, PlaceRoot, OpenDir, WalkEntry, Opened, Unwind, ledgerVars
<1>2. CASE MakeDir \/ PinDir \/ Build \/ StopCopy \/ StopDelete \/ Finish \/ RootGone
  BY <1>0, <1>2 DEF MakeDir, PinDir, Build, StopCopy, StopDelete, Finish, RootGone, Stop, context, ledgerVars
<1>3. CASE Onward
  BY <1>0, <1>3, OnwardDoes
<1>4. CASE FinishRoot
  <2>1. CASE del' = del
    BY <1>0, <2>1
  <2>2. CASE del' = <<[dir |-> Top, dst |-> Dst, mode |-> 0, entry |-> None,
                       kept |-> FALSE, todo |-> RootEntries]>>
    BY <2>2
  <2> QED
    BY <1>4, <2>1, <2>2 DEF FinishRoot
<1>5. CASE del # <<>> /\ \E k \in BOOLEAN : DropEntry(k)
  <2>1. PICK k \in BOOLEAN : DropEntry(k)
    BY <1>5
  <2>2. del # <<>> /\ Len(del) \in Nat /\ Len(del) > 0
    BY <1>0, <1>5
  <2>3. Shrunk(del', del)
    BY <1>0, <2>1, <2>2, LessTodoKept, Zenon DEF DropEntry
  <2> QED
    BY <1>0, <2>2, <2>3 DEF Shrunk
<1>6. CASE \E k : Lower(k)
  <2>1. PICK k : Lower(k)
    BY <1>6
  <2>2. Len(del) \in Nat
    BY <1>0
  <2> QED
    BY <1>0, <2>1, <2>2 DEF Lower
<1>7. CASE DeleteNext
  <2>1. del # <<>> /\ Len(del) \in Nat /\ Len(del) > 0 /\ DOMAIN del = 1 .. Len(del) /\ del[1] \in Levels
    BY <1>0, <1>7 DEF DeleteNext
  <2>2. CASE \E e : del' = [del EXCEPT ![Len(del)].todo = @ \ {e}, ![Len(del)].kept = TRUE]
    <3>1. PICK e : del' = [del EXCEPT ![Len(del)].todo = @ \ {e}, ![Len(del)].kept = TRUE]
      BY <2>2
    <3>2. Shrunk(del', del)
      BY <1>0, <2>1, <3>1, LessTodoIsKept
    <3> QED
      BY <1>0, <2>1, <3>2 DEF Shrunk
  <2>3. CASE \E e, r : del' = Append([del EXCEPT ![Len(del)].todo = @ \ {e}], r)
    <3>1. PICK e, r : del' = Append([del EXCEPT ![Len(del)].todo = @ \ {e}], r)
      BY <2>3
    <3> DEFINE f == [del EXCEPT ![Len(del)].todo = @ \ {e}]
    <3>2. f \in Seq(Levels) /\ Len(f) = Len(del) /\ \A i \in 1 .. Len(del) : f[i].dir = del[i].dir
      BY <1>0, <2>1, LessTodo DEF Shrunk
    <3> HIDE DEF f
    <3>3. Append(f, r)[1] = f[1]
      BY <2>1, <3>2
    <3> QED
      BY <1>0, <2>1, <3>1, <3>2, <3>3 DEF f
  <2> QED
    BY <1>0, <1>6, <1>7, <2>2, <2>3, Zenon DEF DeleteNext
<1>8. CASE Look \/ CompareFirst \/ CompareLast \/ UnlinkEntry
  BY <1>0, <1>5, <1>8 DEF Look, CompareFirst, CompareLast, UnlinkEntry, KeepEntry
<1>9. CASE RemoveDir
  BY <1>6, <1>9 DEF RemoveDir
<1> QED
  BY <1>1, <1>2, <1>3, <1>4, <1>7, <1>8, <1>9, JobIs, Zenon DEF Aside

LEMMA RootStep ==
  ASSUME Base, OwnOK, MoveOK, RootOK, Thinks \/ Acts
  PROVE  RootOK'
<1>0. /\ WorldOK /\ JobOK /\ TaskOK /\ JobDid /\ sc' = sc
      /\ (pc \in Tasked => item \in Task) /\ (pc \notin {"root", "end"} => root \in Task)
      /\ frames \in Seq(Frame) /\ (pc \notin Copying => frames = <<>>)
      /\ (pc \in MakingDir => kind[item.id] = "dir")
  BY ThinksBase, ActsBase, JobScene DEF Base, MoveOK, JobOK, JobTyped, Sorted
<1>1. del' # <<>> => del'[1].dir = Top
  BY <1>0, DelBegins
<1>2. \A n \in Node : kind[n] # "none" => kind'[n] = kind[n]
  BY <1>0 DEF JobDid
<1>3. frames # <<>> => root.id \in Node /\ kind'[root.id] = "dir"
  BY <1>0, <1>2 DEF RootOK, Task
<1>4. CASE Onward
  BY <1>0, <1>1, <1>3, <1>4, OnwardDoes, OnwardNames DEF RootOK
<1>5. CASE Aside
  <2>1. pc' \notin Tasked /\ UNCHANGED root
    BY <1>0, <1>5, AsideDoes
  <2>2. frames' # <<>> => frames # <<>>
    <3>1. CASE Opened
      BY <3>1, <1>0 DEF Opened, Abandon, JobOK, JobTyped
    <3>2. CASE Unwind
      BY <3>2 DEF Unwind
    <3>3. CASE StopCopy \/ StopDelete \/ FinishRoot \/ Finish
      BY <3>3 DEF StopCopy, StopDelete, Stop, FinishRoot, Finish
    <3>4. CASE DeleteNext \/ Look \/ CompareFirst \/ CompareLast \/ UnlinkEntry \/ RemoveDir \/ RootGone
      BY <3>4 DEF DeleteNext, Look, CompareFirst, CompareLast, UnlinkEntry, RemoveDir, RootGone, removal
    <3> QED
      BY <1>5, <3>1, <3>2, <3>3, <3>4 DEF Aside
  <2> QED
    BY <1>1, <1>3, <2>1, <2>2 DEF RootOK
<1>6. CASE TakeRoot
  BY <1>0, <1>1, <1>6 DEF TakeRoot, RootOK
<1>7. CASE PlaceRoot
  <2>1. pc' = "root" \/ (item'.name = item.name /\ (pc' = "rename" => sc.move))
    BY <1>0, <1>7 DEF PlaceRoot, Leave, Task
  <2>2. pc = "place" /\ frames = <<>> /\ UNCHANGED <<root, frames>>
    BY <1>0, <1>7 DEF PlaceRoot
  <2> QED
    BY <1>0, <1>1, <2>1, <2>2 DEF RootOK
<1>8. CASE OpenDir
  <2>1. (frames' = <<>> /\ pc' \in {"walk", "finish"}) \/ frames' = frames
    BY <1>8 DEF OpenDir, Abandon, Leave
  <2>2. root' = root /\ pc = "opendir" /\ pc' \in {"walk", "finish", "mkdir"}
    BY <1>8 DEF OpenDir, Abandon, Leave
  <2>3. pc' = "mkdir" => item'.name = item.name
    BY <1>0, <1>8, <2>2 DEF OpenDir, Abandon, Leave, Task
  <2> QED
    BY <1>1, <1>3, <2>1, <2>2, <2>3 DEF RootOK
<1>9. CASE WalkEntry
  <2>1. frames # <<>> /\ root' = root /\ pc' # "rename"
    BY <1>9 DEF WalkEntry, Abandon, Leave
  <2>2. frames' # <<>> \/ pc' = "finish"
    BY <1>0, <1>9, WalkEntryDoes DEF Abandon, Leave, SameDirs
  <2> QED
    BY <1>1, <1>3, <2>1, <2>2 DEF RootOK
<1>10. CASE pc \in {"mkdir", "pin"} /\ \E d, c : Enter(d, c)
  <2>1. PICK d, c : Enter(d, c)
    BY <1>10
  <2>2. CASE Abandon
    BY <1>1, <2>2 DEF RootOK, Abandon, Leave
  <2>3. CASE frames # <<>> /\ root' = root /\ pc' = "opened"
    BY <1>1, <1>3, <2>3 DEF RootOK
  <2>4. CASE frames = <<>> /\ root' = [item EXCEPT !.new = d] /\ pc' = "opened"
    <3>1. root'.id = item.id /\ item.id \in Node /\ kind'[item.id] = "dir"
      BY <1>0, <1>2, <1>10, <2>4 DEF Task
    <3> QED
      BY <1>1, <2>4, <3>1 DEF RootOK
  <2> QED
    BY <2>1, <2>2, <2>3, <2>4 DEF Enter, Leave
<1>11. CASE MakeDir /\ ~\E d, c : Enter(d, c)
  <2>1. pc = "mkdir" /\ UNCHANGED <<root, frames>>
    BY <1>11, Zenon DEF MakeDir
  <2>2. pc' \in {"walk", "finish", "pin"} /\ (pc' = "pin" => item'.name = item.name)
    BY <1>0, <1>11, <2>1 DEF MakeDir, Leave, After, Task
  <2> QED
    BY <1>1, <1>3, <2>1, <2>2 DEF RootOK
<1>12. CASE PinDir /\ ~\E d, c : Enter(d, c)
  <2>1. pc = "pin" /\ UNCHANGED <<root, frames>> /\ pc' \in {"walk", "finish"}
    BY <1>12, Zenon DEF PinDir, Leave, After
  <2> QED
    BY <1>1, <1>3, <2>1 DEF RootOK
<1>13. CASE Build
  <2>1. pc = "build" /\ UNCHANGED <<root, frames>>
    BY <1>13 DEF Build, context
  <2>2. pc' \in {"walk", "finish", "read"} /\ (pc' = "read" => item'.name = item.name)
    BY <1>0, <1>13, <2>1 DEF Build, Leave, After, Task
  <2> QED
    BY <1>1, <1>3, <2>1, <2>2 DEF RootOK
<1>14. (MakeDir \/ PinDir) => pc \in {"mkdir", "pin"}
  BY DEF MakeDir, PinDir
<1> QED
  BY <1>4, <1>5, <1>6, <1>7, <1>8, <1>9, <1>10, <1>11, <1>12, <1>13, <1>14, JobIs, Zenon

\* A warning stays.
LEMMA JobGrumbles ==
  ASSUME Thinks \/ Acts
  PROVE  grumbled' = grumbled \/ grumbled' = TRUE
<1> USE DEF Complain, Abandon
<1>1. CASE TakeRoot \/ PlaceRoot \/ BeginCopy
  BY <1>1 DEF TakeRoot, PlaceRoot, BeginCopy, marks
<1>2. CASE OpenDir \/ Opened \/ Unwind
  BY <1>2 DEF OpenDir, Opened, Unwind, Persist, marks
<1>3. CASE WalkEntry
  BY <1>3 DEF WalkEntry, marks
<1>4. CASE OpenSource \/ Settle \/ ReadFirst \/ CloseCopy
  BY <1>4 DEF OpenSource, Settle, ReadFirst, CloseCopy, marks
<1>5. CASE FinishRoot \/ DeleteNext \/ Look
  BY <1>5 DEF FinishRoot, DeleteNext, Look, KeepEntry, marks
<1>6. CASE CompareFirst \/ CompareLast \/ RootGone \/ StopDelete \/ Finish
  BY <1>6 DEF CompareFirst, CompareLast, RootGone, StopDelete, Finish, KeepEntry, marks
<1>7. CASE TryRename
  BY <1>7 DEF TryRename, marks
<1>8. CASE MakeDir \/ PinDir
  BY <1>8 DEF MakeDir, PinDir, Enter, marks
<1>9. CASE Build \/ ReadLast \/ Verify \/ LinkUnnamed \/ Publish \/ CopyLink
  BY <1>9 DEF Build, ReadLast, Verify, LinkUnnamed, Publish, CopyLink, GiveUpFile, marks
<1>10. CASE StopCopy \/ UnlinkEntry \/ RemoveDir
  BY <1>10 DEF StopCopy, UnlinkEntry, RemoveDir, KeepEntry, marks
<1> QED
  BY <1>1, <1>2, <1>3, <1>4, <1>5, <1>6, <1>7, <1>8, <1>9, <1>10, Zenon DEF Thinks, Acts

-----------------------------------------------------------------------------
(* The steps that leave it so.                                             *)
\* What a step does to the selected trees when it leaves the calm undisturbed.
Quietly ==
    /\ Calm /\ sc' = sc /\ start' = start /\ Grown
    /\ \A n \in start.src : /\ kind'[n] = kind[n] /\ data'[n] = data[n]
                            /\ at[n] = Nowhere => at'[n] = Nowhere
\* A step of the others, of the clock, of the user, or none: the job rests.
Rests ==
    /\ UNCHANGED <<sc, pc, left, root, item, frames, del, ledger, ledgerFull, held, copied, made, result>>
    /\ \A n \in start.src : at'[n] = at[n]
    /\ \A n \in made : data'[n] = data[n]
    /\ \A n \in Node : kind[n] # "none" => kind'[n] = kind[n]

LEMMA QuietStep ==
  ASSUME Base, OwnOK, WriteOK, MoveOK, SourceOK, Calm', [Next]_vars
  PROVE  Quietly /\ (Thinks \/ Acts \/ Rests)
<1>0. WorldOK /\ JobOK /\ MarkedOK
  BY DEF Base, MoveOK
<1>1. CASE Thinks \/ Acts
  <2>1. JobDid /\ sc' = sc /\ start' = start /\ Grown
    BY <1>1, ThinksBase, ActsBase, JobScene, StartSame, JobGrows
  <2>2. ~grumbled
    <3>1. ~grumbled'
      BY DEF Calm
    <3>2. grumbled' = grumbled \/ grumbled' = TRUE
      BY <1>1, JobGrumbles
    <3> QED
      BY <3>1, <3>2, Zenon
  <2>a. theirs \cap (start.src \cup made) = {}
    <3>1. theirs' \cap (start'.src \cup made') = {}
      BY DEF Calm
    <3> QED
      BY <2>1, <3>1 DEF Grown
  <2>3. \A n \in start.src : /\ kind'[n] = kind[n] /\ data'[n] = data[n]
                             /\ at[n] = Nowhere => at'[n] = Nowhere
    <3> SUFFICES ASSUME NEW n \in start.src
                 PROVE  /\ kind'[n] = kind[n] /\ data'[n] = data[n]
                        /\ at[n] = Nowhere => at'[n] = Nowhere
      OBVIOUS
    <3>1. n \in Node /\ kind[n] # "none"
      BY <1>0, SourceKind
    <3>2. pc \in {"link0", "more"} => item.new # n
      BY DEF SourceOK
    <3> QED
      BY <2>1, <3>1, <3>2 DEF JobDid
  <2> QED
    BY <1>1, <2>1, <2>2, <2>a, <2>3 DEF Quietly, Calm
<1>2. CASE Others
  <2>1. OthersDid /\ UNCHANGED job
    BY <1>2, OthersBase
  <2>2. Grown /\ start' = start
    BY <1>0, <2>1, OthersMarked, StartSame DEF job
  <2>3. /\ UNCHANGED <<sc, pc, left, root, item, frames, del, ledger, ledgerFull, held, copied, made, result>>
        /\ grumbled' = grumbled
    BY <2>1 DEF job, ledgerVars, ghosts, marks
  <2>4. theirs \cap (start.src \cup made) = {} /\ theirs' \cap (start.src \cup made) = {}
    BY <2>2, <2>3 DEF Calm, Grown
  <2>5. \A n \in start.src : at'[n] = at[n] /\ kind'[n] = kind[n] /\ data'[n] = data[n]
    BY <1>0, <2>1, <2>4, SourceKind DEF OthersDid
  <2>6. \A n \in made : data'[n] = data[n]
    BY <2>1, <2>4 DEF OthersDid, OwnOK
  <2> QED
    BY <2>1, <2>2, <2>3, <2>4, <2>5, <2>6 DEF Quietly, Rests, Calm, OthersDid
<1>3. CASE Cancel \/ (Tick /\ UNCHANGED job) \/ UNCHANGED vars
  <2>1. /\ UNCHANGED <<sc, pc, left, root, item, frames, del, ledger, ledgerFull, held, copied, made, result>>
        /\ UNCHANGED <<at, kind, data, theirs, grumbled>>
    BY <1>3 DEF Cancel, Tick, job, vars, world, ledgerVars, ghosts, marks
  <2>2. Grown /\ start' = start
    BY <1>0, <1>3, <2>1, QuietWaits, StartSame DEF Waits
  <2> QED
    BY <2>1, <2>2 DEF Quietly, Rests, Calm
<1> QED
  BY <1>1, <1>2, <1>3, StepIs

LEMMA GoneKept ==
  ASSUME Quietly, NEW n \in start.src, Gone(n)
  PROVE  Gone(n)'
BY DEF Quietly, Gone, Grown

-----------------------------------------------------------------------------
(* Where the selected trees stand.                                         *)
\* An entry of them stands where it stood, or was reproduced; with a directory
\* everything in it was.
StandsOK == \A n \in start.src : at[n] = start.at[n] \/ Gone(n)
FamilyOK == \A n \in start.src : start.at[n][1] \in start.src /\ Gone(start.at[n][1]) => Gone(n)
\* Nothing is written over in a directory that may still hold entries of them.
Holds(d) == d = Top \/ (d \in start.src /\ ~Gone(d))
OutsideOK ==
    /\ \A i \in DOMAIN frames : ~Holds(frames[i].dst)
    /\ pc \in Tasked /\ frames = <<>> /\ Dst = Top => item.act = "create"
\* What was passed over or kept was complained of.
SilentOK ==
    /\ \A i \in DOMAIN frames : ~frames[i].changed
    /\ \A i \in DOMAIN del : ~del[i].kept
TreesOK == StandsOK /\ FamilyOK /\ OutsideOK /\ SilentOK

LEMMA NotInto ==
  ASSUME WorldOK, JobOK, TaskOK, StandsOK, FamilyOK, OutsideOK, Dst \notin start.src,
         pc \in Tasked, item.act # "create", NEW n \in start.src, at[n][1] = item.ddir
  PROVE  Gone(n)
<1> SUFFICES ASSUME ~Gone(n) PROVE FALSE
  OBVIOUS
<1>1. at[n] = start.at[n] /\ Holds(item.ddir)
  BY SourceFacts DEF StandsOK, FamilyOK, Holds
<1>2. item.ddir = Into
  BY DEF TaskOK
<1>3. CASE frames = <<>>
  BY <1>1, <1>2, <1>3 DEF Into, Holds, OutsideOK
<1>4. CASE frames # <<>>
  <2>1. Len(frames) \in DOMAIN frames
    BY <1>4 DEF JobOK, JobTyped
  <2> QED
    BY <1>1, <1>2, <1>4, <2>1 DEF Into, Inner, OutsideOK
<1> QED
  BY <1>3, <1>4

\* An entry vanishes when it was saved, when it is an empty directory, or when it
\* is written over.
LEMMA VanishesHow ==
  ASSUME Base, OwnOK, WriteOK, MoveOK, Acts, NEW v \in Node, Vanishes(v)
  PROVE  \/ sc.move /\ kind[v] = "dir" /\ Children(v) = {} /\ v \in copied
         \/ sc.move /\ kind[v] # "dir" /\ \E m \in Node : <<m, data[v]>> \in held
         \/ pc \in Tasked /\ item.act # "create" /\ at[v][1] = item.ddir
<1>0. /\ JobOK /\ WorldOK /\ TaskOK /\ made \subseteq Node
      /\ (pc \in Tasked => item \in Task /\ item.ddir = Into /\ item.id \in Node /\ item.ddir \in Node
                           /\ item.final \in Name)
  BY DEF Base, MoveOK, OwnOK, JobOK, JobTyped, TaskOK, Task
<1>1. CASE TryRename
  <2>1. pc = "rename" /\ item.ddir = Dst
    BY <1>0, <1>1 DEF TryRename, JobOK, JobTyped, Into
  <2>2. at' = Renamed(item.id, Dst, item.final) /\ ~RenameRefused
    BY <1>1, StaysTakes DEF TryRename, world
  <2>3. at[v] = <<Dst, item.final>> /\ Lookup(Dst, item.final) # None
    BY <1>0, <2>1, <2>2, RenameTakes
  <2> QED
    BY <2>1, <2>2, <2>3 DEF RenameRefused
<1>2. CASE Publish
  <2>1. pc = "publish" /\ item.new \in Node
    BY <1>0, <1>2 DEF Publish, JobOK, Sorted
  <2>2. /\ at' = Renamed(item.new, item.ddir, item.final)
        /\ StillOurs /\ (InPlace \/ MayPublish)
    BY <1>2, <2>1, StaysTakes, GivenUpTakes DEF Publish, GiveUpFile
  <2>3. v # item.new /\ at[v] = <<item.ddir, item.final>> /\ Target # None
    BY <1>0, <2>1, <2>2, RenameTakes DEF Target
  <2>4. ~InPlace
    BY <2>1, <2>2, <2>3 DEF StillOurs, InPlace, Base, WorldOK, WellPlaced, Vanishes
  <2> QED
    BY <2>1, <2>2, <2>3, <2>4 DEF MayPublish
<1>3. CASE CopyLink
  <2>1. /\ pc = "link" /\ Unused # {} /\ at' = Renamed(Spare, item.ddir, item.final)
        /\ Target # None => item.act = "overwrite"
    BY <1>3, StaysTakes DEF CopyLink, world
  <2>2. at[v] = <<item.ddir, item.final>> /\ Target # None
    BY <1>0, <2>1, SpareUnused, RenameTakes DEF Target
  <2> QED
    BY <2>1, <2>2
<1>4. CASE UnlinkEntry
  <2>1. pc = "unlink" /\ item \in Entries /\ item.id \in Node /\ del # <<>>
    BY <1>0, <1>4 DEF UnlinkEntry, JobOK, JobTyped, Entries
  <2>2. SourceMatches /\ at' = Unlinked(item.id)
    BY <1>4, StaysTakes DEF UnlinkEntry
  <2>3. v = item.id
    BY <1>0, <2>1, <2>2, UnlinkTakes
  <2>4. /\ item.kind \in {"file", "link"} /\ kind[v] = item.kind /\ item.did \in made
        /\ sc.move
    BY <2>1, <2>3 DEF MoveOK, RemovingOK, LookOK, DoneOK, EntryOK, LedgerOK
  <2>5. <<item.did, data[v]>> \in held
    BY <2>1, <2>2, <2>3, <2>4 DEF MoveOK, RemovingOK, LookOK, DoneOK, EntryOK, SourceMatches
  <2> QED
    BY <1>0, <2>4, <2>5
<1>5. CASE RemoveDir
  <2>1. Accounted(v) /\ at' = Unlinked(Level.dir)
    BY <1>5, RemoveDirAccounts, StaysTakes DEF RemoveDir
  <2>2. Level.dir \in Node
    <3>1. del \in Seq(Levels) /\ del # <<>>
      BY <1>0, <1>5 DEF RemoveDir, JobOK, JobTyped
    <3> QED
      BY <3>1, LevelTyped
  <2>3. ~Replaced(v)
    BY <1>0, <2>1, <2>2, UnlinkTakes, UnlinkedPlaces DEF Replaced, Vanishes, WorldOK, WellPlaced
  <2> QED
    BY <1>0, <2>1, <2>3, Zenon DEF Accounted, Saved
<1> QED
  BY <1>1, <1>2, <1>3, <1>4, <1>5, MakeDirKeeps, PinDirKeeps, BuildKeeps, WritingKeeps, Zenon DEF Acts

\* What comes to stand whole at the destination: a renamed tree, or a new entry.
LEMMA HeldHow ==
  ASSUME Base, Thinks \/ Acts, NEW n \in Node, NEW c, <<n, c>> \in held', <<n, c>> \notin held
  PROVE  \/ /\ TryRename /\ n \in Below(item.id)
            /\ held' = held \cup {<<m, data[m]>> : m \in Below(item.id)}
         \/ pc = "publish" /\ n = item.new
         \/ kind[n] = "none"
<1> USE DEF ghosts
<1>1. CASE TakeRoot \/ PlaceRoot \/ BeginCopy \/ OpenDir \/ Opened \/ WalkEntry
  BY <1>1, Zenon DEF TakeRoot, PlaceRoot, BeginCopy, OpenDir, Opened, WalkEntry
<1>2. CASE TryRename
  <2>1. held' = held \cup {<<m, data[m]>> : m \in Below(item.id)}
    BY <1>2 DEF TryRename
  <2> QED
    BY <1>2, <2>1
<1>3. CASE MakeDir \/ PinDir \/ Unwind \/ OpenSource \/ Settle \/ Build
  BY <1>3 DEF MakeDir, PinDir, Unwind, OpenSource, Settle, Build
<1>4. CASE ReadFirst \/ ReadLast \/ Verify \/ LinkUnnamed \/ CloseCopy \/ StopCopy
  BY <1>4 DEF ReadFirst, ReadLast, Verify, LinkUnnamed, CloseCopy, StopCopy
<1>5. CASE Publish
  BY <1>5 DEF Publish
<1>6. CASE CopyLink
  <2>1. Unused # {} /\ \E x : held' = held \cup {<<Spare, x>>}
    BY <1>6 DEF CopyLink
  <2> QED
    BY <2>1, SpareUnused
<1>7. CASE FinishRoot \/ DeleteNext \/ Look \/ CompareFirst \/ CompareLast \/ UnlinkEntry \/ RemoveDir
  BY <1>7 DEF FinishRoot, DeleteNext, Look, CompareFirst, CompareLast, UnlinkEntry, RemoveDir, removal
<1>8. CASE RootGone \/ StopDelete \/ Finish
  BY <1>8 DEF RootGone, StopDelete, Finish, removal
<1> QED
  BY <1>1, <1>2, <1>3, <1>4, <1>5, <1>6, <1>7, <1>8, Zenon DEF Thinks, Acts

\* What is known of the job before a step.
Ready == Base /\ OwnOK /\ WriteOK /\ MoveOK /\ SourceOK /\ RootOK

LEMMA RenamesOnly ==
  ASSUME Acts, pc = "rename"
  PROVE  TryRename
<1>1. CASE MakeDir \/ PinDir \/ Build \/ ReadLast \/ Verify \/ LinkUnnamed
  BY <1>1 DEF MakeDir, PinDir, Build, ReadLast, Verify, LinkUnnamed
<1>2. CASE Publish \/ CopyLink \/ StopCopy \/ UnlinkEntry \/ RemoveDir
  BY <1>2 DEF Publish, CopyLink, StopCopy, UnlinkEntry, RemoveDir
<1> QED
  BY <1>1, <1>2, Zenon DEF Acts

LEMMA StandsStep ==
  ASSUME Ready, SourceOK', TreesOK, Dst \notin start.src, Quietly, Thinks \/ Acts
  PROVE  StandsOK'
<1> SUFFICES ASSUME NEW n \in start.src
             PROVE  at'[n] = start.at[n] \/ Gone(n)'
  BY DEF StandsOK, Quietly
<1>0. /\ WorldOK /\ JobOK /\ TaskOK /\ n \in Node /\ kind[n] # "none" /\ n \notin made'
      /\ JobDid /\ (at[n] = start.at[n] \/ Gone(n))
  BY SourceKind, ThinksBase, ActsBase DEF Ready, Base, MoveOK, TreesOK, StandsOK, SourceOK, Quietly
<1>1. CASE at'[n] = at[n]
  BY <1>0, <1>1, GoneKept
<1>2. CASE at'[n] = Nowhere /\ at'[n] # at[n]
  <2>1. Acts /\ Vanishes(n)
    BY <1>0, <1>2, ThinksStays DEF Vanishes, world
  <2>2. \/ sc.move /\ kind[n] = "dir"
        \/ sc.move /\ kind[n] # "dir" /\ \E m \in Node : <<m, data[n]>> \in held
        \/ pc \in Tasked /\ item.act # "create" /\ at[n][1] = item.ddir
    BY <1>0, <2>1, VanishesHow DEF Ready
  <2>3. CASE pc \in Tasked /\ item.act # "create" /\ at[n][1] = item.ddir
    BY <1>0, <2>3, NotInto, GoneKept DEF TreesOK
  <2>4. CASE sc.move /\ (kind[n] # "dir" => \E m \in Node : <<m, data[n]>> \in held)
    BY <1>2, <2>4 DEF Quietly, Gone, Grown
  <2> QED
    BY <2>2, <2>3, <2>4
<1>3. CASE at'[n] \notin {at[n], Nowhere}
  <2>1. Acts
    BY <1>3, ThinksStays DEF world
  <2>2. pc = "rename" /\ n = item.id
    <3>1. pc \in {"pin", "link0", "publish"} => n # item.new
      BY DEF Ready, SourceOK
    <3> QED
      BY <1>0, <1>3, <3>1 DEF JobDid
  <2>3. TryRename /\ sc.move
    BY <2>1, <2>2, RenamesOnly DEF Ready, RootOK
  <2>4. held' = held \cup {<<m, data[m]>> : m \in Below(item.id)}
    BY <1>3, <2>3 DEF TryRename, world
  <2>5. n \in Below(item.id)
    BY <1>0, <2>2, SelfAbove DEF Below
  <2> QED
    BY <2>3, <2>4, <2>5 DEF Gone, Quietly
<1> QED
  BY <1>1, <1>2, <1>3

\* Over an entry that stands where it stood, so do its directories, up to Top.
LEMMA StandsUp ==
  ASSUME WorldOK, SourceOK, StandsOK, FamilyOK, NEW n \in start.src, ~Gone(n)
  PROVE  Top \in Ancestors(n)
<1> DEFINE Q == {q \in Node : Holds(q)}
<1>1. Top \in Node /\ start.at[Top] = Nowhere /\ at[Top] = Nowhere
  BY NodeAssumption, LayoutFacts DEF SourceOK
<1>2. \A q \in Q : at[q] = start.at[q] /\ (at[q] # Nowhere => at[q][1] \in Q)
  BY <1>1, SourceFacts DEF Holds, StandsOK, FamilyOK
<1>3. n \in Q
  BY SourceFacts DEF Holds
<1> HIDE DEF Q
<1>4. ASSUME NEW S, S \subseteq Q
      PROVE  UpIn(start.at, S) \subseteq Q /\ UpIn(start.at, S) = UpIn(at, S)
  BY <1>2, <1>4 DEF UpIn
<1>5. AncestorsIn(start.at, n) = AncestorsIn(at, n)
  BY <1>3, <1>4, ClimbAlike
<1> QED
  BY <1>5, LayoutFacts DEF Ancestors

LEMMA FamilyStep ==
  ASSUME Ready, SourceOK', TreesOK, Dst \notin start.src, Quietly, Thinks \/ Acts
  PROVE  FamilyOK'
<1>0. /\ WorldOK /\ JobOK /\ TaskOK /\ SourceOK /\ StandsOK /\ FamilyOK
  BY DEF Ready, Base, MoveOK, TreesOK
<1> SUFFICES ASSUME NEW n \in start.src, NEW p \in start.src, p = start.at[n][1], Gone(p)', ~Gone(n)
             PROVE  Gone(n)'
  BY GoneKept DEF FamilyOK, Quietly
<1>1. /\ ~Gone(p) /\ at[n] = start.at[n] /\ at[p] = start.at[p]
      /\ at[n] # Nowhere /\ at[p] # Nowhere /\ at[n][1] = p /\ n \in Node /\ p \in Node
      /\ kind[p] = "dir" /\ kind'[p] = "dir" /\ data'[p] = data[p] /\ data'[n] = data[n]
      /\ p \notin made' /\ sc' = sc
  BY <1>0, SourceFacts, SourceKind DEF FamilyOK, StandsOK, Quietly, SourceOK
<1>3. CASE at'[p] = Nowhere
  <2>1. Acts /\ Vanishes(p)
    BY <1>1, <1>3, ThinksStays DEF Vanishes, world
  <2>2. \/ Children(p) = {}
        \/ pc \in Tasked /\ item.act # "create" /\ at[p][1] = item.ddir
    BY <1>1, <2>1, VanishesHow DEF Ready
  <2>3. n \in Children(p)
    BY <1>1 DEF Children
  <2> QED
    BY <1>0, <1>1, <2>2, <2>3, NotInto DEF TreesOK
<1>4. CASE at'[p] # Nowhere
  <2>1. sc.move /\ <<p, data[p]>> \in held' /\ <<p, data[p]>> \notin held
    BY <1>1, <1>4 DEF Gone
  <2>2. /\ TryRename /\ p \in Below(item.id)
        /\ held' = held \cup {<<m, data[m]>> : m \in Below(item.id)}
    <3>1. pc = "publish" => p # item.new
      BY <1>1 DEF Ready, SourceOK
    <3> QED
      BY <1>1, <2>1, <3>1, HeldHow DEF Ready
  <2>3. Ancestors(p) \subseteq Ancestors(n)
    <3>1. Top \in AncestorsIn(at, n)
      BY <1>0, StandsUp DEF Ancestors
    <3>2. AncestorsIn(at, at[n][1]) \subseteq AncestorsIn(at, n)
      BY <1>0, <1>1, <3>1, AboveParent DEF SourceOK
    <3> QED
      BY <1>1, <3>2 DEF Ancestors
  <2>4. n \in Below(item.id)
    BY <1>1, <2>2, <2>3 DEF Below
  <2> QED
    BY <1>1, <2>1, <2>2, <2>4 DEF Gone
<1> QED
  BY <1>3, <1>4

-----------------------------------------------------------------------------
(* The frames of the walk and the levels of a removal, while nothing is    *)
(* complained of.                                                          *)
\* What a step that does not complain does to the frames.
NewFrame(d, c) == [src |-> item.id, dst |-> d, mode |-> item.mode, changed |-> FALSE,
                   created |-> c, todo |-> {}]
Refills(t) == frames # <<>> /\ frames' = [frames EXCEPT ![Len(frames)].todo = t]
Unwinds == frames # <<>> /\ frames' = SubSeq(frames, 1, Len(frames) - 1)

LEMMA RefillsDoes ==
  ASSUME frames \in Seq(Frame), NEW t, t \subseteq Name, Refills(t)
  PROVE  /\ Len(frames) \in Nat /\ Len(frames) > 0 /\ DOMAIN frames = 1 .. Len(frames)
         /\ frames' \in Seq(Frame) /\ frames' # <<>>
         /\ Len(frames') = Len(frames) /\ DOMAIN frames' = DOMAIN frames
         /\ \A i \in DOMAIN frames :
               /\ frames'[i].src = frames[i].src /\ frames'[i].dst = frames[i].dst
               /\ frames'[i].changed = frames[i].changed
               /\ frames'[i].todo = IF i = Len(frames) THEN t ELSE frames[i].todo
<1>1. /\ frames' \in Seq(Frame) /\ frames' # <<>> /\ DOMAIN frames' = DOMAIN frames
      /\ Len(frames') = Len(frames)
  BY TodoSet DEF Refills
<1>2. Len(frames) \in Nat /\ Len(frames) > 0 /\ DOMAIN frames = 1 .. Len(frames)
  BY DEF Refills
<1>3. \A i \in DOMAIN frames : frames[i] \in Frame
  OBVIOUS
<1>4. \A i \in DOMAIN frames :
               /\ frames'[i].src = frames[i].src /\ frames'[i].dst = frames[i].dst
               /\ frames'[i].changed = frames[i].changed
               /\ frames'[i].todo = IF i = Len(frames) THEN t ELSE frames[i].todo
  BY <1>2, <1>3 DEF Refills, Frame
<1> QED
  BY <1>1, <1>2, <1>4

LEMMA UnwindsDoes ==
  ASSUME frames \in Seq(Frame), Unwinds
  PROVE  /\ Len(frames) \in Nat /\ Len(frames) > 0 /\ DOMAIN frames = 1 .. Len(frames)
         /\ Len(frames') = Len(frames) - 1 /\ DOMAIN frames' = 1 .. Len(frames) - 1
         /\ \A i \in DOMAIN frames' : i \in DOMAIN frames /\ frames'[i] = frames[i]
<1>1. Len(frames) \in Nat /\ Len(frames) > 0 /\ DOMAIN frames = 1 .. Len(frames)
  BY DEF Unwinds
<1>2. frames' = [i \in 1 .. Len(frames) - 1 |-> frames[i]]
  BY <1>1 DEF Unwinds
<1> QED
  BY <1>1, <1>2

LEMMA InnerFrame ==
  ASSUME frames \in Seq(Frame), frames # <<>>
  PROVE  /\ Len(frames) \in DOMAIN frames /\ Inner \in Frame /\ Inner = frames[Len(frames)]
         /\ Inner.src \in Node /\ Inner.dst \in Node /\ Inner.todo \subseteq Name
<1>1. Len(frames) \in DOMAIN frames
  OBVIOUS
<1>2. frames[Len(frames)] \in Frame
  BY <1>1
<1> QED
  BY <1>1, <1>2 DEF Inner, Frame

\* The walk takes up the next entry, or finds it gone.
LEMMA WalkQuiet ==
  ASSUME WorldOK, JobOK, SilentOK, WalkEntry, ~grumbled'
  PROVE  \E x \in Inner.todo :
            /\ Refills(Inner.todo \ {x}) /\ pc = "walk"
            /\ \/ Lookup(Inner.src, x) = None /\ pc' = "walk" /\ item' = item
               \/ Taken(x, Lookup(Inner.src, x))
<1>1. ~Complain /\ ~Abandon
  BY DEF Complain, Abandon
<1>5. ~\E first \in {i \in DOMAIN frames : frames[i].changed} : TRUE
  BY DEF SilentOK
<1>2. PICK x \in Inner.todo :
        LET n == Lookup(Inner.src, x)
            rest == [frames EXCEPT ![Len(frames)].todo = @ \ {x}]
            p == Place(Inner.dst, x, kind[n])
        IN  \/ n = None /\ frames' = rest /\ UNCHANGED <<pc, item>>
            \/ /\ n # None /\ p.act # "skip"
               /\ frames' = rest
               /\ item' = [Entry(n, Inner.src, x, Inner.dst) EXCEPT !.final = p.name, !.act = p.act]
               /\ pc' = CASE kind[n] = "dir" -> "opendir"
                          [] kind[n] = "link" -> "link"
                          [] OTHER -> "open"
  BY <1>1, <1>5, Zenon DEF WalkEntry
<1>3. frames # <<>> /\ pc = "walk"
  BY DEF WalkEntry
<1>4. [frames EXCEPT ![Len(frames)].todo = @ \ {x}] = [frames EXCEPT ![Len(frames)].todo = Inner.todo \ {x}]
  BY <1>3 DEF Inner
<1>6. CASE Lookup(Inner.src, x) = None /\ frames' = [frames EXCEPT ![Len(frames)].todo = @ \ {x}] /\ UNCHANGED <<pc, item>>
  BY <1>3, <1>4, <1>6 DEF Refills
<1>7. CASE Taken(x, Lookup(Inner.src, x)) /\ frames' = [frames EXCEPT ![Len(frames)].todo = @ \ {x}]
  BY <1>3, <1>4, <1>7 DEF Refills
<1> QED
  BY <1>2, <1>6, <1>7 DEF Taken

\* A directory is entered: no entry of the selected trees that still stands.
LEMMA EntersOutside ==
  ASSUME Ready, TreesOK, Dst \notin start.src, MakeDir \/ PinDir, NEW d, NEW c, Enter(d, c),
         MakeDir => d = Lookup(item.ddir, item.final) /\ d \in Dirs /\ item.act = "merge",
         PinDir => d = item.new
  PROVE  d \in Node /\ ~Holds(d)
<1>0. WorldOK /\ JobOK /\ TaskOK /\ SourceOK /\ StandsOK /\ FamilyOK /\ OutsideOK
  BY DEF Ready, Base, MoveOK, TreesOK
<1>1. CASE MakeDir
  <2>1. d \in Node /\ at[d] = <<item.ddir, item.final>> /\ pc = "mkdir" /\ item.act = "merge"
    BY <1>1, NodeAssumption, LookupFound DEF MakeDir, Dirs
  <2>2. d # Top
    BY <1>0, <2>1 DEF SourceOK, Nowhere
  <2> QED
    BY <1>0, <2>1, <2>2, NotInto DEF Holds
<1>2. CASE PinDir
  BY <1>0, <1>2 DEF PinDir, JobOK, Sorted, SourceOK, Holds
<1> QED
  BY <1>1, <1>2

LEMMA FramesHow ==
  ASSUME Ready, TreesOK, Dst \notin start.src, Thinks \/ Acts, ~grumbled'
  PROVE  \/ frames' = frames \/ frames' = <<>> \/ Unwinds
         \/ \E t \in SUBSET Name : Refills(t)
         \/ \E d \in Node, c \in BOOLEAN : /\ pc \in {"mkdir", "pin"} /\ pc' = "opened" /\ ~Holds(d)
                                           /\ copied' = copied \cup {item.id}
                                           /\ frames' = Append(frames, NewFrame(d, c))
<1>0. WorldOK /\ JobOK /\ SilentOK /\ ~Complain /\ ~Abandon /\ frames \in Seq(Frame)
  BY DEF Ready, Base, TreesOK, JobOK, JobTyped, Complain, Abandon
<1>1. CASE Onward
  BY <1>0, <1>1, OnwardDoes
<1>2. CASE TakeRoot \/ PlaceRoot \/ OpenDir \/ Build
  BY <1>0, <1>2, Zenon DEF TakeRoot, PlaceRoot, OpenDir, Build, context
<1>3. CASE WalkEntry
  <2>1. PICK x \in Inner.todo : Refills(Inner.todo \ {x})
    BY <1>0, <1>3, WalkQuiet
  <2>3. Inner.todo \subseteq Name
    BY <1>0, <2>1, InnerFrame DEF Refills
  <2> QED
    BY <2>1, <2>3
<1>4. CASE Opened
  <2> DEFINE t == {at[m][2] : m \in Children(Inner.src)}
  <2>1. frames' = [frames EXCEPT ![Len(frames)].todo = t] /\ pc = "opened"
    BY <1>0, <1>4, Zenon DEF Opened
  <2>2. t \subseteq Name
    <3> SUFFICES ASSUME NEW m \in Node, at[m] # Nowhere, at[m][1] = Inner.src
                 PROVE  at[m][2] \in Name
      BY DEF Children
    <3>1. at[m][2] \in Name \cup {Temp}
      BY <1>0, PlaceParts DEF WorldOK, WellPlaced
    <3>2. Inner.src \in Node
      BY <1>0, <2>1, InnerFrame DEF JobOK, JobTyped
    <3>3. Inner.src # Stage
      BY <3>2, NodeAssumption
    <3> QED
      BY <1>0, <2>1, <3>1, <3>3 DEF JobOK, TempIs
  <2>3. frames # <<>>
    BY <1>0, <2>1 DEF JobOK, JobTyped
  <2> HIDE DEF t
  <2> QED
    BY <2>1, <2>2, <2>3 DEF Refills
<1>5. CASE Unwind
  BY <1>5 DEF Unwind, Unwinds
<1>6. CASE StopCopy \/ StopDelete
  BY <1>6 DEF StopCopy, StopDelete, Stop
<1>7. CASE FinishRoot \/ DeleteNext \/ Look \/ CompareFirst \/ CompareLast \/ UnlinkEntry \/ RemoveDir \/ RootGone \/ Finish
  BY <1>7 DEF FinishRoot, DeleteNext, Look, CompareFirst, CompareLast, UnlinkEntry, RemoveDir, RootGone,
              Finish, removal
<1>8. ASSUME MakeDir \/ PinDir, NEW d, NEW c, Enter(d, c), c \in BOOLEAN,
             MakeDir => d = Lookup(item.ddir, item.final) /\ d \in Dirs /\ item.act = "merge",
             PinDir => d = item.new
      PROVE  \E e \in Node, b \in BOOLEAN : /\ pc \in {"mkdir", "pin"} /\ pc' = "opened" /\ ~Holds(e)
                                            /\ copied' = copied \cup {item.id}
                                            /\ frames' = Append(frames, NewFrame(e, b))
  <2>1. d \in Node /\ ~Holds(d)
    BY <1>8, EntersOutside
  <2>2. pc \in {"mkdir", "pin"}
    BY <1>8 DEF MakeDir, PinDir
  <2>3. /\ pc' = "opened" /\ copied' = copied \cup {item.id}
        /\ frames' = Append(frames, NewFrame(d, c))
    BY <1>0, <1>8 DEF Enter, Leave, NewFrame
  <2> QED
    BY <1>8, <2>1, <2>2, <2>3
<1>9. CASE MakeDir
  <2>1. CASE frames' = frames
    BY <2>1
  <2>2. CASE frames' # frames
    <3>1. Enter(Lookup(item.ddir, item.final), FALSE) /\ Lookup(item.ddir, item.final) \in Dirs /\ item.act = "merge"
      BY <1>9, <2>2, Zenon DEF MakeDir
    <3>2. ~PinDir
      BY <1>9 DEF MakeDir, PinDir
    <3> QED
      BY <1>8, <1>9, <3>1, <3>2
  <2> QED
    BY <2>1, <2>2
<1>10. CASE PinDir
  <2>1. CASE frames' = frames
    BY <2>1
  <2>2. CASE frames' # frames
    <3>1. Enter(item.new, TRUE)
      BY <1>10, <2>2, Zenon DEF PinDir
    <3>2. ~MakeDir
      BY <1>10 DEF MakeDir, PinDir
    <3> QED
      BY <1>8, <1>10, <3>1, <3>2
  <2> QED
    BY <2>1, <2>2
<1> QED
  BY <1>1, <1>2, <1>3, <1>4, <1>5, <1>6, <1>7, <1>9, <1>10, JobIs, Zenon DEF Aside

\* What a step that does not complain does to the levels of the removal: the
\* lower ones keep what they are, and the highest loses the entry x at most.
Trimmed(k, x) ==
    \A i \in 1 .. k : /\ del'[i].dir = del[i].dir /\ del'[i].entry = del[i].entry /\ ~del'[i].kept
                      /\ del'[i].todo = IF i = Len(del) THEN del[i].todo \ {x} ELSE del[i].todo
\* The removal of a root begins, it is done with an entry, goes down into a
\* directory, or comes up again.
Begins ==
    /\ pc = "finish" /\ pc' = "delete" /\ sc.move /\ ~ledgerFull /\ Lookup(Top, root.name) = root.id
    /\ Len(del') = 1 /\ del'[1].dir = Top /\ ~del'[1].kept /\ del'[1].todo = RootEntries
Drops ==
    /\ pc \in Looking /\ pc' = "delete" /\ Len(del') = Len(del) /\ Trimmed(Len(del), item)
    /\ Lookup(Level.dir, item.name) = None \/ at' = Unlinked(item.id)
Enters(e) ==
    /\ pc = "delete" /\ pc' = pc /\ e \in Level.todo /\ Lookup(Level.dir, e.name) = e.id
    /\ Len(del') = Len(del) + 1 /\ Trimmed(Len(del), e)
    /\ del'[Len(del) + 1].dir = e.id /\ del'[Len(del) + 1].entry = e.name /\ ~del'[Len(del) + 1].kept
Rises ==
    /\ pc = "delete" /\ pc' = pc /\ Len(del) > 1 /\ Len(del') = Len(del) - 1 /\ Trimmed(Len(del) - 1, None)
    /\ Lookup(del[Len(del) - 1].dir, Level.entry) = None \/ at' = Unlinked(Level.dir)

LEMMA DropTrims ==
  ASSUME JobOK, SilentOK, pc \in Looking, DropEntry(FALSE)
  PROVE  Len(del') = Len(del) /\ Trimmed(Len(del), item)
<1> DEFINE q == Level.kept \/ FALSE
           r == [Level EXCEPT !.todo = Level.todo \ {item}, !.kept = q]
<1>1. /\ Len(del) \in Nat /\ Len(del) > 0 /\ DOMAIN del = 1 .. Len(del) /\ Level \in Levels
      /\ Level = del[Len(del)] /\ del \in Seq(Levels)
  BY RemovingTyped, LevelTyped
<1>2. q \in BOOLEAN /\ ~q
  BY <1>1 DEF SilentOK
<1>3. del' = [del EXCEPT ![Len(del)] = r]
  BY <1>1 DEF DropEntry, Level
<1> HIDE DEF q
<1>4. /\ r.dir = Level.dir /\ r.entry = Level.entry /\ r.todo = Level.todo \ {item} /\ ~r.kept
  BY <1>1, <1>2 DEF Levels
<1> HIDE DEF r
<1>5. \A i \in 1 .. Len(del) : del'[i] = IF i = Len(del) THEN r ELSE del[i]
  BY <1>1, <1>3
<1>6. Len(del') = Len(del)
  BY <1>1, <1>3
<1> QED
  BY <1>1, <1>4, <1>5, <1>6 DEF Trimmed, SilentOK

LEMMA LowerTrims ==
  ASSUME del \in Seq(Levels), Len(del) > 1, SilentOK, NEW k \in BOOLEAN, ~k, Lower(k)
  PROVE  Len(del') = Len(del) - 1 /\ Trimmed(Len(del) - 1, None)
<1> DEFINE n == Len(del) - 1
           q == del[n].kept \/ k
           r == [del[n] EXCEPT !.kept = q]
<1>1. n \in Nat /\ n > 0 /\ n \in 1 .. n /\ n < Len(del) /\ \A i \in 1 .. n : del[i] \in Levels /\ i \in DOMAIN del
  OBVIOUS
<1>2. del' = [i \in 1 .. n |-> IF i = n THEN r ELSE del[i]]
  BY DEF Lower
<1>3. q \in BOOLEAN /\ ~q
  BY <1>1 DEF SilentOK
<1> HIDE DEF q
<1>4. r.dir = del[n].dir /\ r.entry = del[n].entry /\ r.todo = del[n].todo /\ ~r.kept
  BY <1>1, <1>3 DEF Levels
<1>5. Len(del') = n
  BY <1>1, <1>2
<1> HIDE DEF r, n
<1>6. \A i \in 1 .. n : /\ del'[i].dir = del[i].dir /\ del'[i].entry = del[i].entry /\ ~del'[i].kept
                        /\ del'[i].todo = del[i].todo /\ i # Len(del)
  BY <1>1, <1>2, <1>4 DEF SilentOK
<1> QED
  BY <1>5, <1>6 DEF Trimmed, n

LEMMA NextTrims ==
  ASSUME del \in Seq(Levels), del # <<>>, SilentOK, NEW e, NEW r,
         del' = Append([del EXCEPT ![Len(del)].todo = @ \ {e}], r)
  PROVE  Len(del') = Len(del) + 1 /\ del'[Len(del) + 1] = r /\ (~r.kept => Trimmed(Len(del), e))
<1> DEFINE f == [del EXCEPT ![Len(del)].todo = @ \ {e}]
           s == [Level EXCEPT !.todo = Level.todo \ {e}]
<1>1. /\ Len(del) \in Nat /\ Len(del) > 0 /\ DOMAIN del = 1 .. Len(del) /\ Level \in Levels
      /\ Level = del[Len(del)]
  BY LevelTyped
<1>2. f = [del EXCEPT ![Len(del)] = s]
  BY <1>1 DEF Level
<1>3. s.dir = Level.dir /\ s.entry = Level.entry /\ s.todo = Level.todo \ {e} /\ s.kept = Level.kept /\ s \in Levels
  BY <1>1 DEF Levels
<1> HIDE DEF s
<1>8. f = [i \in 1 .. Len(del) |-> IF i = Len(del) THEN s ELSE del[i]]
  BY <1>1, <1>2
<1>9. \A i \in 1 .. Len(del) : del[i] \in Levels
  BY <1>1
<1>4. f \in Seq(Levels) /\ Len(f) = Len(del) /\ \A i \in 1 .. Len(del) : f[i] = IF i = Len(del) THEN s ELSE del[i]
  <2> HIDE DEF f
  <2>1. f \in [1 .. Len(del) -> Levels]
    BY <1>1, <1>3, <1>8, <1>9
  <2>2. f \in Seq(Levels) /\ Len(f) = Len(del)
    BY <1>1, <2>1
  <2>3. \A i \in 1 .. Len(del) : f[i] = IF i = Len(del) THEN s ELSE del[i]
    BY <1>8
  <2> QED
    BY <2>2, <2>3
<1>5. del' = Append(f, r)
  OBVIOUS
<1> HIDE DEF f
<1>10. Len(Append(f, r)) = Len(f) + 1 /\ Append(f, r)[Len(f) + 1] = r /\ \A i \in 1 .. Len(f) : Append(f, r)[i] = f[i]
  BY <1>4
<1>6. Len(del') = Len(del) + 1 /\ del'[Len(del) + 1] = r /\ \A i \in 1 .. Len(del) : del'[i] = f[i]
  BY <1>4, <1>5, <1>10, Zenon
<1>7. Trimmed(Len(del), e)
  BY <1>1, <1>3, <1>4, <1>6, Zenon DEF Trimmed, SilentOK
<1> QED
  BY <1>6, <1>7

LEMMA DelHow ==
  ASSUME Base, SilentOK, Thinks \/ Acts, ~grumbled'
  PROVE  \/ del' = del /\ (pc \in Removing => pc' \in Removing)
         \/ del' = <<>>
         \/ Begins \/ Drops \/ Rises \/ \E e : Enters(e)
<1>0. JobOK /\ ~Complain /\ ~KeepEntry /\ (pc \in Removing <=> del # <<>>) /\ del \in Seq(Levels)
  BY Zenon DEF Base, Complain, KeepEntry, JobOK, JobTyped
<1>1. CASE TakeRoot \/ PlaceRoot \/ OpenDir \/ WalkEntry \/ Opened \/ Unwind
  BY <1>1, Zenon DEF TakeRoot, PlaceRoot, OpenDir, WalkEntry, Opened, Unwind, ledgerVars
<1>2. CASE MakeDir \/ PinDir \/ Build \/ StopCopy \/ StopDelete \/ Finish \/ RootGone
  BY <1>2 DEF MakeDir, PinDir, Build, StopCopy, StopDelete, Finish, RootGone, Stop, context, ledgerVars
<1>3. CASE Onward
  BY <1>0, <1>3, OnwardDoes
<1>4. CASE FinishRoot
  <2>1. CASE del' = del
    BY <1>0, <1>4, <2>1 DEF FinishRoot
  <2>2. CASE del' # del
    <3> DEFINE r == [dir |-> Top, dst |-> Dst, mode |-> 0, entry |-> None,
                     kept |-> FALSE, todo |-> RootEntries]
    <3>1. /\ pc = "finish" /\ pc' = "delete" /\ sc.move /\ ~ledgerFull /\ Lookup(Top, root.name) = root.id
          /\ del' = <<r>>
      BY <1>0, <1>4, <2>2, Zenon DEF FinishRoot
    <3>2. r.dir = Top /\ ~r.kept /\ r.todo = RootEntries
      OBVIOUS
    <3> HIDE DEF r
    <3> QED
      BY <3>1, <3>2 DEF Begins
  <2> QED
    BY <2>1, <2>2
<1>5. CASE Look \/ CompareFirst \/ CompareLast \/ UnlinkEntry
  <2>1. pc \in Looking /\ \/ del' = del /\ pc' \in Removing
                          \/ DropEntry(FALSE) /\ Lookup(Level.dir, item.name) = None
                          \/ DropEntry(FALSE) /\ at' = Unlinked(item.id)
    BY <1>0, <1>5 DEF Look, CompareFirst, CompareLast, UnlinkEntry
  <2>2. CASE DropEntry(FALSE) /\ (Lookup(Level.dir, item.name) = None \/ at' = Unlinked(item.id))
    <3>1. Len(del') = Len(del) /\ Trimmed(Len(del), item) /\ pc' = "delete"
      BY <1>0, <2>1, <2>2, DropTrims DEF DropEntry
    <3> QED
      BY <2>1, <2>2, <3>1 DEF Drops
  <2> QED
    BY <2>1, <2>2
<1>6. CASE RemoveDir
  <2>1. /\ pc = "delete" /\ pc' = pc /\ Len(del) > 1 /\ del # <<>>
        /\ \/ Lower(Level.kept) /\ Lookup(del[Len(del) - 1].dir, Level.entry) = None
           \/ Lower(Level.kept) /\ at' = Unlinked(Level.dir)
           \/ Level.kept
    BY <1>0, <1>6, Zenon DEF RemoveDir
  <2>2. Level.kept \in BOOLEAN /\ ~Level.kept
    <3>1. Len(del) \in DOMAIN del
      BY <1>0, <2>1
    <3> QED
      BY <1>0, <2>1, <3>1, LevelTyped DEF SilentOK, Levels
  <2>3. Len(del') = Len(del) - 1 /\ Trimmed(Len(del) - 1, None)
    BY <1>0, <2>1, <2>2, LowerTrims
  <2> QED
    BY <2>1, <2>2, <2>3 DEF Rises
<1>7. CASE DeleteNext
  <2>1. pc = "delete" /\ pc' \in {"delete", "look"} /\ del # <<>>
    BY <1>0, <1>7 DEF DeleteNext
  <2>2. CASE del' = del
    BY <2>1, <2>2
  <2>3. CASE del' # del
    <3>1. PICK e \in Level.todo :
             LET n == Lookup(Level.dir, e.name)
                 d == Lookup(Level.dst, e.dname)
             IN  /\ StillTheRecorded(n, e) /\ pc' = pc
                 /\ del' = Append([del EXCEPT ![Len(del)].todo = @ \ {e}],
                          [dir |-> n, dst |-> d, mode |-> e.seen, entry |-> e.name,
                           kept |-> FALSE, todo |-> {x \in ledger : x.dir = n}])
      BY <1>0, <1>7, <2>3, Zenon DEF DeleteNext
    <3> DEFINE r == [dir |-> Lookup(Level.dir, e.name), dst |-> Lookup(Level.dst, e.dname), mode |-> e.seen,
                     entry |-> e.name, kept |-> FALSE, todo |-> {x \in ledger : x.dir = Lookup(Level.dir, e.name)}]
    <3>2. Lookup(Level.dir, e.name) = e.id /\ r.dir = e.id /\ r.entry = e.name /\ ~r.kept
      BY <3>1 DEF StillTheRecorded
    <3>3. del' = Append([del EXCEPT ![Len(del)].todo = @ \ {e}], r)
      BY <3>1
    <3> HIDE DEF r
    <3>4. Len(del') = Len(del) + 1 /\ del'[Len(del) + 1] = r /\ Trimmed(Len(del), e)
      BY <1>0, <2>1, <3>2, <3>3, NextTrims
    <3>5. Enters(e)
      BY <2>1, <3>1, <3>2, <3>4 DEF Enters
    <3> QED
      BY <3>5
  <2> QED
    BY <2>2, <2>3
<1> QED
  BY <1>1, <1>2, <1>3, <1>4, <1>5, <1>6, <1>7, JobIs, Zenon DEF Aside

LEMMA SilentStep ==
  ASSUME Ready, TreesOK, Dst \notin start.src, Thinks \/ Acts, ~grumbled'
  PROVE  SilentOK'
<1>0. Base /\ SilentOK /\ frames \in Seq(Frame) /\ del \in Seq(Levels) /\ del' \in Seq(Levels)
  BY ThinksBase, ActsBase DEF Ready, Base, TreesOK, JobOK, JobTyped
<1>1. \A i \in DOMAIN frames' : ~frames'[i].changed
  <2>1. CASE \E d \in Node, c \in BOOLEAN : frames' = Append(frames, NewFrame(d, c))
    <3>1. PICK d \in Node, c \in BOOLEAN : frames' = Append(frames, NewFrame(d, c))
      BY <2>1
    <3> DEFINE r == NewFrame(d, c)
    <3>2. ~r.changed
      BY DEF NewFrame
    <3> HIDE DEF r
    <3>3. \A i \in 1 .. Len(frames) + 1 : Append(frames, r)[i] = IF i = Len(frames) + 1 THEN r ELSE frames[i]
      BY <1>0
    <3> QED
      BY <1>0, <3>1, <3>2, <3>3 DEF SilentOK, r
  <2>2. CASE Unwinds
    BY <1>0, <2>2, UnwindsDoes DEF SilentOK
  <2>3. CASE \E t \in SUBSET Name : Refills(t)
    BY <1>0, <2>3, RefillsDoes DEF SilentOK
  <2> QED
    BY <1>0, <2>1, <2>2, <2>3, FramesHow DEF SilentOK
<1>2. \A i \in DOMAIN del' : ~del'[i].kept
  <2>0. Len(del) \in Nat /\ Len(del') \in Nat /\ DOMAIN del = 1 .. Len(del) /\ DOMAIN del' = 1 .. Len(del')
    BY <1>0
  <2>1. CASE Begins
    BY <2>0, <2>1 DEF Begins
  <2>2. CASE Drops
    BY <2>0, <2>2 DEF Drops, Trimmed
  <2>3. CASE Rises
    BY <2>0, <2>3 DEF Rises, Trimmed
  <2>4. CASE \E e : Enters(e)
    <3>1. Len(del') = Len(del) + 1 /\ ~del'[Len(del) + 1].kept /\ \A i \in 1 .. Len(del) : ~del'[i].kept
      BY <2>4 DEF Enters, Trimmed
    <3> QED
      BY <2>0, <3>1
  <2>5. CASE del' = <<>> \/ del' = del
    BY <1>0, <2>5 DEF SilentOK
  <2> QED
    BY <1>0, <2>1, <2>2, <2>3, <2>4, <2>5, DelHow
<1> QED
  BY <1>1, <1>2 DEF SilentOK

LEMMA HoldsLess ==
  ASSUME Quietly, NEW d, ~Holds(d)
  PROVE  ~Holds(d)'
BY GoneKept DEF Quietly, Holds

LEMMA OutsideStep ==
  ASSUME Ready, TreesOK, Dst \notin start.src, Quietly, Thinks \/ Acts, ~grumbled'
  PROVE  OutsideOK'
<1>0. /\ WorldOK /\ JobOK /\ OutsideOK /\ frames \in Seq(Frame) /\ frames' \in Seq(Frame) /\ Dst' = Dst
      /\ (pc \in Tasked => item \in Task)
  BY ThinksBase, ActsBase, DstSame DEF Ready, Base, TreesOK, JobOK, JobTyped, Quietly
<1>1. \A i \in DOMAIN frames' : ~Holds(frames'[i].dst)
  <2>1. CASE \E d \in Node, c \in BOOLEAN : ~Holds(d) /\ frames' = Append(frames, NewFrame(d, c))
    <3>1. PICK d \in Node, c \in BOOLEAN : ~Holds(d) /\ frames' = Append(frames, NewFrame(d, c))
      BY <2>1
    <3> DEFINE r == NewFrame(d, c)
    <3>2. r.dst = d
      BY DEF NewFrame
    <3> HIDE DEF r
    <3>3. \A i \in 1 .. Len(frames) + 1 : Append(frames, r)[i] = IF i = Len(frames) + 1 THEN r ELSE frames[i]
      BY <1>0
    <3>4. DOMAIN frames' = 1 .. Len(frames) + 1
      BY <1>0, <3>1
    <3> QED
      BY <1>0, <3>1, <3>2, <3>3, <3>4 DEF OutsideOK, r
  <2>2. CASE Unwinds
    BY <1>0, <2>2, UnwindsDoes DEF OutsideOK
  <2>3. CASE \E t \in SUBSET Name : Refills(t)
    BY <1>0, <2>3, RefillsDoes DEF OutsideOK
  <2> QED
    BY <1>0, <2>1, <2>2, <2>3, FramesHow DEF OutsideOK
<1>2. \A d : (\E i \in DOMAIN frames' : d = frames'[i].dst) => ~Holds(d)'
  BY <1>1, HoldsLess
<1>3. ASSUME pc' \in Tasked, frames' = <<>>, Dst = Top
      PROVE  item'.act = "create"
  <2>1. CASE Onward
    BY <1>0, <1>3, <2>1, OnwardDoes DEF OutsideOK, Leave, After
  <2>2. CASE Aside
    BY <1>0, <1>3, <2>2, AsideDoes
  <2>3. CASE TakeRoot
    BY <1>0, <1>3, <2>3 DEF TakeRoot, Entry
  <2>4. CASE PlaceRoot
    <3>1. RootPlace.act # "skip" /\ item' = [item EXCEPT !.final = RootPlace.name, !.act = RootPlace.act] /\ pc = "place"
      BY <1>3, <2>4 DEF PlaceRoot, Leave
    <3>2. RootPlace.act = "create"
      BY <1>3, <3>1 DEF RootPlace, FreeName
    <3> QED
      BY <1>0, <3>1, <3>2 DEF Task
  <2>5. CASE OpenDir
    <3>1. pc = "opendir" /\ frames = <<>> /\ \E n, m : item' = [item EXCEPT !.id = n, !.mode = m]
      BY <1>3, <2>5 DEF OpenDir, Leave, Abandon
    <3> QED
      BY <1>0, <1>3, <3>1 DEF OutsideOK, Task
  <2>6. CASE WalkEntry
    <3>1. \E x \in Inner.todo : Refills(Inner.todo \ {x})
      BY <1>0, <2>6, WalkQuiet DEF TreesOK
    <3>2. Inner.todo \subseteq Name
      BY <1>0, <3>1, InnerFrame DEF Refills
    <3>3. \E t \in SUBSET Name : Refills(t)
      BY <3>1, <3>2
    <3> QED
      BY <1>0, <1>3, <3>3, RefillsDoes
  <2>7. CASE MakeDir
    <3>1. pc = "mkdir" /\ (pc' = "pin" => item' = [item EXCEPT !.new = Spare, !.where = item'.where, !.temp = item'.temp] /\ frames' = frames)
      BY <1>3, <2>7 DEF MakeDir, Leave, Enter, After, Abandon
    <3>2. pc' = "pin"
      BY <1>3, <2>7 DEF MakeDir, Leave, Enter, After, Abandon
    <3> QED
      BY <1>0, <1>3, <3>1, <3>2 DEF OutsideOK, Task
  <2>8. CASE PinDir
    BY <1>3, <2>8 DEF PinDir, Leave, Enter, After, Abandon
  <2>9. CASE Build
    <3>1. pc = "build" /\ frames' = frames /\ item' = [item EXCEPT !.new = Spare, !.where = item'.where, !.temp = item'.temp]
      BY <1>3, <2>9 DEF Build, Leave, After, context
    <3> QED
      BY <1>0, <1>3, <3>1 DEF OutsideOK, Task
  <2> QED
    BY <2>1, <2>2, <2>3, <2>4, <2>5, <2>6, <2>7, <2>8, <2>9, JobIs, Zenon
<1>4. (\A i \in DOMAIN frames : ~Holds(frames[i].dst))'
  BY <1>2
<1> QED
  BY <1>0, <1>3, <1>4 DEF OutsideOK

LEMMA TreesRest ==
  ASSUME TreesOK, Quietly, Rests
  PROVE  TreesOK'
<1>0. StandsOK /\ FamilyOK /\ OutsideOK /\ SilentOK /\ start' = start /\ Dst' = Dst
  BY DstSame DEF TreesOK, Quietly
<1>1. UNCHANGED <<sc, pc, item, frames, del, held>>
  BY DEF Rests
<1>2. ASSUME NEW n \in start.src PROVE (Gone(n)' => Gone(n)) /\ (Gone(n) => Gone(n)')
  BY <1>1, <1>2, GoneKept DEF Rests, Quietly, Gone
<1>3. StandsOK' /\ FamilyOK'
  BY <1>0, <1>2 DEF StandsOK, FamilyOK, Rests
<1>4. OutsideOK'
  BY <1>0, <1>1, HoldsLess DEF OutsideOK
<1>5. SilentOK'
  BY <1>0, <1>1 DEF SilentOK
<1> QED
  BY <1>3, <1>4, <1>5 DEF TreesOK

LEMMA TreesStep ==
  ASSUME Ready, SourceOK', Calm', Dst \notin start.src, TreesOK, [Next]_vars
  PROVE  TreesOK'
<1>1. Quietly /\ (Thinks \/ Acts \/ Rests)
  BY QuietStep DEF Ready
<1>2. ~grumbled'
  BY DEF Calm
<1> QED
  BY <1>1, <1>2, StandsStep, FamilyStep, OutsideStep, SilentStep, TreesRest, Zenon DEF TreesOK

LEMMA InitTrees == ASSUME Init PROVE TreesOK
<1>1. WorldOK
  BY InitBase DEF Base
<1>2. at = start.at /\ frames = <<>> /\ del = <<>> /\ pc = "root" /\ held = {}
  BY DEF Init
<1>3. \A n \in start.src : ~Gone(n)
  BY <1>1, <1>2, SourceFacts DEF Gone
<1> QED
  BY <1>1, <1>2, <1>3, SourceFacts DEF TreesOK, StandsOK, FamilyOK, OutsideOK, SilentOK

-----------------------------------------------------------------------------
(* The way of a root through the job.                                      *)
LEMMA RootsHow ==
  ASSUME JobOK, Thinks \/ Acts, ~grumbled'
  PROVE  /\ left' = left \/ TakeRoot
         /\ \/ root' = root \/ TakeRoot
            \/ /\ pc \in {"mkdir", "pin"} /\ frames = <<>> /\ pc' = "opened"
               /\ \E d : root' = [item EXCEPT !.new = d]
<1>0. ~Complain /\ ~Abandon
  BY DEF Complain, Abandon
<1>1. CASE Onward
  <2>1. left' = left
    BY <1>1, Zenon DEF Onward, TryRename, BeginCopy, OpenSource, Settle, ReadFirst, ReadLast, Verify, LinkUnnamed,
                 Publish, CloseCopy, CopyLink, context
  <2> QED
    BY <1>1, <2>1, OnwardDoes
<1>2. CASE Aside
  <2>1. left' = left
    BY <1>2, Zenon DEF Aside, Opened, Unwind, StopCopy, FinishRoot, DeleteNext, Look, CompareFirst, CompareLast,
                UnlinkEntry, RemoveDir, RootGone, StopDelete, Finish, removal
  <2> QED
    BY <1>2, <2>1, AsideDoes
<1>3. CASE PlaceRoot \/ OpenDir \/ WalkEntry \/ Build
  BY <1>3, Zenon DEF PlaceRoot, OpenDir, WalkEntry, Build, context
<1>4. CASE MakeDir
  BY <1>0, <1>4 DEF MakeDir, Enter, Leave
<1>5. CASE PinDir
  BY <1>0, <1>5 DEF PinDir, Enter, Leave
<1> QED
  BY <1>1, <1>2, <1>3, <1>4, <1>5, JobIs, Zenon

LEMMA EndsHow ==
  ASSUME Thinks \/ Acts, ~grumbled', pc' = "end"
  PROVE  Finish \/ result' # "done"
<1>0. ~Complain /\ ~Abandon
  BY DEF Complain, Abandon
<1>1. CASE TakeRoot \/ PlaceRoot \/ BeginCopy \/ OpenDir \/ Opened
  BY <1>0, <1>1 DEF TakeRoot, PlaceRoot, BeginCopy, OpenDir, Opened, Leave
<1>2. CASE WalkEntry \/ Unwind \/ OpenSource \/ Settle \/ ReadFirst \/ CloseCopy
  BY <1>0, <1>2 DEF WalkEntry, Unwind, OpenSource, Settle, ReadFirst, CloseCopy, Leave, After
<1>3. CASE FinishRoot \/ DeleteNext \/ Look \/ CompareFirst \/ CompareLast
  BY <1>3 DEF FinishRoot, DeleteNext, Look, CompareFirst, CompareLast, KeepEntry, DropEntry
<1>4. CASE RootGone \/ StopDelete \/ StopCopy
  BY <1>4 DEF RootGone, StopDelete, StopCopy, Stop
<1>5. CASE TryRename \/ MakeDir \/ PinDir \/ Build \/ ReadLast
  BY <1>0, <1>5 DEF TryRename, MakeDir, PinDir, Build, ReadLast, Leave, Enter, After
<1>6. CASE Verify \/ LinkUnnamed \/ Publish \/ CopyLink
  BY <1>0, <1>6 DEF Verify, LinkUnnamed, Publish, CopyLink, GiveUpFile, Leave, After
<1>7. CASE UnlinkEntry \/ RemoveDir
  BY <1>7 DEF UnlinkEntry, RemoveDir, KeepEntry, DropEntry
<1> QED
  BY <1>1, <1>2, <1>3, <1>4, <1>5, <1>6, <1>7, Zenon DEF Thinks, Acts

LEMMA HomesHow ==
  ASSUME Thinks \/ Acts, ~grumbled', pc' = "root", pc # "root"
  PROVE  \/ pc = "rename" /\ held' = held \cup {<<m, data[m]>> : m \in Below(item.id)}
         \/ pc = "finish" /\ ~sc.move
         \/ pc = "delete" /\ Level.todo = {} /\ Len(del) = 1
<1>0. ~Complain /\ ~Abandon
  BY DEF Complain, Abandon
<1>1. CASE TakeRoot \/ PlaceRoot \/ BeginCopy \/ OpenDir \/ Opened
  BY <1>0, <1>1 DEF TakeRoot, PlaceRoot, BeginCopy, OpenDir, Opened, Leave
<1>2. CASE WalkEntry \/ Unwind \/ OpenSource \/ Settle \/ ReadFirst \/ CloseCopy
  BY <1>0, <1>2 DEF WalkEntry, Unwind, OpenSource, Settle, ReadFirst, CloseCopy, Leave, After
<1>3. CASE FinishRoot \/ DeleteNext \/ Look \/ CompareFirst \/ CompareLast
  BY <1>0, <1>3 DEF FinishRoot, DeleteNext, Look, CompareFirst, CompareLast, KeepEntry, DropEntry
<1>4. CASE RootGone \/ StopDelete \/ StopCopy \/ Finish
  BY <1>4 DEF RootGone, StopDelete, StopCopy, Stop, Finish
<1>5. CASE TryRename
  BY <1>0, <1>5 DEF TryRename
<1>8. CASE MakeDir \/ PinDir \/ Build \/ ReadLast
  BY <1>0, <1>8 DEF MakeDir, PinDir, Build, ReadLast, Leave, Enter, After
<1>6. CASE Verify \/ LinkUnnamed \/ Publish \/ CopyLink
  BY <1>0, <1>6 DEF Verify, LinkUnnamed, Publish, CopyLink, GiveUpFile, Leave, After
<1>7. CASE UnlinkEntry \/ RemoveDir
  BY <1>7 DEF UnlinkEntry, RemoveDir, KeepEntry, DropEntry
<1> QED
  BY <1>1, <1>2, <1>3, <1>4, <1>5, <1>6, <1>7, <1>8, Zenon DEF Thinks, Acts

LEMMA FinishesHow ==
  ASSUME Thinks \/ Acts, ~grumbled', pc' = "finish"
  PROVE  (pc = "record" /\ RecordPublished) \/ frames # <<>>
<1>0. ~Complain /\ ~Abandon
  BY DEF Complain, Abandon
<1>1. CASE TakeRoot \/ PlaceRoot \/ BeginCopy \/ OpenDir \/ Opened
  BY <1>0, <1>1 DEF TakeRoot, PlaceRoot, BeginCopy, OpenDir, Opened, Leave
<1>2. CASE WalkEntry \/ Unwind \/ OpenSource \/ Settle \/ ReadFirst \/ CloseCopy
  BY <1>0, <1>2 DEF WalkEntry, Unwind, OpenSource, Settle, ReadFirst, CloseCopy, Leave, After
<1>3. CASE FinishRoot \/ DeleteNext \/ Look \/ CompareFirst \/ CompareLast
  BY <1>3 DEF FinishRoot, DeleteNext, Look, CompareFirst, CompareLast, KeepEntry, DropEntry
<1>4. CASE RootGone \/ StopDelete \/ StopCopy \/ Finish
  BY <1>4 DEF RootGone, StopDelete, StopCopy, Stop, Finish
<1>5. CASE TryRename \/ MakeDir \/ PinDir \/ Build \/ ReadLast
  BY <1>0, <1>5 DEF TryRename, MakeDir, PinDir, Build, ReadLast, Leave, Enter, After
<1>6. CASE Verify \/ LinkUnnamed \/ Publish \/ CopyLink
  BY <1>0, <1>6 DEF Verify, LinkUnnamed, Publish, CopyLink, GiveUpFile, Leave, After
<1>7. CASE UnlinkEntry \/ RemoveDir
  BY <1>7 DEF UnlinkEntry, RemoveDir, KeepEntry, DropEntry
<1> QED
  BY <1>1, <1>2, <1>3, <1>4, <1>5, <1>6, <1>7, Zenon DEF Thinks, Acts

LEMMA RootStays ==
  ASSUME WorldOK, JobOK, TaskOK, RootOK, UNCHANGED <<sc, pc, root, item, frames, del>>,
         \A n \in Node : kind[n] # "none" => kind'[n] = kind[n]
  PROVE  RootOK'
BY DEF RootOK, JobOK, JobTyped, Task, TaskOK

-----------------------------------------------------------------------------
(* A move: every root is still to come, at work, or gone.                  *)
\* The job neither complained nor ended before its end.
Live == Calm /\ (pc = "end" => result = "done")
Picked(m) == m \in Node /\ Selects(start, m)
Named(e, m) == e.id = m /\ e.name = start.at[m][2]
ToCome(m) == pc # "end" /\ \E i \in DOMAIN left : left[i] = start.at[m][2]
AtWork(m) == pc \notin {"root", "end"} /\ Named(root, m)
MoveTurns == \A m \in Node : Picked(m) => Gone(m) \/ ToCome(m) \/ AtWork(m)
\* While its root is removed, the entry of the root is still listed, or it is a
\* directory being emptied.
InHand(m) ==
    \/ del # <<>> /\ \E e \in del[1].todo : Named(e, m)
    \/ Len(del) > 1 /\ del[2].dir = m /\ del[2].entry = start.at[m][2]
MoveWay == \A m \in Node : Picked(m) /\ pc \in Removing /\ Named(root, m) => Gone(m) \/ InHand(m)
Recorded ==
    pc = "finish" /\ kind[root.id] # "dir" =>
        ledgerFull \/ \E e \in ledger : e.id = root.id /\ e.name = root.name
MovedOK == MoveTurns /\ MoveWay /\ Recorded

LEMMA PickedIs ==
  ASSUME WorldOK, NEW m, Picked(m)
  PROVE  /\ m \in start.src /\ m \in Node /\ start.at[m] = <<Top, start.at[m][2]>>
         /\ start.at[m][2] \in Name /\ start.at[m] # Nowhere
<1>1. m \in start.src
  BY SelectedSource DEF Picked
<1> QED
  BY <1>1, SourceFacts DEF Picked

\* A root that is not under its name is gone.
LEMMA AwayIsGone ==
  ASSUME WorldOK, StandsOK, NEW m, Picked(m), Lookup(Top, start.at[m][2]) # m
  PROVE  Gone(m)
<1>1. at[m] # start.at[m]
  <2> SUFFICES ASSUME at[m] = start.at[m] PROVE FALSE
    OBVIOUS
  <2>1. OneEach
    BY DEF WorldOK, WellPlaced, OneEach
  <2> QED
    BY <2>1, PickedIs, LookupIs, NodeAssumption
<1> QED
  BY <1>1, PickedIs DEF StandsOK

LEMMA UnlinkedIsGone ==
  ASSUME WorldOK, StandsOK', start' = start, NEW m, Picked(m), at' = Unlinked(m), WellPlaced(at)
  PROVE  Gone(m)'
<1>1. m \in start.src /\ m \in Node /\ start.at[m] # Nowhere
  BY PickedIs
<1>2. at'[m] = Nowhere
  BY <1>1, UnlinkedPlaces
<1> QED
  BY <1>1, <1>2 DEF StandsOK

\* What is in hand stays so until it is gone.
LEMMA WayGoesOn ==
  ASSUME Ready, SourceOK', TreesOK, TreesOK', Quietly, Thinks \/ Acts, ~grumbled', sc.move,
         NEW m, Picked(m), Named(root, m), pc \in Removing, pc' \in Removing, InHand(m)
  PROVE  Gone(m) \/ Gone(m)' \/ InHand(m)'
<1>0. /\ Base /\ WorldOK /\ JobOK /\ RootOK /\ StandsOK /\ SilentOK /\ StandsOK' /\ start' = start
      /\ WellPlaced(at) /\ del \in Seq(Levels) /\ del' \in Seq(Levels) /\ del # <<>> /\ del' # <<>>
      /\ del[1].dir = Top
  BY ThinksBase, ActsBase DEF Ready, Base, WorldOK, TreesOK, JobOK, JobTyped, Quietly, RootOK
<1>1. Len(del) \in Nat /\ Len(del) > 0 /\ Len(del') \in Nat /\ Len(del') > 0 /\ Level = del[Len(del)]
  BY <1>0, LevelTyped
<1>13. \A k \in Nat : k > 0 => 1 \in 1 .. k /\ (k > 1 => 2 \in 1 .. k) /\ (k # 1 => k > 1)
  OBVIOUS
<1>10. 1 \in 1 .. Len(del) /\ (Len(del) > 1 => 2 \in 1 .. Len(del)) /\ (Len(del) # 1 => Len(del) > 1)
  BY <1>1, <1>13
<1>12. \A k \in Nat : (k > 1 => 1 \in 1 .. k - 1 /\ 1 # k) /\ (k > 2 => 2 \in 1 .. k - 1 /\ 2 # k /\ k - 1 > 1)
  OBVIOUS
<1>11. /\ Len(del) > 1 => 1 \in 1 .. Len(del) - 1 /\ 1 # Len(del)
       /\ Len(del) > 2 => 2 \in 1 .. Len(del) - 1 /\ 2 # Len(del) /\ Len(del) - 1 > 1
  BY <1>1, <1>12
<1>2. Gone(m) \/ Lookup(Top, start.at[m][2]) = m
  BY <1>0, AwayIsGone
<1>3. at' = Unlinked(m) => Gone(m)'
  BY <1>0, UnlinkedIsGone
<1>4. m \in Node
  BY DEF Picked
<1>5. ASSUME ~Gone(m), ~Gone(m)', Drops
      PROVE  InHand(m)'
  <2>1. Len(del) = 1 => ~Named(item, m)
    BY <1>0, <1>1, <1>2, <1>3, <1>4, <1>5, NodeAssumption DEF Drops, Named
  <2>2. ASSUME NEW e \in del[1].todo, Named(e, m)
        PROVE  e \in del'[1].todo
    BY <1>1, <1>5, <1>10, <2>1, <2>2 DEF Drops, Trimmed
  <2>3. Len(del) > 1 => del'[2].dir = del[2].dir /\ del'[2].entry = del[2].entry /\ Len(del') > 1
    BY <1>1, <1>5, <1>10 DEF Drops, Trimmed
  <2> QED
    BY <1>0, <2>2, <2>3 DEF InHand, Named
<1>6. ASSUME ~Gone(m), ~Gone(m)', NEW x, Enters(x)
      PROVE  InHand(m)'
  <2>1. /\ Len(del') = Len(del) + 1
        /\ \A i \in 1 .. Len(del) : /\ del'[i].dir = del[i].dir /\ del'[i].entry = del[i].entry
                                    /\ del'[i].todo = IF i = Len(del) THEN del[i].todo \ {x} ELSE del[i].todo
        /\ del'[Len(del) + 1].dir = x.id /\ del'[Len(del) + 1].entry = x.name
    BY <1>6 DEF Enters, Trimmed
  <2>2. ASSUME NEW e \in del[1].todo, Named(e, m)
        PROVE  e \in del'[1].todo \/ (Len(del) = 1 /\ e = x)
    BY <1>1, <1>10, <2>1, <2>2
  <2>3. Len(del) > 1 => del'[2].dir = del[2].dir /\ del'[2].entry = del[2].entry
    BY <1>1, <1>10, <2>1
  <2>4. Len(del) = 1 => del'[2].dir = x.id /\ del'[2].entry = x.name
    BY <2>1
  <2> QED
    BY <1>0, <1>1, <2>1, <2>2, <2>3, <2>4 DEF InHand, Named
<1>7. ASSUME ~Gone(m), ~Gone(m)', Rises
      PROVE  InHand(m)'
  <2>1. Len(del) = 2 => ~(del[2].dir = m /\ del[2].entry = start.at[m][2])
    BY <1>0, <1>1, <1>2, <1>3, <1>4, <1>7, NodeAssumption DEF Rises
  <2>2. /\ Len(del) > 1 /\ Len(del') = Len(del) - 1
        /\ \A i \in 1 .. Len(del) - 1 : /\ del'[i].dir = del[i].dir /\ del'[i].entry = del[i].entry
                                        /\ del'[i].todo = IF i = Len(del) THEN del[i].todo \ {None} ELSE del[i].todo
    BY <1>7 DEF Rises, Trimmed
  <2>3. del'[1].todo = del[1].todo
    BY <1>11, <2>2
  <2>4. Len(del) > 2 => Len(del') > 1 /\ del'[2].dir = del[2].dir /\ del'[2].entry = del[2].entry
    BY <1>11, <2>2
  <2> QED
    BY <1>0, <1>1, <2>1, <2>2, <2>3, <2>4 DEF InHand, Named
<1>8. CASE del' = del
  BY <1>0, <1>8 DEF InHand, Named
<1>9. ~Begins
  BY DEF Begins
<1> QED
  BY <1>0, <1>5, <1>6, <1>7, <1>8, <1>9, DelHow

LEMMA WayStep ==
  ASSUME Ready, SourceOK', TreesOK, TreesOK', Quietly, Thinks \/ Acts, ~grumbled', sc.move, MovedOK
  PROVE  MoveWay'
<1>0. Base /\ WorldOK /\ JobOK /\ Base' /\ SilentOK /\ start' = start /\ RootOK /\ (pc \in Tasked => item \in Task)
      /\ (pc \in Removing <=> del # <<>>) /\ (pc' \in Removing <=> del' # <<>>)
  BY ThinksBase, ActsBase DEF Ready, Base, TreesOK, Quietly, JobOK, JobTyped
<1> SUFFICES ASSUME NEW m, Picked(m), pc' \in Removing, Named(root', m), ~Gone(m), ~Gone(m)'
             PROVE  InHand(m)'
  BY <1>0, GoneKept, PickedIs DEF MoveWay, Picked, Named, InHand
<1>1. ~TakeRoot /\ root' = root
  <2>1. ~TakeRoot
    <3>1. TakeRoot => pc' \in {"root", "place"}
      BY DEF TakeRoot
    <3> QED
      BY <3>1
  <2> QED
    BY <1>0, <2>1, RootsHow
<1>2. CASE pc \in Removing
  <2>1. InHand(m)
    BY <1>1, <1>2 DEF MovedOK, MoveWay, Picked
  <2> QED
    BY <1>1, <1>2, <2>1, WayGoesOn
<1>3. CASE pc \notin Removing
  <2>1. Begins
    <3>1. ~Drops /\ ~Rises /\ ~\E e : Enters(e)
      BY <1>3 DEF Drops, Rises, Enters
    <3> QED
      BY <1>0, <1>3, <3>1, DelHow
  <2>2. \E e \in RootEntries : Named(e, m)
    <3>1. CASE kind[root.id] = "dir"
      BY <1>1, <3>1 DEF RootEntries, Named
    <3>2. CASE kind[root.id] # "dir"
      <4>1. \E e \in ledger : e.id = root.id /\ e.name = root.name
        BY <2>1, <3>2 DEF Begins, MovedOK, Recorded
      <4> QED
        BY <1>1, <3>2, <4>1 DEF RootEntries, Named
    <3> QED
      BY <3>1, <3>2
  <2> QED
    BY <1>0, <2>1, <2>2 DEF Begins, InHand, Named
<1> QED
  BY <1>2, <1>3

LEMMA RecordedStep ==
  ASSUME Ready, Thinks \/ Acts, ~grumbled', sc.move
  PROVE  Recorded'
<1>0. /\ Base /\ JobOK /\ TaskOK /\ RootOK /\ JobDid /\ (pc \notin {"root", "end"} => root \in Task)
  BY ThinksBase, ActsBase DEF Ready, Base, MoveOK, JobOK, JobTyped
<1> SUFFICES ASSUME pc' = "finish", kind'[root'.id] # "dir"
             PROVE  ledgerFull' \/ \E e \in ledger' : e.id = root'.id /\ e.name = root'.name
  BY DEF Recorded
<1>1. root' = root
  <2>1. ~TakeRoot
    BY DEF TakeRoot
  <2> QED
    BY <1>0, <2>1, RootsHow
<1>2. (pc = "record" /\ RecordPublished) \/ frames # <<>>
  BY FinishesHow
<1>3. frames = <<>>
  <2> SUFFICES ASSUME frames # <<>> PROVE FALSE
    OBVIOUS
  <2>1. kind[root.id] = "dir" /\ pc \notin {"root", "end"}
    BY <1>0 DEF RootOK, JobOK, JobTyped
  <2>2. root.id \in Node
    BY <1>0, <2>1 DEF Task
  <2> QED
    BY <1>0, <1>1, <2>1, <2>2 DEF JobDid
<1>4. pc = "record" /\ RecordPublished /\ item.id = root.id /\ item.name = root.name
  BY <1>0, <1>2, <1>3 DEF TaskOK, RootOK
<1>5. \E e : Record(e) /\ e.id = item.id /\ e.name = item.name
  <2> DEFINE n == Lookup(item.ddir, item.final)
             r == [dir |-> item.dir, name |-> item.name, kind |-> kind[item.id],
                   id |-> item.id, seen |-> item.seen, dname |-> item.final,
                   did |-> IF n = item.new THEN n ELSE None,
                   dseen |-> IF n = item.new THEN stamp[n] ELSE 0]
  <2>1. r.id = item.id /\ r.name = item.name
    OBVIOUS
  <2>2. Record(r)
    BY <1>4 DEF RecordPublished
  <2> QED
    BY <2>1, <2>2
<1> QED
  BY <1>1, <1>4, <1>5 DEF Record

\* A root that is to come stays so, or is taken.
LEMMA ComesOrTaken ==
  ASSUME Base, Quietly, Live', Thinks \/ Acts, NEW m, Picked(m), at[m] = start.at[m], ToCome(m)
  PROVE  \/ ToCome(m)'
         \/ TakeRoot /\ pc' = "place" /\ root' = item' /\ item' = Entry(m, Top, start.at[m][2], Dst)
<1>0. /\ WorldOK /\ JobOK /\ start' = start /\ ~grumbled' /\ (pc' = "end" => result' = "done") /\ left \in Seq(Name)
  BY DEF Base, Quietly, JobOK, JobTyped, Live, Calm
<1>1. m \in Node /\ start.at[m][2] \in Name /\ at[m] = <<Top, start.at[m][2]>>
  BY <1>0, PickedIs
<1>2. pc' = "end" => Finish
  BY <1>0, EndsHow
<1>3. Finish => pc = "root" /\ left = <<>>
  BY DEF Finish
<1>4. pc' # "end"
  BY <1>2, <1>3 DEF ToCome
<1>5. CASE TakeRoot
  <2>1. left # <<>> /\ left' = Tail(left)
    BY <1>5 DEF TakeRoot
  <2>2. PICK i \in DOMAIN left : left[i] = start.at[m][2]
    BY DEF ToCome
  <2>3. CASE i = 1
    <3>1. Head(left) = start.at[m][2]
      BY <1>0, <2>1, <2>2, <2>3
    <3>2. Lookup(Top, Head(left)) = m
      <4>1. OneEach
        BY <1>0 DEF WorldOK, WellPlaced, OneEach
      <4> QED
        BY <1>1, <3>1, <4>1, LookupIs, NodeAssumption
    <3> QED
      BY <1>0, <1>5, <3>1, <3>2 DEF TakeRoot, Complain
  <2>4. CASE i # 1
    <3>1. Len(left) \in Nat /\ i \in 1 .. Len(left) /\ i > 1
      BY <1>0, <2>4
    <3>2. i - 1 \in DOMAIN left' /\ left'[i - 1] = start.at[m][2]
      <4>1. DOMAIN Tail(left) = 1 .. Len(left) - 1 /\ \A k \in 1 .. Len(left) - 1 : Tail(left)[k] = left[k + 1]
        <5>1. Tail(left) \in Seq(Name) /\ Len(Tail(left)) = Len(left) - 1
          BY <1>0, <2>1
        <5>2. \A k \in 1 .. Len(left) - 1 : Tail(left)[k] = left[k + 1]
          BY <1>0, <2>1
        <5> QED
          BY <1>0, <5>1, <5>2
      <4>2. i - 1 \in 1 .. Len(left) - 1 /\ (i - 1) + 1 = i
        BY <3>1
      <4>3. Tail(left)[i - 1] = left[i] /\ i - 1 \in DOMAIN Tail(left)
        BY <4>1, <4>2
      <4> QED
        BY <2>1, <2>2, <4>3
    <3> QED
      BY <1>0, <1>4, <3>2 DEF ToCome
  <2> QED
    BY <2>3, <2>4
<1>6. CASE ~TakeRoot
  <2>1. left' = left
    BY <1>0, <1>6, RootsHow
  <2> QED
    BY <1>0, <1>4, <2>1 DEF ToCome
<1> QED
  BY <1>5, <1>6

LEMMA TurnsStep ==
  ASSUME Ready, SourceOK', TreesOK, TreesOK', Quietly, Live', Thinks \/ Acts, sc.move, MovedOK
  PROVE  MoveTurns'
<1>0. /\ Base /\ WorldOK /\ JobOK /\ TaskOK /\ RootOK /\ JobTyped /\ JobTyped' /\ StandsOK /\ start' = start /\ sc' = sc
      /\ (pc \in Tasked => item \in Task) /\ ~grumbled' /\ (pc' = "end" => result' = "done")
      /\ left \in Seq(Name) /\ (pc \in Removing => del # <<>>)
  BY ThinksBase, ActsBase DEF Ready, Base, MoveOK, TreesOK, Quietly, JobOK, JobTyped, Live, Calm
<1> SUFFICES ASSUME NEW m, Picked(m), ~Gone(m), ~Gone(m)'
             PROVE  ToCome(m)' \/ AtWork(m)'
  BY <1>0, GoneKept, PickedIs DEF MoveTurns, Picked, ToCome, AtWork, Named
<1>1. m \in Node /\ start.at[m][2] \in Name /\ at[m] = <<Top, start.at[m][2]>>
  BY <1>0, PickedIs DEF StandsOK
<1>2. pc' = "end" => Finish
  BY <1>0, EndsHow
<1>3. Finish => pc = "root" /\ left = <<>>
  BY DEF Finish
<1>4. ToCome(m) \/ AtWork(m)
  BY <1>1 DEF MovedOK, MoveTurns
<1>5. CASE ToCome(m)
  <2>1. CASE TakeRoot /\ pc' = "place" /\ root' = Entry(m, Top, start.at[m][2], Dst)
    <3>1. root'.id = m /\ root'.name = start.at[m][2]
      BY <2>1 DEF Entry
    <3> QED
      BY <1>0, <2>1, <3>1 DEF AtWork, Named
  <2>2. at[m] = start.at[m]
    BY <1>0, PickedIs DEF StandsOK
  <2> QED
    BY <1>0, <1>5, <2>1, <2>2, ComesOrTaken
<1>6. CASE AtWork(m)
  <2>1. pc \notin {"root", "end"} /\ Named(root, m) /\ pc' # "end"
    BY <1>2, <1>3, <1>6 DEF AtWork
  <2>2. pc' # "root"
    <3> SUFFICES ASSUME pc' = "root" PROVE FALSE
      OBVIOUS
    <3>1. CASE pc = "rename" /\ held' = held \cup {<<k, data[k]>> : k \in Below(item.id)}
      <4>1. item.id = m
        BY <1>0, <2>1, <3>1 DEF TaskOK, JobTyped, Named
      <4>2. m \in Below(item.id)
        BY <1>1, <4>1, SelfAbove DEF Below
      <4>3. data'[m] = data[m]
        BY <1>0, PickedIs DEF Quietly
      <4> QED
        BY <1>0, <3>1, <4>2, <4>3 DEF Gone
    <3>2. CASE pc = "delete" /\ Level.todo = {} /\ Len(del) = 1
      <4>1. InHand(m)
        BY <1>1, <2>1, <3>2 DEF MovedOK, MoveWay
      <4> QED
        BY <3>2, <4>1 DEF InHand, Level
    <3> QED
      BY <1>0, <2>1, <3>1, <3>2, HomesHow
  <2>3. root'.id = root.id /\ root'.name = root.name
    <3>1. CASE root' = root
      BY <3>1
    <3>2. CASE /\ pc \in {"mkdir", "pin"} /\ frames = <<>>
               /\ \E d : root' = [item EXCEPT !.new = d]
      <4>1. item.id = root.id /\ item.name = root.name /\ item \in Task
        BY <1>0, <3>2 DEF TaskOK, RootOK
      <4> QED
        BY <3>2, <4>1 DEF Task
    <3> QED
      BY <1>0, <2>1, <3>1, <3>2, RootsHow DEF TakeRoot
  <2> QED
    BY <1>0, <2>1, <2>2, <2>3 DEF AtWork, Named
<1> QED
  BY <1>4, <1>5, <1>6

LEMMA MovedRests ==
  ASSUME WorldOK, JobOK, TaskOK, Quietly, Rests, MovedOK
  PROVE  MovedOK'
<1>1. UNCHANGED <<sc, start, pc, left, root, del, ledger, ledgerFull>>
  BY DEF Rests, Quietly
<1>2. \A m : Picked(m)' <=> Picked(m)
  BY <1>1 DEF Picked
<1>3. \A m : Picked(m) => (Gone(m) => Gone(m)')
  BY GoneKept, PickedIs
<1>4. MoveTurns'
  BY <1>1, <1>2, <1>3 DEF MovedOK, MoveTurns, ToCome, AtWork, Named
<1>5. MoveWay'
  BY <1>1, <1>2, <1>3 DEF MovedOK, MoveWay, InHand, Named
<1>6. Recorded'
  <2>1. pc = "finish" => root.id \in Node /\ kind[root.id] # "none"
    BY DEF JobOK, JobTyped, Task, TaskOK
  <2> QED
    BY <1>1, <2>1 DEF MovedOK, Recorded, Rests
<1> QED
  BY <1>4, <1>5, <1>6 DEF MovedOK

LEMMA MovedStep ==
  ASSUME Ready, SourceOK', TreesOK, TreesOK', Live', Dst \notin start.src, sc.move, MovedOK, [Next]_vars
  PROVE  MovedOK'
<1>1. Quietly /\ (Thinks \/ Acts \/ Rests)
  BY QuietStep DEF Ready, Live
<1>2. ~grumbled' /\ WorldOK /\ JobOK /\ TaskOK
  BY DEF Live, Calm, Ready, Base, MoveOK
<1>3. CASE Thinks \/ Acts
  BY <1>1, <1>2, <1>3, RecordedStep, TurnsStep, WayStep DEF MovedOK
<1>4. CASE Rests
  BY <1>1, <1>2, <1>4, MovedRests
<1> QED
  BY <1>1, <1>3, <1>4

LEMMA InitTurns ==
  ASSUME Init, NEW m, Picked(m)
  PROVE  ToCome(m)
BY DEF Init, Picked, Selects, ToCome

\* A move that is done left nothing behind.
LEMMA MovedWhole ==
  ASSUME WorldOK, JobOK, TreesOK, MovedOK, pc = "end", sc.move, NEW n \in start.src
  PROVE  Gone(n)
<1> DEFINE P == {k \in start.src : Gone(k)}
<1>1. \A k \in start.src : Selects(start, k) => k \in P
  BY SourceFacts DEF MovedOK, MoveTurns, Picked, ToCome, AtWork
<1>2. \A k \in start.src : start.at[k][1] \in start.src \cap P => k \in P
  BY DEF TreesOK, FamilyOK
<1> HIDE DEF P
<1>3. start.src \subseteq P
  BY <1>1, <1>2, SourceInduction
<1> QED
  BY <1>3 DEF P

-----------------------------------------------------------------------------
(* A copy: every root is still to come, at work, or reproduced, and what   *)
(* stands in a directory that is read is listed, at work, or reproduced.   *)
Seen(n) == IF kind[n] = "dir" THEN n \in copied ELSE \E m \in Node : <<m, data[n]>> \in held
Handled(n) == pc \in Tasked /\ item.id = n
CopyTurns == \A m \in Node : Picked(m) => Seen(m) \/ ToCome(m) \/ (Handled(m) /\ frames = <<>>)
Listed(d, x) ==
    \/ pc = "opened" /\ Inner.src = d
    \/ \E i \in DOMAIN frames : frames[i].src = d /\ x \in frames[i].todo
ReadOK ==
    \A n \in start.src :
        start.at[n][1] \in start.src \cap copied =>
            Seen(n) \/ Listed(start.at[n][1], start.at[n][2]) \/ (Handled(n) /\ frames # <<>>)
\* The entry at work stands where it was found.
FoundOK == pc \in Tasked /\ item.id \in start.src => start.at[item.id] = <<item.dir, item.name>>
\* What has been written of it is what it holds.
HalfOK ==
    item.id \in start.src =>
        /\ pc = "more" => item.half = data[item.id]
        /\ pc \in {"verify", "link0", "publish"} => data[item.new] = data[item.id]
        /\ pc = "record" => Seen(item.id)
WrittenOK == pc \in Tasked => HalfOK
CopiedOK == CopyTurns /\ ReadOK /\ FoundOK /\ WrittenOK

LEMMA SeenKept ==
  ASSUME Quietly, NEW n \in start.src, Seen(n)
  PROVE  Seen(n)'
BY DEF Quietly, Seen, Grown

\* A copy leaves the selected trees where they stand.
LEMMA CopyStands ==
  ASSUME WorldOK, StandsOK, ~sc.move, NEW n \in start.src
  PROVE  at[n] = start.at[n] /\ Lookup(start.at[n][1], start.at[n][2]) = n
<1>1. at[n] = start.at[n]
  BY DEF StandsOK, Gone
<1>2. OneEach
  BY DEF WorldOK, WellPlaced, OneEach
<1> QED
  BY <1>1, <1>2, SourceFacts, LookupIs

\* What becomes of the entry at work.
LEMMA TaskGoesOn ==
  ASSUME JobOK, Thinks \/ Acts, ~grumbled', pc \in Tasked, pc # "rename"
  PROVE  \/ /\ pc' \in Tasked /\ frames' = frames
            /\ \/ item'.id = item.id /\ item'.dir = item.dir /\ item'.name = item.name
               \/ /\ item'.dir = item.dir /\ item'.name = item.name /\ frames # <<>>
                  /\ item'.id = Lookup(item.dir, item.name) /\ item'.id \in Node
         \/ pc = "record"
         \/ /\ pc' = "opened" /\ copied' = copied \cup {item.id} /\ kind[item.id] = "dir"
            /\ \E d, c : frames' = Append(frames, NewFrame(d, c))
         \/ pc' = "end"
<1>0. ~Complain /\ ~Abandon /\ item \in Task /\ (pc \in MakingDir => kind[item.id] = "dir")
  BY DEF Complain, Abandon, JobOK, JobTyped, Sorted
<1>1. CASE Onward
  <2>1. pc' \in Tasked \/ pc' = "end" \/ pc = "record"
    <3>1. CASE TryRename \/ BeginCopy
      BY <1>0, <3>1 DEF TryRename, BeginCopy, Leave
    <3>2. CASE OpenSource \/ Settle
      BY <1>0, <3>2 DEF OpenSource, Settle
    <3>3. CASE CloseCopy \/ ReadFirst \/ ReadLast
      BY <3>3 DEF CloseCopy, ReadFirst, ReadLast
    <3>4. CASE Verify \/ LinkUnnamed \/ Publish \/ CopyLink
      BY <1>0, <3>4 DEF Verify, LinkUnnamed, Publish, CopyLink, GiveUpFile
    <3> QED
      BY <1>1, <3>1, <3>2, <3>3, <3>4 DEF Onward
  <2>2. frames' = frames
    BY <1>1, OnwardDoes
  <2> QED
    BY <1>1, <2>1, <2>2, OnwardNames
<1>2. CASE StopCopy
  BY <1>2 DEF StopCopy, Stop
<1>3. ~(Opened \/ Unwind \/ FinishRoot \/ DeleteNext \/ Look \/ CompareFirst \/ CompareLast \/ UnlinkEntry)
  BY Zenon DEF Opened, Unwind, FinishRoot, DeleteNext, Look, CompareFirst, CompareLast, UnlinkEntry
<1>4. ~(RemoveDir \/ RootGone \/ StopDelete \/ Finish \/ TakeRoot \/ WalkEntry)
  BY Zenon DEF RemoveDir, RootGone, StopDelete, Finish, TakeRoot, WalkEntry
<1>5. CASE PlaceRoot
  <2>1. \E f, a : item' = [item EXCEPT !.final = f, !.act = a] /\ pc' \in Tasked /\ frames' = frames
    BY <1>0, <1>5 DEF PlaceRoot
  <2> QED
    BY <1>0, <2>1 DEF Task
<1>6. CASE OpenDir
  <2> DEFINE n == Lookup(item.dir, item.name)
  <2>1. /\ item' = [item EXCEPT !.id = n, !.mode = data[n]] /\ pc' = "mkdir" /\ frames' = frames
        /\ IF frames = <<>> THEN n = item.id ELSE n \in Dirs
    BY <1>0, <1>6, Zenon DEF OpenDir
  <2> HIDE DEF n
  <2>2. item'.id = n /\ item'.dir = item.dir /\ item'.name = item.name
    BY <1>0, <2>1 DEF Task
  <2> QED
    BY <2>1, <2>2 DEF Dirs, n
<1>7. CASE Build
  <2>1. /\ pc' = "read" /\ frames' = frames
        /\ item' = [item EXCEPT !.new = Spare, !.where = item'.where, !.temp = item'.temp]
    BY <1>0, <1>7 DEF Build, context
  <2> QED
    BY <1>0, <2>1 DEF Task
<1>8. ASSUME NEW d, NEW c, Enter(d, c), pc \in {"mkdir", "pin"}
      PROVE  /\ pc' = "opened" /\ copied' = copied \cup {item.id} /\ kind[item.id] = "dir"
             /\ frames' = Append(frames, NewFrame(d, c))
  BY <1>0, <1>8 DEF Enter, Leave, NewFrame
<1>9. CASE MakeDir
  <2>1. \/ Enter(Lookup(item.ddir, item.final), FALSE) /\ pc = "mkdir"
        \/ /\ pc' = "pin" /\ frames' = frames
           /\ item' = [item EXCEPT !.new = Spare, !.where = item'.where, !.temp = item'.temp]
    BY <1>0, <1>9 DEF MakeDir
  <2>2. CASE /\ pc' = "pin" /\ frames' = frames
             /\ item' = [item EXCEPT !.new = Spare, !.where = item'.where, !.temp = item'.temp]
    BY <1>0, <2>2 DEF Task
  <2> QED
    BY <1>8, <2>1, <2>2
<1>10. CASE PinDir
  <2>1. Enter(item.new, TRUE) /\ pc = "pin"
    BY <1>0, <1>10, Zenon DEF PinDir
  <2> QED
    BY <1>8, <2>1
<1> QED
  BY <1>1, <1>2, <1>3, <1>4, <1>5, <1>6, <1>7, <1>9, <1>10, JobIs, Zenon DEF Aside

LEMMA TaskBegins ==
  ASSUME WorldOK, JobOK, SilentOK, Thinks \/ Acts, ~grumbled', pc \notin Tasked, pc' \in Tasked
  PROVE  \/ /\ TakeRoot /\ pc' = "place" /\ frames' = frames
            /\ item' = Entry(Lookup(Top, Head(left)), Top, Head(left), Dst) /\ Lookup(Top, Head(left)) # None
         \/ WalkEntry /\ \E x \in Inner.todo : Refills(Inner.todo \ {x}) /\ Taken(x, Lookup(Inner.src, x))
<1>0. ~Complain /\ ~Abandon
  BY DEF Complain, Abandon
<1>1. CASE Onward
  BY <1>1, OnwardDoes
<1>2. CASE Aside
  BY <1>2, AsideDoes
<1>3. ~(PlaceRoot \/ OpenDir \/ MakeDir \/ PinDir \/ Build)
  BY DEF PlaceRoot, OpenDir, MakeDir, PinDir, Build
<1>4. CASE TakeRoot
  BY <1>0, <1>4 DEF TakeRoot
<1>5. CASE WalkEntry
  BY <1>5, WalkQuiet
<1> QED
  BY <1>1, <1>2, <1>3, <1>4, <1>5, JobIs, Zenon

LEMMA TakenIs ==
  ASSUME NEW x, NEW n, Taken(x, n)
  PROVE  item'.id = n /\ item'.dir = Inner.src /\ item'.name = x /\ n = Lookup(Inner.src, x) /\ n # None
BY DEF Taken, Entry

LEMMA FoundStep ==
  ASSUME Ready, TreesOK, Quietly, Thinks \/ Acts, ~grumbled', ~sc.move, FoundOK
  PROVE  FoundOK'
<1>0. WorldOK /\ JobOK /\ SilentOK /\ StandsOK /\ start' = start /\ (pc = "rename" => sc.move)
  BY DEF Ready, Base, TreesOK, Quietly, RootOK
<1> SUFFICES ASSUME pc' \in Tasked, item'.id \in start.src
             PROVE  start.at[item'.id] = <<item'.dir, item'.name>>
  BY <1>0 DEF FoundOK
<1>1. at[item'.id] = start.at[item'.id]
  BY <1>0, CopyStands
<1>2. CASE pc \in Tasked
  <2>1. pc # "record" \/ (item'.id = item.id /\ item'.dir = item.dir /\ item'.name = item.name)
    <3>1. CASE Onward
      BY <1>0, <3>1, OnwardNames
    <3>2. CASE ~Onward /\ pc = "record"
      <4>1. ~(Opened \/ Unwind \/ StopCopy \/ FinishRoot \/ DeleteNext \/ Look \/ CompareFirst \/ CompareLast \/ UnlinkEntry)
        BY <3>2 DEF Opened, Unwind, StopCopy, FinishRoot, DeleteNext, Look, CompareFirst, CompareLast, UnlinkEntry
      <4>2. ~(RemoveDir \/ RootGone \/ StopDelete \/ Finish \/ TakeRoot \/ WalkEntry)
        BY <3>2 DEF RemoveDir, RootGone, StopDelete, Finish, TakeRoot, WalkEntry
      <4>3. ~(PlaceRoot \/ OpenDir \/ MakeDir \/ PinDir \/ Build)
        BY <3>2 DEF PlaceRoot, OpenDir, MakeDir, PinDir, Build
      <4> QED
        BY <3>2, <4>1, <4>2, <4>3, JobIs, Zenon DEF Aside
    <3> QED
      BY <3>1, <3>2
  <2>2. \/ item'.id = item.id /\ item'.dir = item.dir /\ item'.name = item.name
        \/ /\ item'.dir = item.dir /\ item'.name = item.name
           /\ item'.id = Lookup(item.dir, item.name) /\ item'.id \in Node
    BY <1>0, <1>2, <2>1, TaskGoesOn
  <2>3. CASE item'.id = item.id /\ item'.dir = item.dir /\ item'.name = item.name
    BY <1>2, <2>3 DEF FoundOK
  <2>4. CASE /\ item'.dir = item.dir /\ item'.name = item.name
             /\ item'.id = Lookup(item.dir, item.name) /\ item'.id \in Node
    BY <1>1, <2>4, LookupFound, NodeAssumption
  <2> QED
    BY <2>2, <2>3, <2>4
<1>3. CASE pc \notin Tasked
  <2>1. CASE TakeRoot /\ item' = Entry(Lookup(Top, Head(left)), Top, Head(left), Dst) /\ Lookup(Top, Head(left)) # None
    BY <1>1, <2>1, LookupFound DEF Entry
  <2>2. CASE \E x : Taken(x, Lookup(Inner.src, x))
    BY <1>1, <2>2, TakenIs, LookupFound
  <2> QED
    BY <1>0, <1>3, <2>1, <2>2, TaskBegins
<1> QED
  BY <1>2, <1>3

\* The steps that write, and what they leave.
LEMMA WritesHow ==
  ASSUME WorldOK, JobOK, Thinks \/ Acts, ~grumbled', pc' \in {"more", "verify", "link0", "publish", "record"}
  PROVE  /\ pc \in Tasked /\ item'.id = item.id
         /\ \/ pc = "read" /\ pc' = "more" /\ item'.half = data[item.id]
            \/ pc = "more" /\ pc' = "verify" /\ item' = item /\ (data[item.id] = item.half => data'[item.new] = item.half)
            \/ pc \in {"verify", "link0"} /\ pc' \in {"link0", "publish"} /\ item' = item /\ data' = data
            \/ pc = "publish" /\ pc' = "record" /\ item' = item /\ data' = data /\ <<item.new, data[item.new]>> \in held'
            \/ /\ pc = "link" /\ pc' = "record"
               /\ \E m \in Node : <<m, data[item.id]>> \in held'
<1>0. ~Complain /\ ~Abandon /\ (pc \in Tasked => item \in Task) /\ (pc \in Building => item.new \in Node)
  BY DEF Complain, Abandon, JobOK, JobTyped, Sorted
<1>1. CASE TryRename \/ BeginCopy \/ OpenSource \/ Settle \/ CloseCopy
  BY <1>0, <1>1 DEF TryRename, BeginCopy, OpenSource, Settle, CloseCopy, Leave, After
<1>2. CASE ReadFirst
  BY <1>0, <1>2 DEF ReadFirst, Task
<1>3. CASE Verify \/ LinkUnnamed \/ Publish
  BY <1>0, <1>3 DEF Verify, LinkUnnamed, Publish, GiveUpFile
<1>4. CASE CopyLink
  <2>1. /\ pc = "link" /\ pc' = "record" /\ Unused # {} /\ item' = [item EXCEPT !.new = Spare]
        /\ held' = held \cup {<<Spare, data[Lookup(item.dir, item.name)]>>}
        /\ Lookup(item.dir, item.name) = item.id
    BY <1>0, <1>4 DEF CopyLink
  <2> QED
    BY <1>0, <2>1, SpareUnused DEF Task
<1>5. CASE Aside
  BY <1>5, AsideDoes DEF JobOK
<1>6. CASE TakeRoot \/ PlaceRoot \/ OpenDir \/ Build
  BY <1>0, <1>6 DEF TakeRoot, PlaceRoot, OpenDir, Build, Leave, After
<1>7. CASE WalkEntry
  <2>1. pc = "walk" /\ (pc' = pc \/ pc' \in {"opendir", "link", "open"})
    BY <1>0, <1>7 DEF WalkEntry
  <2> QED
    BY <2>1
<1>8. CASE MakeDir \/ PinDir
  BY <1>0, <1>8 DEF MakeDir, PinDir, Enter, Leave, After
<1>9. CASE ReadLast
  BY <1>0, <1>9 DEF ReadLast, WorldOK
<1> QED
  BY <1>1, <1>2, <1>3, <1>4, <1>5, <1>6, <1>7, <1>8, <1>9, JobIs, Zenon DEF Onward

LEMMA WrittenStep ==
  ASSUME Ready, SourceOK', TreesOK, Quietly, Thinks \/ Acts, ~grumbled', CopiedOK
  PROVE  WrittenOK'
<1>0. /\ WorldOK /\ JobOK /\ start' = start /\ Grown
      /\ (pc \in FilePC => kind[item.id] = "file") /\ (pc = "link" => kind[item.id] = "link")
      /\ (pc \in Building => item.new \in Node)
  BY DEF Ready, Base, Quietly, JobOK, Sorted
<1> SUFFICES ASSUME pc' \in {"more", "verify", "link0", "publish", "record"}, item'.id \in start.src
             PROVE  /\ pc' = "more" => item'.half = data'[item'.id]
                    /\ pc' \in {"verify", "link0", "publish"} => data'[item'.new] = data'[item'.id]
                    /\ pc' = "record" => Seen(item.id)'
  BY <1>0 DEF WrittenOK, HalfOK
<1>1. pc \in Tasked /\ item'.id = item.id /\ item.id \in start.src
      /\ data'[item.id] = data[item.id] /\ kind'[item.id] = kind[item.id] /\ HalfOK
  BY <1>0, WritesHow DEF Quietly, CopiedOK, WrittenOK
<1>2. CASE pc = "read" /\ pc' = "more" /\ item'.half = data[item.id]
  BY <1>1, <1>2
<1>3. CASE pc = "more" /\ pc' = "verify" /\ item' = item /\ (data[item.id] = item.half => data'[item.new] = item.half)
  BY <1>1, <1>3 DEF HalfOK
<1>4. CASE pc \in {"verify", "link0"} /\ pc' \in {"link0", "publish"} /\ item' = item /\ data' = data
  BY <1>1, <1>4 DEF HalfOK
<1>5. CASE pc = "publish" /\ pc' = "record" /\ <<item.new, data[item.new]>> \in held'
  <2>1. <<item.new, data[item.id]>> \in held' /\ item.new \in Node /\ kind'[item.id] # "dir"
    BY <1>0, <1>1, <1>5 DEF HalfOK
  <2> QED
    BY <1>1, <1>5, <2>1 DEF Seen
<1>6. CASE pc = "link" /\ pc' = "record" /\ \E m \in Node : <<m, data[item.id]>> \in held'
  <2>1. kind'[item.id] # "dir"
    BY <1>0, <1>1, <1>6
  <2> QED
    BY <1>1, <1>6, <2>1 DEF Seen
<1> QED
  BY <1>0, <1>2, <1>3, <1>4, <1>5, <1>6, WritesHow

LEMMA CopyTurnsStep ==
  ASSUME Ready, TreesOK, Quietly, Live', Thinks \/ Acts, ~sc.move, CopiedOK
  PROVE  CopyTurns'
<1>0. /\ Base /\ WorldOK /\ JobOK /\ StandsOK /\ start' = start /\ ~grumbled' /\ (pc' = "end" => result' = "done")
      /\ (pc = "rename" => sc.move) /\ (pc \notin Copying => frames = <<>>)
      /\ \A k \in start.src : kind'[k] = kind[k] /\ data'[k] = data[k]
  BY DEF Ready, Base, TreesOK, RootOK, Quietly, JobOK, JobTyped, Live, Calm
<1> SUFFICES ASSUME NEW m, Picked(m), ~Seen(m), ~Seen(m)'
             PROVE  ToCome(m)' \/ (Handled(m)' /\ frames' = <<>>)
  BY <1>0, SeenKept, PickedIs DEF CopyTurns, Picked, ToCome, Handled
<1>1. m \in start.src /\ m \in Node /\ at[m] = start.at[m]
  BY <1>0, PickedIs, CopyStands
<1>2. ToCome(m) \/ (Handled(m) /\ frames = <<>>)
  BY <1>1 DEF CopiedOK, CopyTurns
<1>3. CASE ToCome(m)
  <2>1. CASE TakeRoot /\ pc' = "place" /\ item' = Entry(m, Top, start.at[m][2], Dst)
    <3>1. item'.id = m /\ frames' = frames /\ pc = "root"
      BY <2>1 DEF Entry, TakeRoot
    <3> QED
      BY <1>0, <2>1, <3>1 DEF Handled
  <2> QED
    BY <1>0, <1>1, <1>3, <2>1, ComesOrTaken
<1>4. CASE Handled(m) /\ frames = <<>>
  <2>1. pc \in Tasked /\ item.id = m /\ pc # "rename"
    BY <1>0, <1>4 DEF Handled
  <2>2. pc # "record"
    BY <1>1, <2>1 DEF CopiedOK, WrittenOK, HalfOK
  <2>3. pc' # "end"
    <3>1. Finish => pc = "root"
      BY DEF Finish
    <3> QED
      BY <1>0, <2>1, <3>1, EndsHow
  <2>4. ~(copied' = copied \cup {item.id} /\ kind[item.id] = "dir")
    BY <1>0, <1>1, <2>1 DEF Seen
  <2> QED
    BY <1>0, <1>4, <2>1, <2>2, <2>3, <2>4, TaskGoesOn DEF Handled
<1> QED
  BY <1>2, <1>3, <1>4

LEMMA FramesElse ==
  ASSUME Thinks \/ Acts, ~grumbled', ~(WalkEntry \/ Opened \/ Unwind), pc' # "end"
  PROVE  frames' = frames \/ \E d, c : frames' = Append(frames, NewFrame(d, c))
<1>0. ~Complain /\ ~Abandon
  BY DEF Complain, Abandon
<1>1. CASE TakeRoot \/ PlaceRoot \/ BeginCopy \/ OpenDir
  BY <1>0, <1>1, Zenon DEF TakeRoot, PlaceRoot, BeginCopy, OpenDir
<1>2. CASE OpenSource \/ Settle \/ ReadFirst \/ CloseCopy
  BY <1>2 DEF OpenSource, Settle, ReadFirst, CloseCopy, context
<1>3. CASE FinishRoot \/ DeleteNext \/ Look \/ CompareFirst \/ CompareLast
  BY <1>3 DEF FinishRoot, DeleteNext, Look, CompareFirst, CompareLast, removal
<1>4. CASE RootGone \/ StopDelete \/ StopCopy \/ Finish
  BY <1>4 DEF RootGone, StopDelete, StopCopy, Stop, Finish, removal
<1>5. CASE TryRename \/ Build \/ ReadLast
  BY <1>5 DEF TryRename, Build, ReadLast, context
<1>6. CASE Verify \/ LinkUnnamed \/ Publish \/ CopyLink
  BY <1>6 DEF Verify, LinkUnnamed, Publish, CopyLink, context
<1>7. CASE UnlinkEntry \/ RemoveDir
  BY <1>7 DEF UnlinkEntry, RemoveDir, removal
<1>8. CASE MakeDir \/ PinDir
  BY <1>0, <1>8 DEF MakeDir, PinDir, Enter, NewFrame
<1> QED
  BY <1>1, <1>2, <1>3, <1>4, <1>5, <1>6, <1>7, <1>8, Zenon DEF Thinks, Acts

\* What the job reads: the entry at work.
LEMMA CopiesHow ==
  ASSUME Thinks \/ Acts, ~grumbled'
  PROVE  \/ copied' = copied
         \/ pc \in {"open", "link"} /\ copied' = copied \cup {item.id}
         \/ /\ pc' = "opened" /\ copied' = copied \cup {item.id}
            /\ \E d, c : frames' = Append(frames, NewFrame(d, c))
<1>0. ~Complain /\ ~Abandon
  BY DEF Complain, Abandon
<1> USE DEF ghosts
<1>1. CASE TakeRoot \/ PlaceRoot \/ BeginCopy \/ OpenDir \/ Opened \/ WalkEntry \/ Unwind
  BY <1>1, Zenon DEF TakeRoot, PlaceRoot, BeginCopy, OpenDir, Opened, WalkEntry, Unwind
<1>2. CASE OpenSource \/ Settle \/ ReadFirst \/ CloseCopy
  BY <1>0, <1>2 DEF OpenSource, Settle, ReadFirst, CloseCopy
<1>3. CASE FinishRoot \/ DeleteNext \/ Look \/ CompareFirst \/ CompareLast
  BY <1>3 DEF FinishRoot, DeleteNext, Look, CompareFirst, CompareLast, removal
<1>4. CASE RootGone \/ StopDelete \/ StopCopy \/ Finish
  BY <1>4 DEF RootGone, StopDelete, StopCopy, Finish, removal
<1>5. CASE TryRename \/ Build \/ ReadLast
  BY <1>5 DEF TryRename, Build, ReadLast
<1>6. CASE Verify \/ LinkUnnamed \/ Publish \/ CopyLink
  BY <1>6 DEF Verify, LinkUnnamed, Publish, CopyLink
<1>7. CASE UnlinkEntry \/ RemoveDir
  BY <1>7 DEF UnlinkEntry, RemoveDir, removal
<1>8. CASE MakeDir \/ PinDir
  BY <1>0, <1>8 DEF MakeDir, PinDir, Enter, Leave, NewFrame
<1> QED
  BY <1>1, <1>2, <1>3, <1>4, <1>5, <1>6, <1>7, <1>8, Zenon DEF Thinks, Acts

LEMMA OpenedOnly ==
  ASSUME Thinks \/ Acts, pc = "opened"
  PROVE  Opened
<1>1. ~(TakeRoot \/ PlaceRoot \/ BeginCopy \/ OpenDir \/ WalkEntry \/ Unwind \/ OpenSource \/ Settle)
  BY DEF TakeRoot, PlaceRoot, BeginCopy, OpenDir, WalkEntry, Unwind, OpenSource, Settle
<1>2. ~(ReadFirst \/ CloseCopy \/ FinishRoot \/ DeleteNext \/ Look \/ CompareFirst \/ CompareLast)
  BY DEF ReadFirst, CloseCopy, FinishRoot, DeleteNext, Look, CompareFirst, CompareLast
<1>3. ~(RootGone \/ StopDelete \/ StopCopy \/ Finish \/ TryRename \/ MakeDir \/ PinDir \/ Build)
  BY DEF RootGone, StopDelete, StopCopy, Finish, TryRename, MakeDir, PinDir, Build
<1>4. ~(ReadLast \/ Verify \/ LinkUnnamed \/ Publish \/ CopyLink \/ UnlinkEntry \/ RemoveDir)
  BY DEF ReadLast, Verify, LinkUnnamed, Publish, CopyLink, UnlinkEntry, RemoveDir
<1> QED
  BY <1>1, <1>2, <1>3, <1>4, Zenon DEF Thinks, Acts

LEMMA OpenedLists ==
  ASSUME JobOK, Opened, ~grumbled'
  PROVE  /\ frames # <<>> /\ pc = "opened"
         /\ frames' = [frames EXCEPT ![Len(frames)].todo = {at[k][2] : k \in Children(Inner.src)}]
<1>0. ~Complain /\ ~Abandon
  BY DEF Complain, Abandon
<1>1. pc = "opened"
  BY DEF Opened
<1> QED
  BY <1>0, <1>1, Zenon DEF Opened, JobOK, JobTyped

LEMMA AppendDoes ==
  ASSUME frames \in Seq(Frame), NEW r, frames' = Append(frames, r)
  PROVE  /\ Len(frames) \in Nat /\ DOMAIN frames = 1 .. Len(frames)
         /\ DOMAIN frames' = 1 .. Len(frames) + 1 /\ Len(frames') = Len(frames) + 1
         /\ frames'[Len(frames) + 1] = r
         /\ \A i \in DOMAIN frames : i \in DOMAIN frames' /\ frames'[i] = frames[i]
OBVIOUS

\* An entry that is listed stays so, or is taken up.
LEMMA ListedGoesOn ==
  ASSUME Ready, TreesOK, Quietly, Thinks \/ Acts, ~grumbled', ~sc.move, pc' # "end",
         NEW n \in start.src, Listed(start.at[n][1], start.at[n][2])
  PROVE  Listed(start.at[n][1], start.at[n][2])' \/ (Handled(n)' /\ frames' # <<>>)
<1> DEFINE d == start.at[n][1]  x == start.at[n][2]
<1>0. /\ WorldOK /\ JobOK /\ SilentOK /\ StandsOK /\ start' = start /\ frames \in Seq(Frame)
      /\ (pc \in {"opened", "walk"} => frames # <<>>)
  BY DEF Ready, Base, TreesOK, Quietly, JobOK, JobTyped
<1>1. n \in Node /\ n # None /\ at[n] = <<d, x>> /\ Lookup(d, x) = n /\ d \in Node /\ x \in Name /\ at[n] # Nowhere
  BY <1>0, CopyStands, SourceFacts, NodeAssumption
<1>2. d' = d /\ x' = x
  BY <1>0
<1> HIDE DEF d, x
<1>3. (pc = "opened" /\ Inner.src = d) \/ \E i \in DOMAIN frames : frames[i].src = d /\ x \in frames[i].todo
  BY DEF Listed, d, x
<1> SUFFICES \/ \E i \in DOMAIN frames' : frames'[i].src = d /\ x \in frames'[i].todo
             \/ pc' \in Tasked /\ item'.id = n /\ frames' # <<>>
  BY <1>0 DEF Listed, Handled, d, x
<1>4. CASE Opened
  <2> DEFINE t == {at[k][2] : k \in Children(Inner.src)}
  <2>1. frames # <<>> /\ frames' = [frames EXCEPT ![Len(frames)].todo = t]
    BY <1>0, <1>4, OpenedLists
  <2>2. Inner.src = d => x \in t
    <3>1. Inner.src = d => n \in Children(Inner.src)
      BY <1>1 DEF Children
    <3>2. at[n][2] = x
      BY <1>1
    <3> QED
      BY <3>1, <3>2
  <2>3. t \subseteq Name
    <3> SUFFICES ASSUME NEW m \in Node, at[m] # Nowhere, at[m][1] = Inner.src
                 PROVE  at[m][2] \in Name
      BY DEF Children
    <3>1. at[m][2] \in Name \cup {Temp}
      BY <1>0, PlaceParts DEF WorldOK, WellPlaced
    <3>2. Inner.src # Stage
      BY <1>0, <2>1, InnerFrame, NodeAssumption
    <3> QED
      BY <1>0, <1>4, <3>1, <3>2 DEF JobOK, TempIs, Opened
  <2> HIDE DEF t
  <2>4. Refills(t)
    BY <2>1 DEF Refills
  <2>5. /\ DOMAIN frames' = DOMAIN frames /\ Len(frames) \in DOMAIN frames
        /\ \A i \in DOMAIN frames : /\ frames'[i].src = frames[i].src
                                    /\ frames'[i].todo = IF i = Len(frames) THEN t ELSE frames[i].todo
    BY <1>0, <2>1, <2>3, <2>4, RefillsDoes, InnerFrame
  <2>6. Inner = frames[Len(frames)]
    BY DEF Inner
  <2> QED
    BY <1>3, <2>2, <2>5, <2>6
<1>5. CASE ~Opened
  <2>0. PICK i \in DOMAIN frames : frames[i].src = d /\ x \in frames[i].todo
    BY <1>3, <1>5, OpenedOnly
  <2>1. CASE WalkEntry
    <3>1. PICK y \in Inner.todo :
            /\ Refills(Inner.todo \ {y}) /\ pc = "walk"
            /\ Lookup(Inner.src, y) = None \/ Taken(y, Lookup(Inner.src, y))
      BY <1>0, <2>1, WalkQuiet
    <3>2. /\ frames # <<>> /\ Inner.todo \subseteq Name /\ Inner = frames[Len(frames)]
      BY <1>0, <3>1, InnerFrame
    <3>3. /\ DOMAIN frames' = DOMAIN frames /\ frames' # <<>>
          /\ frames'[i].src = frames[i].src
          /\ frames'[i].todo = IF i = Len(frames) THEN Inner.todo \ {y} ELSE frames[i].todo
      BY <1>0, <3>1, <3>2, RefillsDoes
    <3>4. CASE i = Len(frames) /\ x = y
      <4>1. Lookup(Inner.src, y) = n
        BY <1>1, <2>0, <3>2, <3>4
      <4>2. Taken(y, n)
        BY <1>1, <3>1, <4>1
      <4>3. item'.id = n /\ pc' \in Tasked
        BY <4>2, TakenIs DEF Taken
      <4> QED
        BY <3>3, <4>3
    <3>5. CASE ~(i = Len(frames) /\ x = y)
      BY <2>0, <3>2, <3>3, <3>5
    <3> QED
      BY <3>4, <3>5
  <2>2. CASE Unwind
    <3>1. Unwinds /\ Inner.todo = {}
      BY <2>2 DEF Unwind, Unwinds
    <3>2. i # Len(frames)
      BY <2>0, <3>1 DEF Inner
    <3>3. Len(frames) \in Nat /\ i \in 1 .. Len(frames) /\ DOMAIN frames' = 1 .. Len(frames) - 1
          /\ \A j \in DOMAIN frames' : frames'[j] = frames[j]
      BY <1>0, <3>1, UnwindsDoes
    <3>4. i \in DOMAIN frames'
      BY <3>2, <3>3
    <3> QED
      BY <2>0, <3>3, <3>4
  <2>3. CASE frames' = frames
    BY <2>0, <2>3
  <2>4. CASE \E e, c : frames' = Append(frames, NewFrame(e, c))
    BY <1>0, <2>0, <2>4, AppendDoes
  <2> QED
    BY <1>5, <2>1, <2>2, <2>3, <2>4, FramesElse
<1> QED
  BY <1>4, <1>5

LEMMA ReadStep ==
  ASSUME Ready, TreesOK, Quietly, Live', Thinks \/ Acts, ~sc.move, CopiedOK
  PROVE  ReadOK'
<1>0. /\ Base /\ WorldOK /\ JobOK /\ StandsOK /\ start' = start /\ ~grumbled' /\ (pc' = "end" => result' = "done")
      /\ (pc = "rename" => sc.move) /\ frames \in Seq(Frame) /\ (pc \notin Copying => frames = <<>>)
  BY DEF Ready, Base, TreesOK, RootOK, Quietly, JobOK, JobTyped, Live, Calm
<1> SUFFICES ASSUME NEW n \in start.src, start.at[n][1] \in start.src \cap copied', ~Seen(n), ~Seen(n)'
             PROVE  Listed(start.at[n][1], start.at[n][2])' \/ (Handled(n)' /\ frames' # <<>>)
  BY <1>0, SeenKept DEF ReadOK
<1> DEFINE d == start.at[n][1]  x == start.at[n][2]
<1>1. d \in Node /\ kind[d] = "dir" /\ kind'[n] = kind[n] /\ n \in Node
  BY <1>0, SourceFacts, SourceKind DEF Quietly, Ready
<1>2. d' = d /\ x' = x
  BY <1>0
<1>3. CASE d \notin copied
  <2>1. ~(pc \in {"open", "link"} /\ copied' = copied \cup {item.id})
    <3>1. pc \in {"open", "link"} => kind[item.id] # "dir"
      BY <1>0 DEF JobOK, Sorted
    <3> QED
      BY <1>1, <1>3, <3>1
  <2>2. pc' = "opened" /\ item.id = d /\ \E e, c : frames' = Append(frames, NewFrame(e, c))
    BY <1>0, <1>3, <2>1, CopiesHow
  <2>3. PICK e, c : frames' = Append(frames, NewFrame(e, c))
    BY <2>2
  <2>4. frames'[Len(frames')] = NewFrame(e, c)
    BY <1>0, <2>3, AppendDoes
  <2>5. Inner'.src = d
    BY <2>2, <2>4 DEF Inner, NewFrame
  <2> QED
    BY <1>2, <2>2, <2>5 DEF Listed
<1>4. CASE d \in copied
  <2>1. Finish => pc = "root" /\ left = <<>>
    BY DEF Finish
  <2>2. pc' = "end" => pc = "root" /\ frames = <<>>
    BY <1>0, <2>1, EndsHow
  <2>3. Listed(d, x) \/ (Handled(n) /\ frames # <<>>)
    BY <1>4 DEF CopiedOK, ReadOK
  <2>4. CASE Listed(d, x)
    <3>1. pc' # "end"
      BY <2>2, <2>4 DEF Listed
    <3> QED
      BY <1>0, <2>4, <3>1, ListedGoesOn
  <2>5. CASE Handled(n) /\ frames # <<>>
    <3>1. pc \in Tasked /\ item.id = n /\ pc # "rename" /\ pc' # "end"
      BY <1>0, <2>2, <2>5 DEF Handled
    <3>2. pc # "record"
      BY <3>1 DEF CopiedOK, WrittenOK, HalfOK
    <3>3. ~(copied' = copied \cup {item.id} /\ kind[item.id] = "dir")
      BY <1>1, <3>1 DEF Seen
    <3>4. Lookup(item.dir, item.name) = n
      <4>1. start.at[n] = <<item.dir, item.name>>
        BY <3>1 DEF CopiedOK, FoundOK
      <4> QED
        BY <1>0, <4>1, CopyStands
    <3> QED
      BY <1>0, <2>5, <3>1, <3>2, <3>3, <3>4, TaskGoesOn DEF Handled
  <2> QED
    BY <2>3, <2>4, <2>5
<1> QED
  BY <1>3, <1>4

LEMMA CopiedRests ==
  ASSUME WorldOK, JobOK, Quietly, Rests, CopiedOK, OwnOK, WriteOK
  PROVE  CopiedOK'
<1>1. UNCHANGED <<sc, start, pc, left, item, frames, copied, held>>
  BY DEF Rests, Quietly
<1>2. \A m : Picked(m)' <=> Picked(m)
  BY <1>1 DEF Picked
<1>3. \A n \in start.src : Seen(n) => Seen(n)'
  BY SeenKept
<1>4. CopyTurns'
  BY <1>1, <1>2, <1>3, PickedIs DEF CopiedOK, CopyTurns, ToCome, Handled
<1>5. ReadOK'
  BY <1>1, <1>3 DEF CopiedOK, ReadOK, Listed, Handled, Inner
<1>6. FoundOK'
  BY <1>1 DEF CopiedOK, FoundOK
<1>7. WrittenOK'
  <2>1. pc \in Building => data'[item.new] = data[item.new]
    BY DEF Rests, WriteOK, HomeOK
  <2> QED
    BY <1>1, <1>3, <2>1 DEF CopiedOK, WrittenOK, HalfOK, Quietly
<1> QED
  BY <1>4, <1>5, <1>6, <1>7 DEF CopiedOK

LEMMA CopiedStep ==
  ASSUME Ready, SourceOK', TreesOK, Live', Dst \notin start.src, ~sc.move, CopiedOK, [Next]_vars
  PROVE  CopiedOK'
<1>1. Quietly /\ (Thinks \/ Acts \/ Rests)
  BY QuietStep DEF Ready, Live
<1>2. ~grumbled' /\ WorldOK /\ JobOK /\ OwnOK /\ WriteOK
  BY DEF Live, Calm, Ready, Base
<1>3. CASE Thinks \/ Acts
  BY <1>1, <1>2, <1>3, CopyTurnsStep, ReadStep, FoundStep, WrittenStep, Zenon DEF CopiedOK
<1>4. CASE Rests
  BY <1>1, <1>2, <1>4, CopiedRests
<1> QED
  BY <1>1, <1>3, <1>4

\* A copy that is done saw every entry.
LEMMA CopiedWhole ==
  ASSUME WorldOK, JobOK, SourceOK, CopiedOK, pc = "end", NEW n \in start.src
  PROVE  Seen(n)
<1> DEFINE P == {k \in start.src : Seen(k)}
<1>0. frames = <<>>
  BY DEF JobOK, JobTyped
<1>1. \A k \in start.src : Selects(start, k) => k \in P
  BY SourceFacts DEF CopiedOK, CopyTurns, Picked, ToCome, Handled
<1>2. ASSUME NEW k \in start.src, start.at[k][1] \in start.src \cap P
      PROVE  k \in P
  <2>1. kind[start.at[k][1]] = "dir"
    BY <1>2, SourceFacts DEF SourceOK
  <2>2. start.at[k][1] \in start.src \cap copied
    BY <1>2, <2>1 DEF Seen
  <2> QED
    BY <1>0, <2>2 DEF CopiedOK, ReadOK, Listed, Handled
<1> HIDE DEF P
<1>3. start.src \subseteq P
  BY <1>1, <1>2, SourceInduction
<1> QED
  BY <1>3 DEF P

-----------------------------------------------------------------------------
(* A destination in the selected trees: the root it lies under is never    *)
(* taken up in silence, so no job that said nothing comes to its end.      *)
\* The destination and the directories above it, as the job found them.
Way == AncestorsIn(start.at, Dst)
WayOK == \A n \in Node : n \in Way => at[n] = start.at[n]
Spared == \A m \in Node : Picked(m) /\ m \in Way => ToCome(m)

LEMMA SelfClimbs == ASSUME NEW a, NEW n PROVE n \in AncestorsIn(a, n)
BY DEF AncestorsIn, UpIn

\* Nothing stands above what was climbed up to Top.
LEMMA AboveClosed ==
  ASSUME NEW a, a[Top] = Nowhere, NEW n \in Node, Top \in AncestorsIn(a, n)
  PROVE  UpIn(a, AncestorsIn(a, n)) = AncestorsIn(a, n)
<1> DEFINE U1 == UpIn(a, {n})  U2 == UpIn(a, U1)  U3 == UpIn(a, U2)  U4 == UpIn(a, U3)
           U5 == UpIn(a, U4)   U6 == UpIn(a, U5)  U7 == UpIn(a, U6)
<1>0. AncestorsIn(a, n) = U7
  BY Zenon DEF AncestorsIn
<1>1. Chain(a, {n})
  <2>1. CASE n = Top
    BY <2>1 DEF Chain, UpIn
  <2>2. CASE n # Top
    <3>1. UpIn(a, {n}) \subseteq {n} \cup {a[n][1]}
      BY DEF UpIn
    <3> QED
      BY <2>2, <3>1 DEF Chain
  <2> QED
    BY <2>1, <2>2
<1>2. Chain(a, U1)
  BY <1>1, ChainGrows
<1> HIDE DEF U1
<1>3. Chain(a, U2)
  BY <1>2, ChainGrows
<1> HIDE DEF U2
<1>4. Chain(a, U3)
  BY <1>3, ChainGrows
<1> HIDE DEF U3
<1>5. Chain(a, U4)
  BY <1>4, ChainGrows
<1> HIDE DEF U4
<1>6. Chain(a, U5)
  BY <1>5, ChainGrows
<1> HIDE DEF U5
<1>7. Chain(a, U6)
  BY <1>6, ChainGrows
<1> HIDE DEF U6
<1>8. Chain(a, U7)
  BY <1>7, ChainGrows
<1> HIDE DEF U7
<1> QED
  BY <1>0, <1>8 DEF Chain

\* It leads from Top to the destination, through directories of the selected trees.
LEMMA WayFacts ==
  ASSUME WorldOK, SourceOK, Dst \in start.src
  PROVE  /\ Way \subseteq start.src \cup {Top} /\ Top \in Way
         /\ UpIn(start.at, Way) = Way
         /\ \A n \in Way : n \in Node /\ kind[n] = "dir"
         /\ \A n \in Way : n = Dst \/ \E c \in Way \cap start.src : start.at[c][1] = n
<1>0. Top \in Node /\ Dst \in Node /\ kind[Dst] = "dir" /\ kind[Top] = "dir" /\ start.at[Top] = Nowhere
  BY NodeAssumption, LayoutFacts DEF WorldOK
<1>1. Way \subseteq start.src \cup {Top}
  <2> DEFINE Q == start.src \cup {Top}
  <2>1. \A m \in Q : start.at[m] # Nowhere => start.at[m][1] \in Q
    BY <1>0, SourceFacts
  <2>2. ASSUME NEW S, S \subseteq Q
        PROVE  UpIn(start.at, S) \subseteq Q
    BY <2>1, <2>2 DEF UpIn
  <2>3. Dst \in Q
    OBVIOUS
  <2> HIDE DEF Q
  <2>4. Way \subseteq Q
    BY <2>2, <2>3, ClimbInside DEF Way
  <2> QED
    BY <2>4 DEF Q
<1>2. Top \in Way
  BY LayoutFacts DEF Way
<1>3. UpIn(start.at, Way) = Way
  BY <1>0, <1>2, AboveClosed DEF Way
<1>4. \A n \in Way : n = Dst \/ \E c \in Way \cap start.src : start.at[c][1] = n
  <2> DEFINE Q == {n \in Way : n = Dst \/ \E c \in Way \cap start.src : start.at[c][1] = n}
  <2>1. \A m \in Way \cap Node : start.at[m] # Nowhere => start.at[m][1] \in Way
    BY <1>3 DEF UpIn
  <2>2. \A m \in Q \cap Node : start.at[m] # Nowhere => start.at[m][1] \in Q
    BY <1>0, <1>1, <2>1
  <2>3. ASSUME NEW S, S \subseteq Q
        PROVE  UpIn(start.at, S) \subseteq Q
    BY <2>2, <2>3 DEF UpIn
  <2>4. Dst \in Q
    BY <1>0, SelfClimbs DEF Way
  <2> HIDE DEF Q
  <2>5. Way \subseteq Q
    BY <2>3, <2>4, ClimbInside DEF Way
  <2> QED
    BY <2>5 DEF Q
<1>5. \A n \in Way : n \in Node /\ kind[n] = "dir"
  <2> TAKE n \in Way
  <2>1. CASE n = Dst \/ n = Top
    BY <1>0, <2>1
  <2>2. CASE n # Dst /\ n # Top
    <3>1. PICK c \in start.src : start.at[c][1] = n
      BY <1>4, <2>2
    <3>2. n \in start.src /\ start.kind[n] = "dir"
      BY <1>1, <2>2, <3>1, SourceFacts
    <3> QED
      BY <3>2, SourceFacts DEF SourceOK
  <2> QED
    BY <2>1, <2>2
<1> QED
  BY <1>1, <1>2, <1>3, <1>4, <1>5

\* While it stands it is what the job sees above the destination.
LEMMA WayIsAbove ==
  ASSUME WorldOK, SourceOK, Dst \in start.src, WayOK
  PROVE  Ancestors(Dst) = Way
<1>1. \A m \in Way : m \in Node /\ at[m] = start.at[m]
  BY WayFacts DEF WayOK
<1>2. UpIn(start.at, Way) = Way /\ Dst \in Way
  BY WayFacts, SelfClimbs DEF Way
<1> DEFINE Q == Way
<1> HIDE DEF Q
<1>3. ASSUME NEW S, S \subseteq Q
      PROVE  UpIn(start.at, S) \subseteq Q /\ UpIn(start.at, S) = UpIn(at, S)
  <2>1. UpIn(start.at, S) \subseteq UpIn(start.at, Q)
    BY <1>3, UpGrows
  <2>2. UpIn(start.at, S) = UpIn(at, S)
    BY <1>1, <1>3 DEF UpIn, Q
  <2> QED
    BY <1>2, <2>1, <2>2 DEF Q
<1>4. AncestorsIn(start.at, Dst) = AncestorsIn(at, Dst)
  BY <1>2, <1>3, ClimbAlike DEF Q
<1> QED
  BY <1>4 DEF Way, Ancestors

\* No step takes a directory of it away.
LEMMA WayStays ==
  ASSUME Ready, SourceOK', Dst \in start.src, Quietly, Thinks \/ Acts \/ Rests, WayOK
  PROVE  WayOK'
<1>0. WorldOK /\ JobOK /\ SourceOK /\ start' = start /\ Dst' = Dst /\ Way' = Way
  BY DstSame DEF Ready, Base, Quietly, Way
<1> SUFFICES ASSUME NEW n \in Node, n \in Way
             PROVE  at'[n] = start.at[n]
  BY <1>0 DEF WayOK
<1>1. at[n] = start.at[n] /\ kind[n] = "dir" /\ n \in start.src \cup {Top}
  BY <1>0, WayFacts DEF WayOK
<1>2. CASE n = Top
  BY <1>1, <1>2 DEF Ready, SourceOK
<1>3. CASE n \in start.src /\ (Thinks \/ Rests)
  BY <1>1, <1>3, ThinksStays DEF Rests, world
<1>4. CASE n \in start.src /\ Acts
  <2>0. JobDid /\ n \notin made' /\ at[n] # Nowhere
    BY <1>0, <1>1, <1>4, ActsBase, SourceFacts DEF Ready, SourceOK
  <2>1. at'[n] # Nowhere
    <3> SUFFICES ASSUME at'[n] = Nowhere PROVE FALSE
      OBVIOUS
    <3>1. Accounted(n)
      BY <1>4, <2>0, ActsAccount DEF Vanishes, Ready
    <3>2. Children(n) = {} /\ n \in copied
      BY <1>1, <3>1 DEF Accounted
    <3>3. n # Dst
      BY <3>2 DEF Ready, OwnOK
    <3>4. PICK c \in Way \cap start.src : start.at[c][1] = n
      BY <1>0, <3>3, WayFacts
    <3>5. c \in Children(n)
      BY <1>0, <3>4, SourceFacts DEF Children, WayOK
    <3> QED
      BY <3>2, <3>5
  <2>2. ASSUME pc = "rename", n = item.id
        PROVE  at'[n] = at[n]
    <3>1. TryRename /\ RenameRefused
      BY <1>0, <1>4, <2>2, RenamesOnly, WayIsAbove DEF RenameRefused
    <3> QED
      BY <3>1 DEF TryRename, world
  <2>3. pc \in {"pin", "link0", "publish"} => n # item.new
    BY <1>0, <1>4 DEF SourceOK
  <2> QED
    BY <1>1, <2>0, <2>1, <2>2, <2>3 DEF JobDid
<1> QED
  BY <1>1, <1>2, <1>3, <1>4

LEMMA SparedStep ==
  ASSUME Ready, Dst \in start.src, Quietly, Live', Thinks \/ Acts \/ Rests, WayOK, Spared
  PROVE  Spared'
<1>0. WorldOK /\ JobOK /\ SourceOK /\ start' = start /\ Dst' = Dst /\ Way' = Way /\ ~grumbled'
  BY DstSame DEF Ready, Base, Quietly, Way, Live, Calm
<1> SUFFICES ASSUME NEW m, Picked(m), m \in Way
             PROVE  ToCome(m)'
  BY <1>0 DEF Spared, Picked
<1>1. ToCome(m) /\ at[m] = start.at[m]
  BY DEF Spared, Picked, WayOK
<1>2. CASE Rests
  BY <1>0, <1>1, <1>2 DEF Rests, ToCome
<1>3. CASE Thinks \/ Acts
  <2>1. ~(TakeRoot /\ pc' = "place" /\ item' = Entry(m, Top, start.at[m][2], Dst))
    <3> SUFFICES ASSUME TakeRoot, pc' = "place", item' = Entry(m, Top, start.at[m][2], Dst)
                 PROVE  FALSE
      OBVIOUS
    <3>1. item'.id = m
      BY DEF Entry
    <3>2. InsideSource(m, Ancestors(Dst))
      BY <1>0, WayFacts, WayIsAbove DEF InsideSource
    <3>3. PICK k : /\ k = Lookup(Top, Head(left)) /\ ~InsideSource(k, Ancestors(Dst))
                   /\ item' = Entry(k, Top, Head(left), Dst)
      BY <1>0 DEF TakeRoot, Complain
    <3>4. item'.id = k
      BY <3>3 DEF Entry
    <3> QED
      BY <3>1, <3>2, <3>3, <3>4
  <2> QED
    BY <1>1, <1>3, <2>1, ComesOrTaken DEF Ready
<1> QED
  BY <1>2, <1>3

\* One root is spared.
LEMMA SparedWaits ==
  ASSUME WorldOK, SourceOK, Dst \in start.src, Spared
  PROVE  pc # "end"
<1>1. Top # Dst /\ Top \notin start.src
  BY SourceFacts
<1>2. PICK c \in Way \cap start.src : start.at[c][1] = Top
  BY <1>1, WayFacts
<1>3. Picked(c)
  BY <1>1, <1>2, SourceFacts DEF Picked
<1> QED
  BY <1>2, <1>3 DEF Spared, Picked, ToCome

LEMMA InitWay == ASSUME Init PROVE WayOK /\ Spared
BY InitTurns, Zenon DEF Init, WayOK, Spared

-----------------------------------------------------------------------------
(* Together: a job that ends done and said nothing did the whole of it.    *)
QuietOK ==
    /\ SourceOK /\ RootOK
    /\ Calm /\ Dst \notin start.src => TreesOK
    /\ Live /\ Dst \notin start.src /\ sc.move => MovedOK
    /\ Live /\ Dst \notin start.src /\ ~sc.move => CopiedOK
    /\ Live /\ Dst \in start.src => WayOK /\ Spared

LEMMA JobRuns == ASSUME Thinks \/ Acts PROVE pc # "end"
<1>1. CASE TakeRoot \/ PlaceRoot \/ BeginCopy \/ OpenDir \/ Opened \/ WalkEntry \/ Unwind
  BY <1>1, Zenon DEF TakeRoot, PlaceRoot, BeginCopy, OpenDir, Opened, WalkEntry, Unwind
<1>2. CASE OpenSource \/ Settle \/ ReadFirst \/ CloseCopy \/ FinishRoot \/ DeleteNext \/ Look
  BY <1>2 DEF OpenSource, Settle, ReadFirst, CloseCopy, FinishRoot, DeleteNext, Look
<1>3. CASE CompareFirst \/ CompareLast \/ RootGone \/ StopDelete \/ Finish
  BY <1>3 DEF CompareFirst, CompareLast, RootGone, StopDelete, Finish
<1>4. CASE TryRename \/ MakeDir \/ PinDir \/ Build \/ ReadLast \/ Verify
  BY <1>4 DEF TryRename, MakeDir, PinDir, Build, ReadLast, Verify
<1>5. CASE LinkUnnamed \/ Publish \/ CopyLink \/ StopCopy \/ UnlinkEntry \/ RemoveDir
  BY <1>5 DEF LinkUnnamed, Publish, CopyLink, StopCopy, UnlinkEntry, RemoveDir
<1> QED
  BY <1>1, <1>2, <1>3, <1>4, <1>5, Zenon DEF Thinks, Acts

LEMMA LiveBefore ==
  ASSUME Ready, Live', [Next]_vars
  PROVE  Live
<1>1. Quietly /\ (Thinks \/ Acts \/ Rests)
  BY QuietStep DEF Ready, Live
<1>2. Rests => pc' = pc /\ result' = result
  BY DEF Rests
<1> QED
  BY <1>1, <1>2, JobRuns DEF Live, Quietly

LEMMA RootAlways ==
  ASSUME Ready, [Next]_vars
  PROVE  RootOK'
<1>0. Base /\ WorldOK /\ JobOK /\ TaskOK /\ OwnOK /\ MoveOK /\ RootOK
  BY DEF Ready, Base, MoveOK
<1>1. CASE Thinks \/ Acts
  BY <1>0, <1>1, RootStep
<1>2. CASE Others
  <2>1. OthersDid /\ UNCHANGED job
    BY <1>0, <1>2, OthersBase
  <2>2. UNCHANGED <<sc, pc, root, item, frames, del>>
    BY <2>1 DEF job, ledgerVars
  <2>3. \A n \in Node : kind[n] # "none" => kind'[n] = kind[n]
    BY <2>1 DEF OthersDid
  <2> QED
    BY <1>0, <2>2, <2>3, RootStays
<1>3. CASE Cancel \/ (Tick /\ UNCHANGED job) \/ UNCHANGED vars
  <2>1. UNCHANGED <<sc, pc, root, item, frames, del, kind>>
    BY <1>3 DEF Cancel, Tick, job, vars, world, ledgerVars
  <2> QED
    BY <1>0, <2>1, RootStays
<1> QED
  BY <1>1, <1>2, <1>3, StepIs

LEMMA QuietOKStep ==
  ASSUME Base, OwnOK, WriteOK, MoveOK, QuietOK, [Next]_vars
  PROVE  QuietOK'
<1>0. Ready
  BY DEF Ready, QuietOK
<1>1. SourceOK' /\ RootOK'
  BY <1>0, SourceStep, RootAlways DEF Ready
<1>2. ASSUME Calm'
      PROVE  Quietly /\ (Thinks \/ Acts \/ Rests) /\ Calm /\ sc' = sc /\ start' = start /\ Dst' = Dst
  BY <1>0, <1>2, QuietStep, DstSame DEF Ready, Quietly
<1>3. (Calm /\ Dst \notin start.src => TreesOK)'
  BY <1>0, <1>1, <1>2, TreesStep DEF QuietOK
<1>4. (Live => Calm)'
  BY DEF Live
<1>5. Live' => Live /\ Calm
  BY <1>0, LiveBefore DEF Live
<1>6. (Live /\ Dst \notin start.src /\ sc.move => MovedOK)'
  BY <1>0, <1>1, <1>2, <1>3, <1>4, <1>5, MovedStep DEF QuietOK
<1>7. (Live /\ Dst \notin start.src /\ ~sc.move => CopiedOK)'
  BY <1>0, <1>1, <1>2, <1>4, <1>5, CopiedStep DEF QuietOK
<1>8. (Live /\ Dst \in start.src => WayOK /\ Spared)'
  BY <1>0, <1>1, <1>2, <1>4, <1>5, WayStays, SparedStep DEF QuietOK
<1> QED
  BY <1>1, <1>3, <1>6, <1>7, <1>8 DEF QuietOK

LEMMA InitQuiet == ASSUME Init PROVE QuietOK
<1>0. SourceOK /\ RootOK /\ TreesOK /\ WayOK /\ Spared
  BY InitSource, InitTrees, InitWay
<1>1. pc = "root" /\ copied = {}
  BY DEF Init
<1>2. MovedOK
  BY <1>1, InitTurns DEF MovedOK, MoveTurns, MoveWay, Recorded, Picked
<1>3. CopyTurns /\ ReadOK
  BY <1>1, InitTurns DEF CopyTurns, ReadOK, Picked
<1>4. FoundOK /\ WrittenOK
  BY <1>1 DEF FoundOK, WrittenOK
<1> QED
  BY <1>0, <1>2, <1>3, <1>4 DEF QuietOK, CopiedOK

LEMMA QuietIsWhole ==
  ASSUME Base, QuietOK
  PROVE  QuietMeansWhole
<1> SUFFICES ASSUME pc = "end", result = "done", Live, NEW n \in start.src
             PROVE  /\ start.kind[n] \in {"file", "link"} => \E m \in Node : <<m, data[n]>> \in held
                    /\ sc.move => <<n, data[n]>> \in held \/ at[n] = Nowhere
  BY Zenon DEF QuietMeansWhole, Live, Calm
<1>0. WorldOK /\ JobOK /\ SourceOK /\ n \in Node /\ kind[n] = start.kind[n]
  BY SourceFacts DEF Base, QuietOK, SourceOK
<1>1. Dst \notin start.src /\ TreesOK
  BY <1>0, SparedWaits DEF QuietOK, Live
<1>2. CASE sc.move
  <2>1. Gone(n)
    BY <1>0, <1>1, <1>2, MovedWhole DEF QuietOK
  <2> QED
    BY <1>0, <1>2, <2>1 DEF Gone
<1>3. CASE ~sc.move
  <2>1. Seen(n)
    BY <1>0, <1>1, <1>3, CopiedWhole DEF QuietOK
  <2> QED
    BY <1>0, <1>3, <2>1 DEF Seen
<1> QED
  BY <1>2, <1>3

\* What the job still has to do, and what it did, is the whole of the selected
\* trees, until somebody else touches them or the job complains.
THEOREM QuietInvariant == Spec => [](Base /\ QuietOK)
<1>1. Init => QuietOK
  BY InitQuiet
<1>2. Base /\ OwnOK /\ WriteOK /\ MoveOK /\ QuietOK /\ [Next]_vars => QuietOK'
  BY QuietOKStep
<1> QED
  BY <1>1, <1>2, MoveInvariant, PTL DEF Spec

\* A job that ends done without having said anything reproduced every file and
\* link of the selected trees that nobody else touched, and a move left none of
\* their entries behind.
THEOREM QuietEndsMeanWhole == Spec => []QuietMeansWhole
<1>1. Base /\ QuietOK => QuietMeansWhole
  BY QuietIsWhole
<1> QED
  BY <1>1, QuietInvariant, PTL
=============================================================================
