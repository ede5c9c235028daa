---------------------------- MODULE TrashProofs ----------------------------
(***************************************************************************)
(* Theorems about the trash of a volume, for every number of requests that *)
(* publish it, of directories of other users and of moves between; and     *)
(* about the jobs in one trash, for every number of jobs, items and        *)
(* entries, of kills, power cuts, failing calls and changes at Home.       *)
(*                                                                         *)
(* RootInv and BinInv are the inductive invariants. RootInv says what a    *)
(* publisher's descriptor and its last look at a name are worth. The parts *)
(* of BinInv say what holds for a job at each of its steps (Fits), and     *)
(* what every entry keeps.                                                 *)
(***************************************************************************)
EXTENDS Trash, TLAPS

-----------------------------------------------------------------------------
(* The publication of the trash.                                           *)

\* A publisher that is past "make" works on a name of its own.
Busy == {"open", "prove", "chmod", "publish", "verify", "check", "remove"}
RootType ==
    /\ recent \subseteq Foreign
    /\ place \in [Spot -> Dirs \cup {NoDir}]
    /\ mode \in [Dirs -> Modes]
    /\ step \in [Publisher -> Busy \cup Done \cup {"look", "make"}]
    /\ round \in [Publisher -> Nat]
    /\ held \in [Publisher -> Dirs \cup {NoDir}]
    /\ made \in [Publisher -> Dirs \cup {NoDir}]
    /\ after \in [Publisher -> {"look", "refused"}]
    /\ removed \subseteq [dir : Dirs, swapped : BOOLEAN]
Rounds ==
    \A p \in Publisher :
        /\ step[p] \in Busy => round[p] \in 1 .. MaxPublishAttempts
        /\ step[p] = "make" => round[p] < MaxPublishAttempts

\* Made just now, or never opened: a directory somebody else's that is not fresh
\* keeps its mode, because no publisher's descriptor gets as far as the fchmod.
Proved(d) == d \in Temp \cup recent \/ mode[d] = "0700"
Descriptors ==
    \A p \in Publisher :
        /\ step[p] \in {"prove", "chmod"} => held[p] \in Dirs
        /\ step[p] = "chmod" => held[p] \in Temp \cup recent
        /\ made[p] # NoDir => Proved(made[p])
\* What stood under the name when it was looked at again stands there until others
\* change it: no other publisher works on that name.
StandsProved ==
    \A p \in Publisher :
        step[p] = "remove" /\ p \notin swapped /\ place[Own(p)] # NoDir
            => Proved(place[Own(p)])
RootInv ==
    RootType /\ Rounds /\ Descriptors /\ StandsProved /\ OnlyProvedDirectories

\* A name a publisher works on is one of the names there are, and nobody else's.
LEMMA OwnSpot ==
    ASSUME RootType, Rounds, NEW p \in Publisher, step[p] \in Busy
    PROVE  /\ Own(p) \in Temp /\ Own(p) \in Spot /\ Own(p) # DirName
           /\ place[Own(p)] \in Dirs \cup {NoDir}
           /\ \A q \in Publisher \ {p} : \A n \in Nat : <<q, n>> # Own(p)
<1>1. Own(p) \in Temp /\ Own(p) # DirName
  BY DEF Rounds, RootType, Own, Temp, DirName
<1>2. \A q \in Publisher \ {p} : \A n \in Nat : <<q, n>> # Own(p)
  BY DEF Own
<1> QED
  BY <1>1, <1>2 DEF RootType, Spot

LEMMA OwnInit == Init => RootInv
<1> SUFFICES ASSUME Init PROVE RootInv
  OBVIOUS
<1> USE DEF RootInv, RootType, Rounds, Descriptors, StandsProved,
            OnlyProvedDirectories, Dirs, Busy, Done, Modes
<1>1. CASE RootInit
  BY <1>1 DEF RootInit
<1>2. CASE ~RootInit
  <2>1. /\ recent = {}
        /\ place = [s \in Spot |-> IF s = DirName THEN Published ELSE NoDir]
        /\ mode = [d \in Dirs |-> IF d = Published THEN "sticky" ELSE "0700"]
        /\ step = [p \in Publisher |-> "have"]
        /\ round = [p \in Publisher |-> 0]
        /\ held = [p \in Publisher |-> NoDir] /\ made = [p \in Publisher |-> NoDir]
        /\ after = [p \in Publisher |-> "refused"]
        /\ opened = {} /\ removed = {}
    BY <1>2 DEF Init
  <2>2. Published \in Temp
    <3>1. PICK p \in Publisher : TRUE
      BY RootAssumption
    <3>2. <<p, 1>> \in Temp
      BY RootAssumption DEF Temp
    <3> QED
      BY <3>2 DEF Published
  <2> QED
    BY <2>1, <2>2
<1> QED
  BY <1>1, <1>2

\* The fchmod goes to a directory that is fresh, so what was proved stays so.
LEMMA ProvedStays ==
    ASSUME RootInv, NEW p \in Publisher, RootStep(p), UNCHANGED recent
    PROVE  /\ \A d \in Dirs : Proved(d) => Proved(d)'
           /\ opened' \subseteq Temp \cup recent'
           /\ mode' \in [Dirs -> Modes]
<1>1. CASE Chmod(p)
  <2>1. held[p] \in Temp \cup recent /\ held[p] \in Dirs
    BY <1>1 DEF RootInv, Descriptors, Chmod
  <2>2. \A d \in Dirs : d # held[p] => mode'[d] = mode[d]
    BY <1>1 DEF Chmod, Aimed, RootInv, RootType
  <2>3. mode' \in [Dirs -> Modes] /\ opened' = opened \cup {held[p]}
    BY <1>1 DEF Chmod, Aimed, RootInv, RootType, Modes
  <2> QED
    BY <2>1, <2>2, <2>3 DEF Proved, RootInv, OnlyProvedDirectories, Temp
<1>2. CASE UNCHANGED <<mode, opened>>
  BY <1>2 DEF Proved, RootInv, RootType, OnlyProvedDirectories, Temp
<1>3. Chmod(p) \/ UNCHANGED <<mode, opened>>
  BY DEF RootStep, Look, Make, OpenMade, Prove, Publish, Verify, Recheck, Remove
<1> QED
  BY <1>1, <1>2, <1>3

\* A step of one publisher leaves alone what the others are about to remove.
LEMMA OthersStand ==
    ASSUME RootInv, NEW p \in Publisher, RootStep(p), NEW q \in Publisher \ {p},
           step[q] \in Busy
    PROVE  place'[Own(q)] = place[Own(q)]
<1>1. /\ Own(q) \in Spot /\ Own(q) # DirName
      /\ \A n \in Nat : <<p, n>> # Own(q)
  BY OwnSpot DEF RootInv
<1>2. Own(p) # Own(q) /\ <<p, round[p] + 1>> # Own(q)
  BY DEF Own
<1> QED
  BY <1>1, <1>2 DEF RootStep, Look, Make, OpenMade, Prove, Chmod, Publish, Verify, Recheck,
     Remove, RootInv, RootType

LEMMA OwnStep ==
    ASSUME RootInv, NEW p \in Publisher, RootStep(p), UNCHANGED recent
    PROVE  RootInv'
<1> USE DEF Goto, Fail, Drop
<1> DEFINE Still(d) == d \in Temp \cup recent \/ mode'[d] = "0700"
<1>1. /\ \A d \in Dirs : Proved(d) => Still(d)
      /\ opened' \subseteq Temp \cup recent
      /\ mode' \in [Dirs -> Modes]
  BY ProvedStays DEF Proved, Temp
<1>2. step[p] \in Busy =>
          /\ Own(p) \in Spot /\ place[Own(p)] \in Dirs \cup {NoDir}
  BY OwnSpot DEF RootInv
<1>3. RootType'
  <2>1. place' \in [Spot -> Dirs \cup {NoDir}]
    <3>1. CASE Make(p)
      <4>1. <<p, round[p] + 1>> \in Temp
        BY <3>1, RootAssumption DEF Make, Temp, RootInv, RootType, Rounds
      <4> QED
        BY <3>1, <4>1 DEF Make, RootInv, RootType, Dirs
    <3>2. CASE Publish(p)
      BY <1>2, <3>2 DEF Publish, RootInv, RootType, Busy
    <3>3. CASE Remove(p)
      BY <3>3 DEF Remove, RootInv, RootType
    <3>4. CASE UNCHANGED place
      BY <3>4 DEF RootInv, RootType
    <3> QED
      BY <3>1, <3>2, <3>3, <3>4 DEF RootStep, Look, OpenMade, Prove, Chmod, Verify, Recheck
  <2>2. removed' \subseteq [dir : Dirs, swapped : BOOLEAN]
    <3>1. CASE Remove(p) /\ removed' # removed
      <4>1. /\ place[Own(p)] \in Dirs
            /\ removed' = removed \cup {[dir |-> place[Own(p)], swapped |-> p \in swapped]}
        BY <1>2, <3>1 DEF Remove, Busy
      <4>2. (p \in swapped) \in BOOLEAN
        OBVIOUS
      <4>3. [dir |-> place[Own(p)], swapped |-> p \in swapped]
               \in [dir : Dirs, swapped : BOOLEAN]
        BY <4>1, <4>2
      <4> QED
        BY <4>1, <4>3 DEF RootInv, RootType
    <3>2. CASE UNCHANGED removed
      BY <3>2 DEF RootInv, RootType
    <3> QED
      BY <3>1, <3>2 DEF RootStep, Look, Make, OpenMade, Prove, Chmod, Publish, Verify, Recheck
  <2>3. /\ step' \in [Publisher -> Busy \cup Done \cup {"look", "make"}]
        /\ after' \in [Publisher -> {"look", "refused"}]
    BY DEF RootStep, Look, Make, OpenMade, Prove, Chmod, Publish, Verify, Recheck,
       Remove, RootInv, RootType, Busy, Done
  <2>4. /\ round' \in [Publisher -> Nat]
        /\ held' \in [Publisher -> Dirs \cup {NoDir}]
        /\ made' \in [Publisher -> Dirs \cup {NoDir}]
    BY <1>2 DEF RootStep, Look, Make, OpenMade, Prove, Chmod, Publish, Verify, Recheck,
       Remove, RootInv, RootType, Busy
  <2> QED
    BY <1>1, <2>1, <2>2, <2>3, <2>4 DEF RootInv, RootType
<1>4. Rounds'
  BY RootAssumption DEF RootStep, Look, Make, OpenMade, Prove, Chmod, Publish, Verify,
     Recheck, Remove, RootInv, RootType, Rounds, Busy, Done
<1>5. Descriptors'
  <2> SUFFICES ASSUME NEW q \in Publisher
               PROVE  /\ step'[q] \in {"prove", "chmod"} => held'[q] \in Dirs
                      /\ step'[q] = "chmod" => held'[q] \in Temp \cup recent
                      /\ made'[q] # NoDir => Still(made'[q])
    BY DEF Descriptors, Temp, Proved
  <2>0. made[q] # NoDir => Still(made[q])
    BY <1>1 DEF RootInv, RootType, Descriptors
  <2> HIDE DEF Still
  <2>1. CASE q # p
    BY <2>0, <2>1 DEF RootStep, Look, Make, OpenMade, Prove, Chmod, Publish, Verify,
       Recheck, Remove, RootInv, RootType, Descriptors
  <2>2. CASE q = p
    <3>1. CASE OpenMade(p)
      BY <1>2, <2>0, <2>2, <3>1 DEF OpenMade, RootInv, RootType, Busy
    <3>2. CASE Prove(p)
      <4>1. held[p] \in Dirs /\ UNCHANGED mode
        BY <3>2 DEF Prove, RootInv, Descriptors
      <4>2. mode[held[p]] = "0700" => Still(held[p])
        BY <1>1, <4>1 DEF Proved
      <4> QED
        BY <2>2, <3>2, <4>1, <4>2 DEF Prove, RootInv, RootType, Fresh
    <3>3. CASE Chmod(p)
      BY <2>0, <2>2, <3>3 DEF Chmod, RootInv, RootType
    <3>4. CASE Look(p) \/ Make(p) \/ Publish(p) \/ Verify(p) \/ Recheck(p) \/ Remove(p)
      BY <2>0, <2>2, <3>4 DEF Look, Make, Publish, Verify, Recheck, Remove, RootInv, RootType
    <3> QED
      BY <3>1, <3>2, <3>3, <3>4 DEF RootStep
  <2> QED
    BY <2>1, <2>2
<1>6. StandsProved'
  <2> SUFFICES ASSUME NEW q \in Publisher, step'[q] = "remove", q \notin swapped',
                      place'[<<q, round'[q]>>] # NoDir
               PROVE  Still(place'[<<q, round'[q]>>])
    BY DEF StandsProved, Own, Proved, Temp
  <2>1. CASE q # p
    <3>1. /\ step[q] = "remove" /\ round'[q] = round[q] /\ q \notin swapped
      BY <2>1 DEF RootStep, Look, Make, OpenMade, Prove, Chmod, Publish, Verify,
         Recheck, Remove, RootInv, RootType
    <3>2. place'[Own(q)] = place[Own(q)] /\ place[Own(q)] \in Dirs \cup {NoDir}
      BY <2>1, <3>1, OthersStand, OwnSpot DEF Busy, RootInv
    <3>3. Proved(place[Own(q)])
      BY <3>1, <3>2 DEF RootInv, StandsProved, Own
    <3> QED
      BY <1>1, <3>1, <3>2, <3>3 DEF Own
  <2>2. CASE q = p
    <3>1. /\ step[p] = "check" /\ StillOurs(p) /\ UNCHANGED <<place, round>>
      <4>1. Recheck(p) /\ step'[p] = "remove"
        BY <2>2 DEF RootStep, Look, Make, OpenMade, Prove, Chmod, Publish, Verify,
           Recheck, Remove, RootInv, RootType
      <4> QED
        BY <4>1 DEF Recheck, RootInv, RootType
    <3>2. place[Own(p)] = made[p] /\ made[p] \in Dirs /\ Proved(made[p])
      BY <3>1 DEF StillOurs, RootInv, RootType, Descriptors
    <3> QED
      BY <1>1, <2>2, <3>1, <3>2 DEF Own
  <2> QED
    BY <2>1, <2>2
<1>7. OnlyProvedDirectories'
  <2> SUFFICES ASSUME NEW r \in removed' PROVE r.swapped \/ Still(r.dir)
    BY <1>1 DEF OnlyProvedDirectories, Temp
  <2>1. CASE r \in removed
    BY <1>1, <2>1 DEF RootInv, RootType, OnlyProvedDirectories, Proved
  <2>2. CASE r \notin removed
    <3>1. /\ step[p] = "remove" /\ place[Own(p)] \in Dirs /\ place[Own(p)] # NoDir
          /\ r = [dir |-> place[Own(p)], swapped |-> p \in swapped]
      BY <1>2, <2>2 DEF RootStep, Look, Make, OpenMade, Prove, Chmod, Publish, Verify,
         Recheck, Remove, Busy
    <3>2. r.dir = place[Own(p)] /\ (r.swapped <=> p \in swapped)
      BY <3>1
    <3> QED
      BY <1>1, <3>1, <3>2 DEF RootInv, StandsProved
  <2> QED
    BY <2>1, <2>2
<1> QED
  BY <1>3, <1>4, <1>5, <1>6, <1>7 DEF RootInv

LEMMA OwnOthers == RootInv /\ OthersMove /\ UNCHANGED recent => RootInv'
<1> SUFFICES ASSUME RootInv, OthersMove, UNCHANGED recent PROVE RootInv'
  OBVIOUS
<1>1. place' \in [Spot -> Dirs \cup {NoDir}]
  BY DEF OthersMove, RootInv, RootType, Dirs
<1>2. StandsProved'
  <2> SUFFICES ASSUME NEW p \in Publisher, step[p] = "remove", p \notin swapped',
                      place'[Own(p)] # NoDir
               PROVE  Proved(place'[Own(p)])
    BY DEF StandsProved, OthersMove, Own, Proved, Temp
  <2>1. place'[Own(p)] = place[Own(p)] /\ p \notin swapped
    BY DEF OthersMove
  <2> QED
    BY <2>1 DEF RootInv, StandsProved
<1> QED
  BY <1>1, <1>2 DEF OthersMove, RootInv, RootType, Rounds, Descriptors, Proved,
     OnlyProvedDirectories, Temp

\* Whatever is renamed, planted or raced, by however many: root opens to everybody
\* only what is fresh, and removes nothing else but for the two cases conceded
\* (prepare, provenance, removeIfStillOurs).
THEOREM RootTouchesOnlyWhatItProved == Spec => []OnlyProvedDirectories
<1>1. RootInv /\ [Next]_vars => RootInv'
  <2> SUFFICES ASSUME RootInv, [Next]_vars PROVE RootInv'
    OBVIOUS
  <2>1. CASE RootNext
    BY <2>1, OwnStep, OwnOthers DEF RootNext
  <2>2. CASE UNCHANGED rootVars
    BY <2>2 DEF rootVars, RootInv, RootType, Rounds, Descriptors, StandsProved, Proved,
       Own, OnlyProvedDirectories, Temp
  <2> QED
    BY <2>1, <2>2 DEF Next, Requests, Jobs, vars
<1>2. RootInv => OnlyProvedDirectories
  BY DEF RootInv
<1> QED
  BY OwnInit, <1>1, <1>2, PTL DEF Spec

-----------------------------------------------------------------------------
(* The jobs in the trash.                                                  *)

\* What a job of each kind remembers.
Deletes == {"sidecar", "move", "verify"}
Restores == {"put back", "drop sidecar"}
Empties == {"give up size", "open payload", "take apart", "litter", "sidecar goes",
            "entry goes"}
Size == Item \cup {Unknown}
Tries == Nat
Job == [op : {"idle", "scan", "entry", "pass"} \cup Deletes \cup Restores \cup Empties,
        e : Entry \cup {NoEntry}, held : Item \cup {NoItem}, size : Size,
        tries : Tries, removed : BOOLEAN, names : SUBSET Entry]
JobShape(k) ==
    /\ k \in Job
    /\ k.op \in Deletes \cup Restores \cup Empties => k.e \in Entry
    /\ k.op \in {"scan", "entry", "take apart"} \cup Deletes => k.held \in Item

StoreType ==
    /\ where \in [Item -> {"home", "aside", "gone"} \cup Entry]
    /\ entry \in [Entry -> {"free", "made", "removed"}]
    /\ meta \in [Entry -> Size \cup {NoMeta}]
JobType == job \in [Worker -> Job] /\ \A w \in Worker : JobShape(job[w])

\* Every sidecar is flushed where it is written, so a power cut takes none back.
Flushed == disk = meta

\* Home and every entry hold one item; an entry that is not made yet holds none.
OneEach ==
    /\ \A i, j \in Item : where[i] = where[j] /\ where[i] \notin {"aside", "gone"} => i = j
    /\ \A e \in Entry : entry[e] = "free" => \A i \in Item : where[i] # e

Empty(e) == \A i \in Item : where[i] # e
\* No delete is about to move an item into the entry; none has it in hand.
NoneComes(e) == \A w \in Worker : job[w].op \in {"sidecar", "move"} => job[w].e # e
Settled(e) == \A w \in Worker : job[w].op \in Deletes => job[w].e # e

\* An entry belongs to one delete.
OneDelete ==
    \A v, w \in Worker :
        job[v].op \in Deletes /\ job[w].op \in Deletes /\ job[v].e = job[w].e => v = w

\* What holds for a job that does k: the entries it names were made; a delete finds
\* its entry empty and, unless an emptying came across, its sidecar as it wrote it;
UsedAt(k) ==
    /\ k.op \in Deletes \cup Restores \cup Empties => entry[k.e] # "free"
    /\ k.op \in Empties \cup {"pass"} => \A e \in k.names : entry[e] # "free"
DeleteAt(k) ==
    /\ k.op \in {"sidecar", "move"} => Empty(k.e)
    /\ k.op = "move" => k.e \in crossed \/ meta[k.e] = k.size
    /\ k.op = "verify" => k.e \in crossed \/ meta[k.e] = k.size \/ Empty(k.e)
\* a restore works on an entry nothing is moved into any more;
RestoreAt(k) ==
    /\ k.op \in Restores => NoneComes(k.e)
    /\ k.op = "drop sidecar" => Empty(k.e)
\* and an emptying that found no delete at its entry gives up the size of a folder
\* before it takes it apart, and drops the sidecar once the entry is empty.
Opening(e) == e \in excused \/ meta[e] \notin Item \/ \A i \in Folder : where[i] # e
Opened(e) == e \in excused \/ meta[e] \notin Item \/ Empty(e)
EmptyAt(k) ==
    /\ k.op \in Empties => k.e \in crossed \/ Settled(k.e)
    /\ k.op = "open payload" => k.e \in crossed \/ Opening(k.e)
    /\ k.op = "take apart" =>
          /\ k.e \in crossed \/ Opened(k.e)
          /\ k.e \in crossed \/ \A i \in Item : where[i] = k.e => i = k.held
          /\ k.held \in crossed \/ where[k.held] \in {k.e, "gone"}
    /\ k.op \in {"litter", "sidecar goes"} => k.e \in crossed \/ Empty(k.e)
Fits(k) == UsedAt(k) /\ DeleteAt(k) /\ RestoreAt(k) /\ EmptyAt(k)
JobsFit == \A w \in Worker : \A k \in {job[w]} : Fits(k)

Restorable == \A e \in Entry : e \in crossed \/ Empty(e) \/ meta[e] # NoMeta

SizesShape ==
    \A i \in Item, e \in Entry \ (crossed \cup excused) :
        where[i] = e /\ i \notin crossed /\ meta[e] \in Item /\ Settled(e) => meta[e] = i

ReducedShape ==
    \A e \in reduced :
        /\ e \in Entry /\ entry[e] # "free" /\ NoneComes(e)
        /\ \/ e \in crossed \cup excused
           \/ meta[e] \notin Item
           \/ \A i \in Item : where[i] = e => i \in crossed

BinInv ==
    /\ StoreType /\ JobType /\ Flushed /\ OneEach /\ OneDelete /\ JobsFit
    /\ Restorable /\ SizesShape /\ ReducedShape

-----------------------------------------------------------------------------
LEMMA Names ==
    /\ NoItem \notin Item /\ NoMeta \notin Item /\ Unknown \notin Item
    /\ "home" \notin Entry /\ "aside" \notin Entry /\ "gone" \notin Entry
    /\ \A i \in Folder : i \in Item
BY BinAssumption

\* A place is empty, or At names an item that stands there.
LEMMA AtFact == \A p : (At(p) = NoItem /\ Empty(p)) \/ (At(p) \in Item /\ where[At(p)] = p)
BY BinAssumption DEF At, Stands, Empty

\* What a step of a job may do to the rest: it turns to j, it begins a delete in an
\* entry that was not made yet, it moves an item into the entry of its own delete,
\* and changes the sidecar of the entry it is at.
Turned(w, j) == JobShape(j) /\ job'[w] = j /\ \A v \in Worker \ {w} : job'[v] = job[v]
Begins(w, j) ==
    /\ j.op \in Deletes =>
          \/ job[w].op \in Deletes /\ j.e = job[w].e
          \/ entry[j.e] = "free"
    /\ j.op \in {"sidecar", "move"} =>
          \/ job[w].op \in {"sidecar", "move"} /\ j.e = job[w].e
          \/ entry[j.e] = "free"
Grows ==
    /\ crossed \subseteq crossed' /\ excused \subseteq excused'
    /\ \A e \in Entry : entry[e] # "free" => entry'[e] # "free"
Places(w) ==
    \A i \in Item :
        \/ where'[i] = where[i]
        \/ where'[i] = "gone"
        \/ job[w].op = "move" /\ where[i] = "home" /\ where'[i] = job[w].e
        \/ /\ where'[i] = "home"
           /\ \A v \in Worker : job[v].op = "take apart" /\ job[v].held = i => i \in crossed'
Sidecars(w) ==
    \A e \in Entry : meta'[e] # meta[e] =>
        /\ job[w].e = e /\ job[w].op \in Deletes \cup Empties \cup {"drop sidecar"}
        /\ meta'[e] \notin Item \/ job[w].op = "sidecar"
Moved(w, j) == Turned(w, j) /\ Begins(w, j) /\ Grows /\ Places(w) /\ Sidecars(w)

\* An entry once made is never named by a new delete, so what no delete is about to
\* fill is not filled any more.
Stays(e) ==
    /\ NoneComes(e) => NoneComes(e)' /\ \A i \in Item : where'[i] = e => where[i] = e
    /\ Settled(e) => Settled(e)'
    /\ NoneComes(e) /\ meta[e] \notin Item => meta'[e] \notin Item
LEMMA MadeStays ==
    ASSUME BinInv, NEW w \in Worker, NEW j, Moved(w, j), NEW e \in Entry, entry[e] # "free"
    PROVE  Stays(e)
<1>1. /\ Turned(w, j) /\ Begins(w, j) /\ Places(w) /\ Sidecars(w) /\ JobShape(job[w])
  BY DEF Moved, BinInv, JobType
<1>2. NoneComes(e) => NoneComes(e)'
  BY <1>1 DEF NoneComes, Turned, Begins
<1>3. Settled(e) => Settled(e)'
  BY <1>1 DEF Settled, Turned, Begins, Deletes
<1>4. NoneComes(e) => \A i \in Item : where'[i] = e => where[i] = e
  BY <1>1, Names DEF NoneComes, Places
<1>5. NoneComes(e) /\ meta[e] \notin Item => meta'[e] \notin Item
  BY <1>1 DEF NoneComes, Sidecars
<1> QED
  BY <1>2, <1>3, <1>4, <1>5 DEF Stays

LEMMA SettledNoneComes == \A e : Settled(e) => NoneComes(e)
BY DEF Settled, NoneComes, Deletes

\* The other jobs go on as before.
LEMMA OthersFit ==
    ASSUME BinInv, NEW w \in Worker, NEW j, Moved(w, j), NEW v \in Worker, v # w,
           NEW k, k = job[v]
    PROVE  Fits(k)'
<1>0. /\ Fits(k) /\ JobShape(k) /\ Fits(job[w]) /\ JobShape(job[w]) /\ OneDelete
  BY DEF BinInv, JobType, JobsFit
<1>1. /\ crossed \subseteq crossed' /\ excused \subseteq excused'
      /\ \A e \in Entry : entry[e] # "free" => entry'[e] # "free" /\ Stays(e)
  BY MadeStays DEF Moved, Grows
<1>2. UsedAt(k)'
  BY <1>0, <1>1 DEF Fits, UsedAt, JobShape, Job
<1>3. RestoreAt(k)'
  <2>1. k.op \in Restores => k.e \in Entry /\ Stays(k.e)
    BY <1>0, <1>1 DEF Fits, UsedAt, JobShape
  <2> QED
    BY <1>0, <2>1 DEF Fits, RestoreAt, Stays, Empty, Restores
<1>4. EmptyAt(k)'
  <2>1. k.op \in Empties => k.e \in Entry /\ Stays(k.e)
    BY <1>0, <1>1 DEF Fits, UsedAt, JobShape
  <2>2. k.op \in Empties => k.e \in crossed' \/ (Settled(k.e) /\ Settled(k.e)' /\ NoneComes(k.e))
    BY <1>0, <1>1, <2>1, SettledNoneComes DEF Fits, EmptyAt, Stays
  <2>3. k.op = "open payload" => k.e \in crossed' \/ Opening(k.e)'
    BY <1>0, <1>1, <2>1, <2>2, Names DEF Fits, EmptyAt, Stays, Opening, Empties
  <2>4. k.op = "take apart" => k.e \in crossed' \/ Opened(k.e)'
    BY <1>0, <1>1, <2>1, <2>2 DEF Fits, EmptyAt, Stays, Opened, Empties, Empty
  <2>5. k.op = "take apart" => k.e \in crossed' \/ \A i \in Item : where'[i] = k.e => i = k.held
    BY <1>0, <1>1, <2>1, <2>2 DEF Fits, EmptyAt, Stays, Empties
  <2>6. k.op = "take apart" => k.held \in crossed' \/ where'[k.held] \in {k.e, "gone"}
    <3>1. k.op = "take apart" => k.held \in Item /\ k.e \in Entry
      BY <1>0 DEF JobShape, Empties
    <3> QED
      BY <1>0, <1>1, <3>1, Names DEF Fits, EmptyAt, Moved, Places
  <2>7. k.op \in {"litter", "sidecar goes"} => k.e \in crossed' \/ Empty(k.e)'
    BY <1>0, <1>1, <2>1, <2>2 DEF Fits, EmptyAt, Stays, Empty, Empties
  <2> QED
    BY <2>2, <2>3, <2>4, <2>5, <2>6, <2>7 DEF EmptyAt
<1>5. DeleteAt(k)'
  <2>1. k.op \in Deletes => k.e \in Entry /\ (job[w].op \in Deletes => job[w].e # k.e)
    BY <1>0 DEF JobShape, OneDelete
  <2>2. k.op \in Deletes => (Empty(k.e) => Empty(k.e)')
    BY <1>0, <2>1, Names DEF Moved, Places, Empty, Deletes
  <2>3. k.op \in Deletes => meta'[k.e] = meta[k.e] \/ k.e \in crossed' \/ (Empty(k.e) /\ k.op = "verify")
    <3>1. ASSUME k.op \in Deletes, meta'[k.e] # meta[k.e]
          PROVE  job[w].e = k.e /\ job[w].op \in Empties \cup {"drop sidecar"}
      BY <3>1, <2>1 DEF Moved, Sidecars
    <3>2. ASSUME k.op \in Deletes, job[w].e = k.e, job[w].op \in Empties PROVE k.e \in crossed
      BY <1>0, <3>2 DEF Fits, EmptyAt, Settled
    <3>3. ASSUME k.op \in Deletes, job[w].e = k.e, job[w].op = "drop sidecar"
          PROVE  Empty(k.e) /\ k.op = "verify"
      BY <1>0, <3>3 DEF Fits, RestoreAt, NoneComes, Restores, Deletes
    <3> QED
      BY <1>1, <3>1, <3>2, <3>3
  <2> QED
    BY <1>0, <1>1, <2>1, <2>2, <2>3 DEF Fits, DeleteAt, Deletes
<1> QED
  BY <1>2, <1>3, <1>4, <1>5 DEF Fits

\* What is left to show of a step: what holds for the job that makes it, and the
\* parts that speak of places and sidecars.
LEMMA JobsStep ==
    ASSUME BinInv, NEW w \in Worker, NEW j, Moved(w, j), job' \in [Worker -> Job], Fits(j)'
    PROVE  JobType' /\ OneDelete' /\ JobsFit'
<1>1. /\ Turned(w, j) /\ Begins(w, j) /\ JobType /\ OneDelete /\ JobsFit
  BY DEF Moved, BinInv
<1>2. JobType'
  BY <1>1 DEF JobType, Turned
<1>3. \A v \in Worker : job[v].op \in Deletes => entry[job[v].e] # "free"
  BY <1>1 DEF JobsFit, Fits, UsedAt
<1>4. OneDelete'
  BY <1>1, <1>3 DEF OneDelete, Turned, Begins
<1>5. ASSUME NEW v \in Worker, NEW k, k = job'[v] PROVE Fits(k)'
  <2>1. CASE v = w
    BY <1>1, <1>5, <2>1 DEF Turned
  <2>2. CASE v # w
    BY <1>1, <1>5, <2>2, OthersFit DEF Turned
  <2> QED
    BY <2>1, <2>2
<1> QED
  BY <1>2, <1>4, <1>5 DEF JobsFit

\* A step that moves no item: it may change the sidecar of the entry its job is at,
\* where no item loses its name, and none gets a size but through the check at the
\* end of its delete.
LEMMA SidecarStep ==
    ASSUME BinInv, NEW w \in Worker, NEW j, Moved(w, j), job' \in [Worker -> Job], Fits(j)',
           entry' \in [Entry -> {"free", "made", "removed"}],
           UNCHANGED <<where, reduced>>, disk' = meta',
           NEW e, NEW m \in Size \cup {NoMeta},
           \/ UNCHANGED meta
           \/ /\ job[w].e = e /\ meta' = [meta EXCEPT ![e] = m]
              /\ m # NoMeta \/ e \in crossed \/ Empty(e),
           job[w].op = "verify" =>
               \/ job[w].e \in crossed' \cup excused' \/ meta'[job[w].e] \notin Item
               \/ \A i \in Item : where[i] = job[w].e => i = meta'[job[w].e]
    PROVE  BinInv'
<1>0. /\ StoreType /\ Flushed /\ OneEach /\ Restorable /\ SizesShape /\ ReducedShape
      /\ Fits(job[w]) /\ JobShape(job[w])
      /\ Turned(w, j) /\ Begins(w, j) /\ Grows /\ Sidecars(w)
  BY DEF BinInv, Moved, JobsFit, JobType
<1>1. StoreType'
  BY <1>0 DEF StoreType
<1>2. Flushed'
  BY DEF Flushed
<1>3. OneEach'
  BY <1>0 DEF OneEach, Grows
<1>4. Restorable'
  BY <1>0 DEF Restorable, Grows, Empty, StoreType
<1>5. SizesShape'
  <2> SUFFICES ASSUME NEW i \in Item, NEW f \in Entry, f \notin crossed', f \notin excused',
                      where[i] = f, i \notin crossed', meta'[f] \in Item, Settled(f)'
               PROVE  meta'[f] = i
    BY DEF SizesShape
  <2>1. f \notin crossed /\ f \notin excused /\ i \notin crossed
    BY <1>0 DEF Grows
  <2>2. ~Empty(f) /\ (job[w].op = "sidecar" => job[w].e # f)
    BY <1>0 DEF Empty, Fits, DeleteAt
  <2>3. meta'[f] = meta[f]
    BY <1>0, <2>2 DEF Sidecars
  <2>4. CASE Settled(f)
    BY <1>0, <2>1, <2>3, <2>4 DEF SizesShape
  <2>5. CASE ~Settled(f)
    <3>1. job[w].e = f /\ job[w].op \in Deletes
      BY <1>0, <2>5 DEF Settled, Turned
    <3>2. job[w].op = "verify"
      BY <1>0, <2>2, <3>1 DEF Fits, DeleteAt, Deletes
    <3> QED
      BY <3>1, <3>2
  <2> QED
    BY <2>4, <2>5
<1>6. ReducedShape'
  <2>1. \A f \in Entry : entry[f] # "free" => Stays(f)
    BY MadeStays
  <2> QED
    BY <1>0, <2>1 DEF ReducedShape, Grows, Stays
<1> QED
  BY <1>1, <1>2, <1>3, <1>4, <1>5, <1>6, JobsStep DEF BinInv

-----------------------------------------------------------------------------
LEMMA Facts ==
    ASSUME BinInv, NEW w \in Worker
    PROVE  /\ StoreType /\ JobShape(job[w]) /\ Fits(job[w]) /\ OneEach /\ Flushed
           /\ Restorable /\ SizesShape /\ ReducedShape
BY DEF BinInv, JobType, JobsFit

LEMMA TurnTo ==
    ASSUME BinInv, NEW w \in Worker, NEW j, JobShape(j), Turn(w, j)
    PROVE  Turned(w, j) /\ job' \in [Worker -> Job]
<1>1. job \in [Worker -> Job] /\ job' = [job EXCEPT ![w] = j] /\ j \in Job
  BY DEF BinInv, JobType, Turn, JobShape
<1> QED
  BY <1>1 DEF Turned

\* A step that changes nothing but the job, and what is known of its delete.
LEMMA QuietStep ==
    ASSUME BinInv, NEW w \in Worker, NEW j, JobShape(j), Turn(w, j), Begins(w, j), Fits(j)',
           Grows, entry' \in [Entry -> {"free", "made", "removed"}],
           UNCHANGED <<where, meta, disk, reduced>>,
           job[w].op = "verify" => job[w].e \in crossed' \cup excused'
    PROVE  BinInv'
<1>1. Turned(w, j) /\ job' \in [Worker -> Job]
  BY TurnTo
<1>2. Moved(w, j)
  BY <1>1, Facts DEF Moved, Places, Sidecars
<1>3. disk' = meta'
  BY Facts DEF Flushed
<1>4. PICK m \in Size \cup {NoMeta} : TRUE
  OBVIOUS
<1> QED
  BY <1>1, <1>2, <1>3, SidecarStep

\* A job that stops, or that looks at Home only, is bound by nothing.
LEMMA IdleStep ==
    ASSUME BinInv, NEW w \in Worker, NEW j, JobShape(j), Turn(w, j),
           j.op \in {"idle", "scan", "entry"}, crossed \subseteq crossed', excused \subseteq excused',
           UNCHANGED <<where, entry, meta, disk, reduced>>,
           job[w].op = "verify" => job[w].e \in crossed' \cup excused'
    PROVE  BinInv'
<1>1. Fits(j)'
  BY DEF Fits, UsedAt, DeleteAt, RestoreAt, EmptyAt, Deletes, Restores, Empties
<1>2. Begins(w, j) /\ Grows /\ entry' \in [Entry -> {"free", "made", "removed"}]
  BY Facts DEF Begins, Grows, StoreType, Deletes
<1> QED
  BY <1>1, <1>2, QuietStep

LEMMA IdleShape == JobShape(Idle) /\ Idle.op = "idle"
BY DEF JobShape, Job, Idle, Size, Tries, Deletes, Restores, Empties

LEMMA IdleFits == Fits(Idle)'
<1>1. PICK j : j = Idle
  OBVIOUS
<1>2. Fits(j)'
  BY <1>1, IdleShape DEF Fits, UsedAt, DeleteAt, RestoreAt, EmptyAt, Deletes, Restores, Empties
<1> QED
  BY <1>1, <1>2 DEF Idle

LEMMA SelectStep == ASSUME BinInv, NEW w \in Worker, Select(w) PROVE BinInv'
<1>1. PICK j : j = [Idle EXCEPT !.op = "scan", !.held = At("home")]
  OBVIOUS
<1>2. JobShape(j) /\ j.op = "scan"
  BY <1>1, AtFact DEF Select, Idle, JobShape, Job, Size, Tries, Deletes, Restores, Empties
<1> QED
  BY <1>1, <1>2, IdleStep DEF Select, Does

LEMMA ScanStep == ASSUME BinInv, NEW w \in Worker, Scan(w) PROVE BinInv'
<1>1. PICK size \in {Unknown} \cup ({At("home")} \ {NoItem}) :
         Turn(w, [job[w] EXCEPT !.op = "entry", !.size = size])
  BY DEF Scan
<1>2. PICK j : j = [job[w] EXCEPT !.op = "entry", !.size = size]
  OBVIOUS
<1>3. size \in Size
  BY AtFact DEF Size
<1>4. JobShape(j) /\ j.op = "entry"
  BY <1>2, <1>3, Facts DEF Scan, Does, JobShape, Job, Deletes, Restores, Empties
<1> QED
  BY <1>1, <1>2, <1>4, IdleStep DEF Scan, Does

LEMMA MakeEntryStep == ASSUME BinInv, NEW w \in Worker, MakeEntry(w) PROVE BinInv'
<1>1. CASE Turn(w, Idle) /\ UNCHANGED entry
  BY <1>1, IdleShape, IdleStep DEF MakeEntry, Does
<1>2. ASSUME NEW e \in Entry, entry[e] = "free", entry' = [entry EXCEPT ![e] = "made"],
             Turn(w, [job[w] EXCEPT !.op = "sidecar", !.e = e])
      PROVE  BinInv'
  <2>1. PICK j : j = [job[w] EXCEPT !.op = "sidecar", !.e = e]
    OBVIOUS
  <2>2. JobShape(j) /\ j.op = "sidecar" /\ j.e = e
    BY <2>1, Facts DEF MakeEntry, Does, JobShape, Job, Deletes, Restores, Empties
  <2>3. UNCHANGED <<where, meta, disk, crossed, excused, reduced>> /\ job[w].op = "entry"
    BY DEF MakeEntry, Does
  <2>4. entry' \in [Entry -> {"free", "made", "removed"}] /\ Grows /\ entry'[e] # "free"
    BY <1>2, <2>3, Facts DEF StoreType, Grows
  <2>5. Fits(j)'
    <3>1. Empty(e)'
      BY <1>2, <2>3, Facts DEF OneEach, Empty
    <3>2. entry'[e] # "free"
      BY <2>4
    <3> QED
      BY <2>2, <3>1, <3>2
        DEF Fits, UsedAt, DeleteAt, RestoreAt, EmptyAt, Deletes, Restores, Empties
  <2>6. Begins(w, j)
    BY <1>2, <2>2 DEF Begins
  <2> QED
    BY <1>2, <2>1, <2>2, <2>3, <2>4, <2>5, <2>6, QuietStep
<1> QED
  BY <1>1, <1>2 DEF MakeEntry

LEMMA ReadEntryStep == ASSUME BinInv, NEW w \in Worker, ReadEntry(w) PROVE BinInv'
<1>1. PICK e \in Entry : Listed(e) /\ Turn(w, [Idle EXCEPT !.op = "put back", !.e = e])
  BY DEF ReadEntry
<1>2. PICK j : j = [Idle EXCEPT !.op = "put back", !.e = e]
  OBVIOUS
<1>3. JobShape(j) /\ j.op = "put back" /\ j.e = e
  BY <1>2 DEF Idle, JobShape, Job, Size, Tries, Deletes, Restores, Empties
<1>4. UNCHANGED <<where, entry, meta, disk, crossed, excused, reduced>> /\ job[w].op = "idle"
  BY DEF ReadEntry, Does
<1>5. NoneComes(e)
  <2>1. ~Empty(e)
    BY <1>1, AtFact DEF Listed, Empty
  <2> QED
    BY <2>1, Facts DEF NoneComes, Fits, DeleteAt
<1>6. NoneComes(e)'
  <2>1. Turned(w, j)
    BY <1>1, <1>2, <1>3, TurnTo
  <2> QED
    BY <1>3, <1>5, <2>1 DEF NoneComes, Turned
<1>7. Fits(j)'
  BY <1>1, <1>3, <1>4, <1>6 DEF Listed, Fits, UsedAt, DeleteAt, RestoreAt, EmptyAt, Deletes, Restores, Empties
<1>8. Begins(w, j) /\ Grows /\ entry' \in [Entry -> {"free", "made", "removed"}]
  BY <1>3, <1>4, Facts DEF Begins, Grows, StoreType, Deletes
<1> QED
  BY <1>1, <1>2, <1>3, <1>4, <1>7, <1>8, QuietStep

-----------------------------------------------------------------------------
\* An emptying at rest is bound by the names it still has to look at.
LEMMA PassFits ==
    ASSUME NEW k, k.op = "pass", \A e \in k.names : entry'[e] # "free"
    PROVE  Fits(k)'
BY DEF Fits, UsedAt, DeleteAt, RestoreAt, EmptyAt, Deletes, Restores, Empties

LEMMA BeginPassStep ==
    ASSUME BinInv, NEW w \in Worker, NEW n \in Nat, Turn(w, BeginPass(n)), job[w].op # "verify",
           UNCHANGED <<where, entry, meta, disk, crossed, excused, reduced>>
    PROVE  BinInv'
<1>1. PICK j : j = BeginPass(n)
  OBVIOUS
<1>2. JobShape(j) /\ j.op = "pass" /\ \A e \in j.names : entry[e] = "made"
  BY <1>1 DEF BeginPass, Idle, JobShape, Job, Size, Tries, Deletes, Restores, Empties
<1>3. Fits(j)'
  BY <1>2, PassFits
<1>4. Begins(w, j) /\ Grows /\ entry' \in [Entry -> {"free", "made", "removed"}]
  BY <1>2, Facts DEF Begins, Grows, StoreType, Deletes
<1> QED
  BY <1>1, <1>2, <1>3, <1>4, QuietStep

LEMMA StartEmptyStep == ASSUME BinInv, NEW w \in Worker, StartEmpty(w) PROVE BinInv'
BY BeginPassStep DEF StartEmpty, Does

LEMMA EndPassStep == ASSUME BinInv, NEW w \in Worker, EndPass(w) PROVE BinInv'
<1>1. CASE Turn(w, Idle)
  BY <1>1, IdleShape, IdleStep DEF EndPass, Does
<1>2. CASE Turn(w, BeginPass(job[w].tries + 1))
  <2>1. job[w].tries \in Tries
    BY Facts DEF JobShape, Job
  <2> QED
    BY <1>2, <2>1, BeginPassStep DEF EndPass, Does, Tries
<1> QED
  BY <1>1, <1>2 DEF EndPass

\* An emptying that gives up an entry, or is done with it, goes back to its pass.
LEMMA PassShape ==
    ASSUME NEW k, JobShape(k), k.op \in Empties, NEW g \in BOOLEAN
    PROVE  JobShape(Pass(k, g)) /\ Pass(k, g).op = "pass" /\ Pass(k, g).names = k.names
BY DEF Pass, JobShape, Job, Deletes, Restores, Empties

LEMMA BackToPassStep ==
    ASSUME BinInv, NEW w \in Worker, NEW g \in BOOLEAN, Turn(w, Pass(job[w], g)),
           job[w].op \in Empties,
           entry' \in {entry, [entry EXCEPT ![job[w].e] = "removed"]},
           UNCHANGED <<where, meta, disk, crossed, excused, reduced>>
    PROVE  BinInv'
<1>1. PICK k : k = job[w]
  OBVIOUS
<1>2. PICK j : j = Pass(k, g)
  OBVIOUS
<1>3. JobShape(k) /\ Fits(k) /\ k.op \in Empties
  BY <1>1, Facts
<1>4. JobShape(j) /\ j.op = "pass" /\ j.names = k.names
  BY <1>2, <1>3, PassShape
<1>5. Grows /\ entry' \in [Entry -> {"free", "made", "removed"}]
  BY Facts DEF Grows, StoreType
<1>6. \A e \in j.names : e \in Entry /\ entry[e] # "free"
  BY <1>3, <1>4 DEF Fits, UsedAt, JobShape, Job
<1>7. Fits(j)'
  BY <1>4, <1>5, <1>6, PassFits DEF Grows
<1>8. Begins(w, j) /\ job[w].op # "verify"
  BY <1>4 DEF Begins, Deletes, Empties
<1> QED
  BY <1>1, <1>2, <1>4, <1>5, <1>7, <1>8, QuietStep

LEMMA NextEntryStep == ASSUME BinInv, NEW w \in Worker, NextEntry(w) PROVE BinInv'
<1>1. PICK k : k = job[w]
  OBVIOUS
<1>2. JobShape(k) /\ Fits(k) /\ k.op = "pass"
  BY <1>1, Facts DEF NextEntry, Does
<1>3. PICK e \in k.names :
         /\ Turn(w, IF entry[e] # "made" THEN [k EXCEPT !.names = @ \ {e}]
                    ELSE [[k EXCEPT !.names = @ \ {e}] EXCEPT !.op = "give up size", !.e = e])
         /\ crossed' = IF \E v \in Worker : Deleting(v, e) THEN crossed \cup {e} ELSE crossed
  BY <1>1 DEF NextEntry
<1>4. /\ UNCHANGED <<where, entry, meta, disk, excused, reduced>> /\ Grows
      /\ entry' \in [Entry -> {"free", "made", "removed"}]
  BY <1>3, Facts DEF NextEntry, Grows, StoreType
<1>5. e \in Entry /\ \A f \in k.names : entry[f] # "free"
  BY <1>2 DEF Fits, UsedAt, JobShape, Job
<1>6. CASE entry[e] # "made"
  <2>1. PICK j : j = [k EXCEPT !.names = @ \ {e}]
    OBVIOUS
  <2>2. JobShape(j) /\ j.op = "pass" /\ j.names \subseteq k.names
    BY <1>2, <2>1 DEF JobShape, Job, Deletes, Restores, Empties
  <2>3. Fits(j)' /\ Begins(w, j)
    BY <1>4, <1>5, <2>2, PassFits DEF Begins, Deletes
  <2> QED
    BY <1>1, <1>2, <1>3, <1>4, <1>6, <2>1, <2>2, <2>3, QuietStep
<1>7. CASE entry[e] = "made"
  <2>1. PICK j : j = [[k EXCEPT !.names = @ \ {e}] EXCEPT !.op = "give up size", !.e = e]
    OBVIOUS
  <2>2. JobShape(j) /\ j.op = "give up size" /\ j.names \subseteq k.names /\ j.e = e
    BY <1>2, <1>5, <2>1 DEF JobShape, Job, Deletes, Restores, Empties
  <2>3. Turn(w, j)
    BY <1>3, <1>7, <2>1
  <2>4. e \in crossed' \/ Settled(e)'
    <3>1. e \in crossed' \/ Settled(e)
      BY <1>3 DEF Deleting, Settled, Deletes
    <3> QED
      BY <2>2, <2>3, <3>1, TurnTo DEF Turned, Settled, Deletes
  <2>5. Fits(j)'
    BY <1>4, <1>5, <2>2, <2>4 DEF Fits, UsedAt, DeleteAt, RestoreAt, EmptyAt, Deletes, Restores, Empties
  <2>6. Begins(w, j)
    BY <2>2 DEF Begins, Deletes
  <2> QED
    BY <1>1, <1>2, <1>4, <2>2, <2>3, <2>5, <2>6, QuietStep
<1> QED
  BY <1>6, <1>7

LEMMA ClearLitterStep == ASSUME BinInv, NEW w \in Worker, ClearLitter(w) PROVE BinInv'
<1>1. PICK k : k = job[w]
  OBVIOUS
<1>2. PICK j : j = [k EXCEPT !.op = "sidecar goes"]
  OBVIOUS
<1>3. JobShape(k) /\ Fits(k) /\ k.op = "litter" /\ Turn(w, j)
  BY <1>1, <1>2, Facts DEF ClearLitter, Does, Next1
<1>4. JobShape(j) /\ j.op = "sidecar goes" /\ j.names = k.names /\ j.e = k.e
  BY <1>2, <1>3 DEF JobShape, Job, Deletes, Restores, Empties
<1>5. UNCHANGED <<where, entry, meta, disk, crossed, excused, reduced>>
  BY DEF ClearLitter
<1>6. Settled(k.e) => Settled(k.e)'
  BY <1>3, <1>4, TurnTo DEF Turned, Settled, Deletes
<1>7. Fits(j)'
  BY <1>3, <1>4, <1>5, <1>6
    DEF Fits, UsedAt, DeleteAt, RestoreAt, EmptyAt, Empty, Deletes, Restores, Empties
<1>8. Begins(w, j) /\ Grows /\ entry' \in [Entry -> {"free", "made", "removed"}]
  BY <1>4, <1>5, Facts DEF Begins, Grows, StoreType, Deletes
<1> QED
  BY <1>1, <1>3, <1>4, <1>5, <1>7, <1>8, QuietStep

LEMMA RemoveEntryStep == ASSUME BinInv, NEW w \in Worker, RemoveEntry(w) PROVE BinInv'
BY BackToPassStep DEF RemoveEntry, Skip, Does, Empties

LEMMA KillStep == ASSUME BinInv, NEW w \in Worker, Kill(w) PROVE BinInv'
BY IdleShape, IdleStep DEF Kill, Does

-----------------------------------------------------------------------------
\* A job that leaves clears its entry only where nothing stands in it.
LEMMA ClearStep ==
    ASSUME BinInv, NEW w \in Worker, Turn(w, Idle), RemoveEntryDir(job[w].e),
           job[w].op \in {"sidecar", "move", "drop sidecar"},
           UNCHANGED <<where, crossed, excused, reduced>>
    PROVE  BinInv'
<1>1. PICK k : k = job[w]
  OBVIOUS
<1>2. JobShape(k) /\ Fits(k) /\ StoreType /\ Flushed
  BY <1>1, Facts
<1>3. k.e \in Entry /\ Empty(k.e) /\ entry[k.e] # "free"
  BY <1>1, <1>2 DEF JobShape, Fits, UsedAt, DeleteAt, RestoreAt, Deletes, Restores
<1>4. /\ meta' = [meta EXCEPT ![k.e] = NoMeta] /\ disk' = meta'
      /\ entry' \in {entry, [entry EXCEPT ![k.e] = "removed"]}
  BY <1>1, <1>2 DEF RemoveEntryDir, Flushed
<1>5. entry' \in [Entry -> {"free", "made", "removed"}] /\ Grows
  BY <1>2, <1>4 DEF StoreType, Grows
<1>6. Turned(w, Idle) /\ job' \in [Worker -> Job]
  BY IdleShape, TurnTo
<1>7. Moved(w, Idle)
  <2>1. Begins(w, Idle)
    BY IdleShape DEF Begins, Deletes
  <2>2. Sidecars(w)
    BY <1>1, <1>2, <1>4, Names DEF Sidecars, StoreType, Deletes
  <2> QED
    BY <1>5, <1>6, <2>1, <2>2 DEF Moved, Places
<1>8. Fits(Idle)'
  BY IdleFits
<1> QED
  BY <1>1, <1>3, <1>4, <1>5, <1>6, <1>7, <1>8, SidecarStep

LEMMA WriteSidecarStep == ASSUME BinInv, NEW w \in Worker, WriteSidecar(w) PROVE BinInv'
<1>1. PICK k : k = job[w]
  OBVIOUS
<1>2. /\ JobShape(k) /\ Fits(k) /\ StoreType /\ Flushed /\ k.op = "sidecar"
      /\ UNCHANGED <<where, crossed, excused, reduced>>
  BY <1>1, Facts DEF WriteSidecar, Does
<1>3. CASE RemoveEntryDir(k.e) /\ Turn(w, Idle)
  BY <1>1, <1>2, <1>3, ClearStep
<1>4. CASE /\ entry[k.e] = "made" /\ meta' = [meta EXCEPT ![k.e] = k.size]
           /\ disk' = [disk EXCEPT ![k.e] = k.size] /\ Next1(w, "move") /\ UNCHANGED entry
  <2>1. PICK j : j = [k EXCEPT !.op = "move"]
    OBVIOUS
  <2>2. JobShape(j) /\ j.op = "move" /\ j.e = k.e /\ j.size = k.size /\ Turn(w, j)
    BY <1>1, <1>2, <1>4, <2>1 DEF Next1, JobShape, Job, Deletes, Restores, Empties
  <2>3. k.e \in Entry /\ Empty(k.e) /\ k.size \in Size /\ k.size # NoMeta
    BY <1>2, Names DEF JobShape, Job, Fits, DeleteAt, Deletes, Size, Unknown, NoMeta
  <2>4. Turned(w, j) /\ job' \in [Worker -> Job]
    BY <2>2, TurnTo
  <2>5. Moved(w, j)
    <3>1. Begins(w, j)
      BY <1>1, <1>2, <2>2 DEF Begins, Deletes
    <3>2. Grows
      BY <1>2, <1>4 DEF Grows
    <3>3. Sidecars(w)
      BY <1>1, <1>2, <1>4, <2>3 DEF Sidecars, StoreType, Deletes
    <3> QED
      BY <1>2, <2>4, <3>1, <3>2, <3>3 DEF Moved, Places
  <2>6. Fits(j)'
    BY <1>2, <1>4, <2>2, <2>3
      DEF Fits, UsedAt, DeleteAt, RestoreAt, EmptyAt, Empty, StoreType, Deletes, Restores, Empties
  <2>7. entry' \in [Entry -> {"free", "made", "removed"}] /\ disk' = meta'
    BY <1>2, <1>4 DEF StoreType, Flushed
  <2> QED
    BY <1>1, <1>2, <1>4, <2>3, <2>4, <2>5, <2>6, <2>7, SidecarStep
<1> QED
  BY <1>1, <1>3, <1>4 DEF WriteSidecar

LEMMA DropSidecarStep == ASSUME BinInv, NEW w \in Worker, DropSidecar(w) PROVE BinInv'
<1>1. CASE Turn(w, Idle) /\ UNCHANGED <<entry, meta, disk>>
  BY <1>1, IdleShape, IdleStep DEF DropSidecar, Does
<1>2. CASE RemoveEntryDir(job[w].e) /\ Turn(w, Idle)
  BY <1>2, ClearStep DEF DropSidecar, Does
<1> QED
  BY <1>1, <1>2 DEF DropSidecar

\* The check at the end of a delete lets the size stand, or gives it up, or says that
\* it may be wrong.
LEMMA VerifyPayloadStep == ASSUME BinInv, NEW w \in Worker, VerifyPayload(w) PROVE BinInv'
<1>1. PICK k : k = job[w]
  OBVIOUS
<1>2. /\ JobShape(k) /\ Fits(k) /\ StoreType /\ Flushed /\ OneEach /\ k.op = "verify"
      /\ UNCHANGED <<where, entry, crossed, reduced>> /\ Turn(w, Idle)
  BY <1>1, Facts DEF VerifyPayload, Does
<1>3. k.e \in Entry /\ k.size \in Size
  BY <1>2 DEF JobShape, Job, Deletes
<1>4. CASE excused' = excused \cup {k.e} /\ UNCHANGED <<meta, disk>>
  BY <1>1, <1>2, <1>4, IdleShape, IdleStep
<1>5. CASE excused' = excused /\ k.e \in crossed /\ UNCHANGED <<meta, disk>>
  BY <1>1, <1>2, <1>5, IdleShape, IdleStep
<1>6. ASSUME NEW m \in Size, excused' = excused, disk' = meta',
             meta' = meta \/ meta' = [meta EXCEPT ![k.e] = m],
             meta' = meta \/ m = Unknown,
             meta'[k.e] \notin Item \/ \A i \in Item : where[i] = k.e => i = meta'[k.e]
      PROVE  BinInv'
  <2>1. Turned(w, Idle) /\ job' \in [Worker -> Job]
    BY <1>2, IdleShape, TurnTo
  <2>2. Moved(w, Idle)
    <3>1. Begins(w, Idle)
      BY IdleShape DEF Begins, Deletes
    <3>2. Grows /\ Sidecars(w)
      BY <1>1, <1>2, <1>3, <1>6, Names DEF Grows, Sidecars, StoreType, Deletes
    <3> QED
      BY <1>2, <2>1, <3>1, <3>2 DEF Moved, Places
  <2>3. Fits(Idle)'
    BY IdleFits
  <2>4. entry' \in [Entry -> {"free", "made", "removed"}]
    BY <1>2 DEF StoreType
  <2>5. m # NoMeta \/ meta' = meta
    BY <1>6 DEF Unknown, NoMeta
  <2> QED
    BY <1>1, <1>2, <1>6, <2>1, <2>2, <2>3, <2>4, <2>5, SidecarStep
<1>7. CASE (k.size = Unknown \/ Describes(w)) /\ UNCHANGED <<meta, disk, excused>>
  <2>1. k.e \in crossed \/ meta[k.e] = k.size \/ Empty(k.e)
    BY <1>2 DEF Fits, DeleteAt
  <2>2. CASE k.e \in crossed
    BY <1>5, <1>7, <2>2
  <2>3. CASE Empty(k.e)
    BY <1>2, <1>3, <1>6, <1>7, <2>3 DEF Empty, Flushed
  <2>4. CASE meta[k.e] = k.size
    <3>1. k.size = Unknown \/ \A i \in Item : where[i] = k.e => i = k.size
      <4>1. ASSUME Describes(w), NEW i \in Item, where[i] = k.e PROVE i = k.size
        <5>1. At(k.e) = k.held /\ k.size = k.held
          BY <1>1, <4>1 DEF Describes
        <5>2. At(k.e) \in Item /\ where[At(k.e)] = k.e
          BY <4>1, AtFact DEF Empty
        <5> QED
          BY <1>2, <1>3, <4>1, <5>1, <5>2, Names DEF OneEach
      <4> QED
        BY <1>7, <4>1
    <3> QED
      BY <1>2, <1>3, <1>6, <1>7, <2>4, <3>1, Names DEF Flushed
  <2> QED
    BY <2>1, <2>2, <2>3, <2>4
<1>8. CASE BecomesUnknown(k.e) /\ UNCHANGED excused
  <2>1. meta' = [meta EXCEPT ![k.e] = Unknown] /\ disk' = meta' /\ meta'[k.e] = Unknown
    BY <1>2, <1>3, <1>8 DEF BecomesUnknown, Flushed, StoreType
  <2>2. Unknown \in Size /\ Unknown \notin Item
    BY Names DEF Size
  <2> QED
    BY <1>6, <1>8, <2>1, <2>2
<1> QED
  BY <1>1, <1>4, <1>7, <1>8 DEF VerifyPayload

-----------------------------------------------------------------------------
LEMMA GiveUpSizeStep == ASSUME BinInv, NEW w \in Worker, GiveUpSize(w) PROVE BinInv'
<1>1. PICK k : k = job[w]
  OBVIOUS
<1>2. PICK j : j = [k EXCEPT !.op = "open payload"]
  OBVIOUS
<1>3. /\ JobShape(k) /\ Fits(k) /\ StoreType /\ Flushed /\ OneEach /\ k.op = "give up size"
      /\ UNCHANGED <<where, entry, crossed, reduced>> /\ Turn(w, j)
  BY <1>1, <1>2, Facts DEF GiveUpSize, Does, Next1
<1>4. /\ JobShape(j) /\ j.op = "open payload" /\ j.names = k.names /\ j.e = k.e /\ k.e \in Entry
  BY <1>2, <1>3 DEF JobShape, Job, Deletes, Restores, Empties
<1>5. \/ UNCHANGED <<meta, disk, excused>> /\ Opening(k.e)
      \/ /\ meta' = [meta EXCEPT ![k.e] = Unknown] /\ disk' = meta' /\ UNCHANGED excused
         /\ meta'[k.e] = Unknown
      \/ UNCHANGED <<meta, disk>> /\ excused' = excused \cup {k.e}
  <2>1. ~HasSize(k.e) => Opening(k.e)
    <3>1. meta[k.e] \in {NoMeta, Unknown} => meta[k.e] \notin Item
      BY Names
    <3>2. ASSUME At(k.e) \notin Folder, NEW i \in Folder, where[i] = k.e PROVE FALSE
      <4>1. At(k.e) \in Item /\ where[At(k.e)] = k.e
        BY <3>2, AtFact, Names DEF Empty
      <4>2. At(k.e) = i
        BY <1>3, <1>4, <3>2, <4>1, Names DEF OneEach
      <4> QED
        BY <3>2, <4>2
    <3> QED
      BY <3>1, <3>2 DEF HasSize, Opening
  <2> QED
    BY <1>1, <1>3, <1>4, <2>1 DEF GiveUpSize, BecomesUnknown, StoreType, Flushed
<1>6. Turned(w, j) /\ job' \in [Worker -> Job]
  BY <1>3, <1>4, TurnTo
<1>7. Moved(w, j)
  <2>1. Begins(w, j)
    BY <1>4 DEF Begins, Deletes
  <2>2. Grows
    BY <1>3, <1>5 DEF Grows
  <2>3. Sidecars(w)
    BY <1>1, <1>3, <1>4, <1>5, Names DEF Sidecars, StoreType, Empties
  <2> QED
    BY <1>3, <1>6, <2>1, <2>2, <2>3 DEF Moved, Places
<1>8. Opening(k.e)'
  BY <1>3, <1>5, Names DEF Opening
<1>9. Settled(k.e) => Settled(k.e)'
  BY <1>1, <1>3, <1>4, <1>6 DEF Turned, Settled, Deletes
<1>10. Fits(j)'
  BY <1>3, <1>4, <1>8, <1>9
    DEF Fits, UsedAt, DeleteAt, RestoreAt, EmptyAt, Deletes, Restores, Empties
<1>11. entry' \in [Entry -> {"free", "made", "removed"}] /\ disk' = meta'
  BY <1>3, <1>5 DEF StoreType, Flushed
<1>12. Unknown \in Size \cup {NoMeta} /\ Unknown # NoMeta
  BY DEF Size, Unknown, NoMeta
<1> QED
  BY <1>1, <1>3, <1>5, <1>6, <1>7, <1>10, <1>11, <1>12, SidecarStep

LEMMA DropEmptiedStep == ASSUME BinInv, NEW w \in Worker, DropEmptied(w) PROVE BinInv'
<1>1. CASE Skip(w) /\ UNCHANGED <<meta, disk>>
  BY <1>1, BackToPassStep DEF DropEmptied, Skip, Does, Empties
<1>2. CASE /\ Next1(w, "entry goes") /\ meta' = [meta EXCEPT ![job[w].e] = NoMeta]
           /\ disk' = [disk EXCEPT ![job[w].e] = NoMeta]
  <2>1. PICK k : k = job[w]
    OBVIOUS
  <2>2. PICK j : j = [k EXCEPT !.op = "entry goes"]
    OBVIOUS
  <2>3. /\ JobShape(k) /\ Fits(k) /\ StoreType /\ Flushed /\ k.op = "sidecar goes"
        /\ UNCHANGED <<where, entry, excused, crossed, reduced>> /\ Turn(w, j)
    BY <1>2, <2>1, <2>2, Facts DEF DropEmptied, Does, Next1
  <2>4. JobShape(j) /\ j.op = "entry goes" /\ j.names = k.names /\ j.e = k.e /\ k.e \in Entry
    BY <2>2, <2>3 DEF JobShape, Job, Deletes, Restores, Empties
  <2>5. meta' = [meta EXCEPT ![k.e] = NoMeta] /\ disk' = meta'
    BY <1>2, <2>1, <2>3 DEF Flushed
  <2>6. Turned(w, j) /\ job' \in [Worker -> Job]
    BY <2>3, <2>4, TurnTo
  <2>7. Moved(w, j)
    <3>1. Begins(w, j) /\ Grows
      BY <2>3, <2>4 DEF Begins, Grows, Deletes
    <3>2. Sidecars(w)
      BY <2>1, <2>3, <2>4, <2>5, Names DEF Sidecars, StoreType, Empties
    <3> QED
      BY <2>3, <2>6, <3>1, <3>2 DEF Moved, Places
  <2>8. k.e \in crossed \/ (Settled(k.e)' /\ Empty(k.e))
    BY <2>1, <2>3, <2>4, <2>6 DEF Fits, EmptyAt, Turned, Settled, Deletes, Empties
  <2>9. Fits(j)'
    BY <2>3, <2>4, <2>8 DEF Fits, UsedAt, DeleteAt, RestoreAt, EmptyAt, Deletes, Restores, Empties
  <2>10. entry' \in [Entry -> {"free", "made", "removed"}]
    BY <2>3 DEF StoreType
  <2> QED
    BY <2>1, <2>3, <2>5, <2>6, <2>7, <2>8, <2>9, <2>10, SidecarStep
<1> QED
  BY <1>1, <1>2 DEF DropEmptied

-----------------------------------------------------------------------------
\* A step that takes an item out of its entry.
LEMMA TakeOutStep ==
    ASSUME BinInv, NEW w \in Worker, NEW j, Moved(w, j), job' \in [Worker -> Job], Fits(j)',
           job[w].op \notin Deletes, UNCHANGED <<entry, meta, disk, reduced>>,
           NEW i \in Item, NEW p \in {"home", "gone"}, where' = [where EXCEPT ![i] = p],
           p = "home" => Empty("home")
    PROVE  BinInv'
<1>0. /\ StoreType /\ Flushed /\ OneEach /\ Restorable /\ SizesShape /\ ReducedShape
      /\ Turned(w, j) /\ Grows
  BY DEF BinInv, Moved
<1>1. StoreType' /\ Flushed'
  BY <1>0 DEF StoreType, Flushed
<1>2. \A x \in Item : where'[x] = where[x] \/ (x = i /\ where'[x] = p)
  BY <1>0 DEF StoreType
<1>3. OneEach'
  BY <1>0, <1>2, Names DEF OneEach, Empty
<1>4. Restorable'
  BY <1>0, <1>2, Names DEF Restorable, Grows, Empty
<1>5. SizesShape'
  <2>1. \A e \in Entry : Settled(e)' => Settled(e)
    BY <1>0 DEF Settled, Turned
  <2>2. \A x \in Item, e \in Entry : where'[x] = e => where[x] = e
    BY <1>2, Names
  <2> QED
    BY <1>0, <2>1, <2>2 DEF SizesShape, Grows
<1>6. ReducedShape'
  <2>1. \A f \in Entry : entry[f] # "free" => Stays(f)
    BY MadeStays
  <2>2. \A x \in Item, e \in Entry : where'[x] = e => where[x] = e
    BY <1>2, Names
  <2> QED
    BY <1>0, <2>1, <2>2 DEF ReducedShape, Grows, Stays
<1> QED
  BY <1>1, <1>3, <1>4, <1>5, <1>6, JobsStep DEF BinInv

LEMMA PutBackStep == ASSUME BinInv, NEW w \in Worker, PutBack(w) PROVE BinInv'
<1>1. CASE Turn(w, Idle) /\ UNCHANGED <<where, crossed>>
  BY <1>1, IdleShape, IdleStep DEF PutBack, Does
<1>2. CASE ~(Turn(w, Idle) /\ UNCHANGED <<where, crossed>>)
  <2>1. PICK k : k = job[w]
    OBVIOUS
  <2>2. PICK j : j = [k EXCEPT !.op = "drop sidecar"]
    OBVIOUS
  <2>3. PICK i : i = At(k.e)
    OBVIOUS
  <2>4. /\ k.op = "put back" /\ i # NoItem /\ At("home") = NoItem
        /\ where' = [where EXCEPT ![i] = "home"]
        /\ crossed' = IF \E v \in Worker : Does(v, "take apart") /\ job[v].held = i
                      THEN crossed \cup {i} ELSE crossed
        /\ Turn(w, j) /\ UNCHANGED <<entry, meta, disk, excused, reduced>>
    BY <1>2, <2>1, <2>2, <2>3 DEF PutBack, Does, Next1
  <2>5. JobShape(k) /\ Fits(k) /\ StoreType /\ OneEach
    BY <2>1, Facts
  <2>6. JobShape(j) /\ j.op = "drop sidecar" /\ j.e = k.e /\ k.e \in Entry
    BY <2>2, <2>4, <2>5 DEF JobShape, Job, Deletes, Restores, Empties
  <2>7. i \in Item /\ where[i] = k.e /\ Empty("home")
    BY <2>3, <2>4, AtFact, Names DEF Empty
  <2>8. Turned(w, j) /\ job' \in [Worker -> Job]
    BY <2>4, <2>6, TurnTo
  <2>9. Moved(w, j)
    <3>1. Begins(w, j) /\ Grows /\ Sidecars(w)
      BY <2>4, <2>6 DEF Begins, Grows, Sidecars, Deletes
    <3>2. Places(w)
      BY <2>4, <2>5, <2>7 DEF Places, StoreType, Does
    <3> QED
      BY <2>8, <3>1, <3>2 DEF Moved
  <2>10. Empty(k.e)'
    BY <2>4, <2>5, <2>6, <2>7, Names DEF Empty, OneEach, StoreType
  <2>11. NoneComes(k.e)'
    BY <2>1, <2>4, <2>5, <2>6, <2>8 DEF Fits, RestoreAt, NoneComes, Turned, Restores
  <2>12. Fits(j)'
    BY <2>4, <2>5, <2>6, <2>10, <2>11
      DEF Fits, UsedAt, DeleteAt, RestoreAt, EmptyAt, Deletes, Restores, Empties
  <2>13. job[w].op \notin Deletes
    BY <2>1, <2>4 DEF Deletes
  <2> QED
    BY <2>4, <2>7, <2>8, <2>9, <2>12, <2>13, TakeOutStep
<1> QED
  BY <1>1, <1>2

\* A job that found its entry empty, or emptied it, goes on to its litter.
LEMMA LitterFits ==
    ASSUME BinInv, NEW w \in Worker, NEW k, NEW j, k = job[w], k.op \in Empties, Turned(w, j),
           j.op = "litter", j.e = k.e, j.names = k.names, UNCHANGED <<entry, crossed>>,
           k.e \in crossed \/ Empty(k.e)'
    PROVE  Fits(j)'
<1>1. Fits(k)
  BY Facts
<1>2. Settled(k.e) => Settled(k.e)'
  BY DEF Settled, Turned, Deletes
<1> QED
  BY <1>1, <1>2 DEF Fits, UsedAt, DeleteAt, RestoreAt, EmptyAt, Deletes, Restores, Empties

LEMMA LitterShape ==
    ASSUME NEW k, JobShape(k), k.op \in Empties, NEW j, j = [k EXCEPT !.op = "litter"]
    PROVE  JobShape(j) /\ j.op = "litter" /\ j.e = k.e /\ j.names = k.names /\ k.e \in Entry
BY DEF JobShape, Job, Deletes, Restores, Empties

LEMMA OpenPayloadStep == ASSUME BinInv, NEW w \in Worker, OpenPayload(w) PROVE BinInv'
<1>1. PICK k : k = job[w]
  OBVIOUS
<1>2. PICK i : i = At(k.e)
  OBVIOUS
<1>3. /\ JobShape(k) /\ Fits(k) /\ StoreType /\ OneEach /\ k.op = "open payload"
      /\ UNCHANGED <<entry, meta, disk, excused, crossed, reduced>>
  BY <1>1, Facts DEF OpenPayload, Does
<1>4. k.op \in Empties /\ k.op # "verify" /\ k.op \notin Deletes /\ k.e \in Entry
  BY <1>3 DEF Empties, Deletes, JobShape
<1>5. Grows /\ entry' \in [Entry -> {"free", "made", "removed"}]
  BY <1>3 DEF Grows, StoreType
<1>6. CASE i = NoItem /\ Next1(w, "litter") /\ UNCHANGED where
  <2>1. PICK j : j = [k EXCEPT !.op = "litter"]
    OBVIOUS
  <2>2. JobShape(j) /\ j.op = "litter" /\ j.e = k.e /\ j.names = k.names /\ Turn(w, j)
    BY <1>1, <1>3, <1>4, <1>6, <2>1, LitterShape DEF Next1
  <2>3. Empty(k.e)'
    BY <1>2, <1>6, AtFact, Names DEF Empty
  <2>4. Fits(j)'
    BY <1>1, <1>3, <1>4, <2>2, <2>3, TurnTo, LitterFits
  <2>5. Begins(w, j)
    BY <2>2 DEF Begins, Deletes
  <2> QED
    BY <1>1, <1>3, <1>4, <1>5, <1>6, <2>2, <2>4, <2>5, QuietStep
<1>7. CASE Skip(w) /\ UNCHANGED where
  BY <1>1, <1>3, <1>4, <1>7, BackToPassStep DEF Skip
<1>8. CASE /\ i \in Folder /\ Turn(w, [job[w] EXCEPT !.op = "take apart", !.held = i])
           /\ UNCHANGED where
  <2>1. PICK j : j = [k EXCEPT !.op = "take apart", !.held = i]
    OBVIOUS
  <2>2. i \in Item /\ where[i] = k.e
    BY <1>2, <1>8, AtFact, Names
  <2>3. /\ JobShape(j) /\ j.op = "take apart" /\ j.e = k.e /\ j.names = k.names /\ j.held = i
        /\ Turn(w, j)
    BY <1>1, <1>3, <1>8, <2>1, <2>2 DEF JobShape, Job, Deletes, Restores, Empties
  <2>4. Settled(k.e) => Settled(k.e)'
    BY <1>1, <1>4, <2>3, TurnTo DEF Settled, Turned, Deletes
  <2>5. k.e \in crossed \/ Opened(k.e)'
    BY <1>3, <1>8, <2>2 DEF Fits, EmptyAt, Opening, Opened
  <2>6. \A x \in Item : where'[x] = k.e => x = i
    BY <1>3, <1>4, <1>8, <2>2, Names DEF OneEach
  <2>7. Fits(j)'
    BY <1>3, <1>4, <1>8, <2>2, <2>3, <2>4, <2>5, <2>6
      DEF Fits, UsedAt, DeleteAt, RestoreAt, EmptyAt, Deletes, Restores, Empties
  <2>8. Begins(w, j)
    BY <2>3 DEF Begins, Deletes
  <2> QED
    BY <1>1, <1>3, <1>4, <1>5, <1>8, <2>3, <2>7, <2>8, QuietStep
<1>9. CASE i \in Item \ Folder /\ where' = [where EXCEPT ![i] = "gone"] /\ Next1(w, "litter")
  <2>1. PICK j : j = [k EXCEPT !.op = "litter"]
    OBVIOUS
  <2>2. JobShape(j) /\ j.op = "litter" /\ j.e = k.e /\ j.names = k.names /\ Turn(w, j)
    BY <1>1, <1>3, <1>4, <1>9, <2>1, LitterShape DEF Next1
  <2>3. i \in Item /\ where[i] = k.e
    BY <1>2, <1>9, AtFact, Names
  <2>4. Empty(k.e)'
    BY <1>3, <1>4, <1>9, <2>3, Names DEF Empty, OneEach, StoreType
  <2>5. Turned(w, j) /\ job' \in [Worker -> Job]
    BY <2>2, TurnTo
  <2>6. Fits(j)'
    BY <1>1, <1>3, <1>4, <2>2, <2>4, <2>5, LitterFits
  <2>7. Moved(w, j)
    <3>1. Begins(w, j) /\ Sidecars(w)
      BY <1>3, <2>2 DEF Begins, Sidecars, Deletes
    <3>2. Places(w)
      BY <1>3, <1>9 DEF Places, StoreType
    <3> QED
      BY <1>5, <2>5, <3>1, <3>2 DEF Moved
  <2> QED
    BY <1>1, <1>3, <1>4, <1>9, <2>3, <2>5, <2>6, <2>7, TakeOutStep
<1> QED
  BY <1>1, <1>2, <1>6, <1>7, <1>8, <1>9 DEF OpenPayload

LEMMA TakeApartStep == ASSUME BinInv, NEW w \in Worker, TakeApart(w) PROVE BinInv'
<1>1. PICK k : k = job[w]
  OBVIOUS
<1>2. PICK i : i = k.held
  OBVIOUS
<1>3. /\ JobShape(k) /\ Fits(k) /\ StoreType /\ OneEach /\ k.op = "take apart"
      /\ UNCHANGED <<entry, meta, disk, excused, crossed>>
  BY <1>1, Facts DEF TakeApart, Does
<1>4. k.op \in Empties /\ k.op \notin Deletes /\ k.op # "verify" /\ k.e \in Entry /\ i \in Item
  BY <1>2, <1>3 DEF Empties, Deletes, JobShape
<1>5. Grows /\ entry' \in [Entry -> {"free", "made", "removed"}]
  BY <1>3 DEF Grows, StoreType
<1>6. CASE Skip(w) /\ UNCHANGED <<where, reduced>>
  BY <1>1, <1>3, <1>4, <1>6, BackToPassStep DEF Skip
<1>7. CASE reduced' = reduced \cup ({where[i]} \cap Entry) /\ UNCHANGED <<where, job>>
  <2>1. /\ StoreType' /\ JobType' /\ Flushed' /\ OneEach' /\ OneDelete' /\ Restorable' /\ SizesShape'
    BY <1>3, <1>7 DEF BinInv, StoreType, JobType, Flushed, OneEach, OneDelete, Restorable, Empty,
                      SizesShape, Settled
  <2>2. JobsFit'
    <3>1. ASSUME NEW v \in Worker, NEW x, x = job[v] PROVE Fits(x)'
      <4>1. Fits(x)
        BY <3>1, Facts
      <4> QED
        BY <1>3, <1>7, <4>1 DEF Fits, UsedAt, DeleteAt, RestoreAt, EmptyAt, Empty, NoneComes,
                                Settled, Opening, Opened
    <3> QED
      BY <1>7, <3>1 DEF JobsFit
  <2>3. ReducedShape'
    <3>1. ASSUME NEW f \in reduced' PROVE f \in Entry /\ entry[f] # "free" /\ NoneComes(f)
      <4>1. CASE f \in reduced
        BY <4>1, Facts DEF ReducedShape
      <4>2. CASE f = where[i] /\ f \in Entry
        BY <1>3, <1>4, <4>2, Facts DEF OneEach, NoneComes, Fits, DeleteAt, Empty
      <4> QED
        BY <1>7, <3>1, <4>1, <4>2
    <3>2. ASSUME NEW f \in reduced'
          PROVE  \/ f \in crossed \cup excused \/ meta[f] \notin Item
                 \/ \A x \in Item : where[x] = f => x \in crossed
      <4>1. CASE f \in reduced
        BY <4>1, Facts DEF ReducedShape
      <4>2. CASE f = where[i] /\ f \in Entry
        <5>1. i \in crossed \/ f = k.e
          BY <1>2, <1>3, <4>2, Names DEF Fits, EmptyAt
        <5>2. CASE i \in crossed
          BY <1>3, <1>4, <4>2, <5>2, Names DEF OneEach
        <5>3. CASE f = k.e
          BY <1>3, <1>4, <4>2, <5>3 DEF Fits, EmptyAt, Opened, Empty
        <5> QED
          BY <5>1, <5>2, <5>3
      <4> QED
        BY <1>7, <3>2, <4>1, <4>2
    <3> QED
      BY <1>3, <1>7, <3>1, <3>2 DEF ReducedShape, NoneComes
  <2> QED
    BY <2>1, <2>2, <2>3 DEF BinInv
<1>8. CASE /\ where' = IF where[i] = k.e THEN [where EXCEPT ![i] = "gone"] ELSE where
           /\ Next1(w, "litter") /\ UNCHANGED <<amount, reduced>>
  <2>1. PICK j : j = [k EXCEPT !.op = "litter"]
    OBVIOUS
  <2>2. JobShape(j) /\ j.op = "litter" /\ j.e = k.e /\ j.names = k.names /\ Turn(w, j)
    BY <1>1, <1>3, <1>4, <1>8, <2>1, LitterShape DEF Next1
  <2>3. Turned(w, j) /\ job' \in [Worker -> Job]
    BY <2>2, TurnTo
  <2>4. k.e \in crossed \/ \A x \in Item : where[x] = k.e => x = i
    BY <1>2, <1>3 DEF Fits, EmptyAt
  <2>5. k.e \in crossed \/ Empty(k.e)'
    BY <1>3, <1>4, <1>8, <2>4, Names DEF Empty, StoreType
  <2>6. Fits(j)'
    BY <1>1, <1>3, <1>4, <2>2, <2>3, <2>5, LitterFits
  <2>7. Begins(w, j) /\ Sidecars(w)
    BY <1>3, <2>2 DEF Begins, Sidecars, Deletes
  <2>8. CASE where[i] = k.e
    <3>1. where' = [where EXCEPT ![i] = "gone"]
      BY <1>8, <2>8
    <3>2. Moved(w, j)
      BY <1>3, <1>5, <2>3, <2>7, <3>1 DEF Moved, Places, StoreType
    <3> QED
      BY <1>1, <1>3, <1>4, <1>8, <2>3, <2>6, <3>1, <3>2, TakeOutStep
  <2>9. CASE where[i] # k.e
    BY <1>1, <1>3, <1>4, <1>5, <1>8, <2>2, <2>6, <2>7, <2>9, QuietStep
  <2> QED
    BY <2>8, <2>9
<1> QED
  BY <1>1, <1>2, <1>6, <1>7, <1>8 DEF TakeApart

\* A delete moves what stands at Home by now into its own entry.
LEMMA MoveInStep == ASSUME BinInv, NEW w \in Worker, MoveIn(w) PROVE BinInv'
<1>1. PICK k : k = job[w]
  OBVIOUS
<1>2. CASE RemoveEntryDir(k.e) /\ Turn(w, Idle) /\ UNCHANGED where
  <2>1. job[w].op \in {"sidecar", "move", "drop sidecar"} /\ UNCHANGED <<crossed, excused, reduced>>
    BY DEF MoveIn, Does
  <2> QED
    BY <1>1, <1>2, <2>1, ClearStep
<1>3. CASE /\ At("home") # NoItem /\ entry[k.e] = "made" /\ where' = [where EXCEPT ![At("home")] = k.e]
           /\ Next1(w, "verify") /\ UNCHANGED <<entry, meta, disk>>
  <2>1. PICK i : i = At("home")
    OBVIOUS
  <2>2. PICK j : j = [k EXCEPT !.op = "verify"]
    OBVIOUS
  <2>3. /\ JobShape(k) /\ Fits(k) /\ StoreType /\ Flushed /\ OneEach /\ k.op = "move"
        /\ Restorable /\ SizesShape /\ ReducedShape
        /\ UNCHANGED <<excused, crossed, reduced>> /\ Turn(w, j)
    BY <1>1, <1>3, <2>2, Facts DEF MoveIn, Does, Next1
  <2>4. JobShape(j) /\ j.op = "verify" /\ j.e = k.e /\ j.size = k.size /\ k.e \in Entry /\ k.size \in Size
    BY <2>2, <2>3 DEF JobShape, Job, Deletes, Restores, Empties
  <2>5. i \in Item /\ where[i] = "home" /\ where' = [where EXCEPT ![i] = k.e]
    BY <1>3, <2>1, AtFact
  <2>6. Turned(w, j) /\ job' \in [Worker -> Job]
    BY <2>3, <2>4, TurnTo
  <2>7. Moved(w, j)
    <3>1. Begins(w, j) /\ Grows /\ Sidecars(w)
      BY <1>1, <1>3, <2>3, <2>4 DEF Begins, Grows, Sidecars, Deletes
    <3>2. Places(w)
      BY <1>1, <2>3, <2>5 DEF Places, StoreType
    <3> QED
      BY <2>6, <3>1, <3>2 DEF Moved
  <2>8. Fits(j)'
    BY <1>3, <2>3, <2>4
      DEF Fits, UsedAt, DeleteAt, RestoreAt, EmptyAt, Deletes, Restores, Empties
  <2>9. \A x \in Item : where'[x] = IF x = i THEN k.e ELSE where[x]
    BY <2>3, <2>5 DEF StoreType
  <2>10. Empty(k.e) /\ (k.e \in crossed \/ meta[k.e] = k.size)
    BY <2>3 DEF Fits, DeleteAt
  <2>11. StoreType' /\ Flushed'
    BY <1>3, <2>3, <2>4, <2>5 DEF StoreType, Flushed
  <2>12. OneEach'
    BY <1>3, <2>3, <2>4, <2>9, <2>10 DEF OneEach, Empty
  <2>13. Restorable'
    <3>1. k.size # NoMeta
      BY <2>4, Names DEF Size, Unknown, NoMeta
    <3>2. ASSUME NEW f \in Entry PROVE f \in crossed \/ Empty(f)' \/ meta[f] # NoMeta
      <4>1. CASE f = k.e
        BY <2>10, <3>1, <4>1
      <4>2. CASE f # k.e
        BY <2>3, <2>9, <4>2 DEF Restorable, Empty
      <4> QED
        BY <4>1, <4>2
    <3> QED
      BY <1>3, <2>3, <3>2 DEF Restorable
  <2>14. SizesShape'
    <3> SUFFICES ASSUME NEW x \in Item, NEW f \in Entry, f \notin crossed', f \notin excused',
                        where'[x] = f, x \notin crossed', meta'[f] \in Item, Settled(f)'
                 PROVE  meta'[f] = x
      BY DEF SizesShape
    <3>1. f # k.e
      BY <2>4, <2>6 DEF Settled, Turned, Deletes
    <3>2. Settled(f)
      BY <1>1, <2>6, <3>1 DEF Settled, Turned
    <3>3. where[x] = f
      BY <2>9, <3>1
    <3> QED
      BY <1>3, <2>3, <3>2, <3>3 DEF SizesShape
  <2>15. ReducedShape'
    <3>1. \A f \in Entry : entry[f] # "free" => Stays(f)
      BY <2>7, MadeStays
    <3> QED
      BY <1>3, <2>3, <3>1 DEF ReducedShape, Stays
  <2> QED
    BY <2>6, <2>7, <2>8, <2>11, <2>12, <2>13, <2>14, <2>15, JobsStep DEF BinInv
<1> QED
  BY <1>1, <1>2, <1>3 DEF MoveIn

-----------------------------------------------------------------------------
\* Somebody else changes what stands at Home, where no job holds anything.
LEMMA SwapStep == BinInv /\ Swap => BinInv'
<1> SUFFICES ASSUME BinInv, Swap PROVE BinInv'
  OBVIOUS
<1>1. PICK new \in {NoItem} \cup Stands("aside") :
         where' = [i \in Item |-> IF i = new THEN "home"
                                  ELSE IF where[i] = "home" THEN "aside" ELSE where[i]]
  BY DEF Swap
<1>2. UNCHANGED <<entry, meta, disk, job, excused, crossed, reduced>>
  BY DEF Swap
<1>3. new \in Item => where[new] = "aside"
  BY <1>1, Names DEF Stands
<1>4. \A i \in Item, e \in Entry : where'[i] = e <=> where[i] = e
  BY <1>1, <1>3, Names DEF BinInv, StoreType
<1>5. \A i \in Item : where'[i] = "gone" <=> where[i] = "gone"
  BY <1>1, <1>3 DEF BinInv, StoreType
<1>6. StoreType' /\ JobType' /\ Flushed' /\ OneDelete'
  BY <1>1, <1>2 DEF BinInv, StoreType, JobType, Flushed, OneDelete
<1>7. OneEach'
  <2>1. \A i \in Item : where'[i] = "home" => i = new
    BY <1>1
  <2>2. \A i \in Item : where'[i] \in {"home", "aside", "gone"} \cup Entry
    BY <1>6 DEF StoreType
  <2> QED
    BY <1>2, <1>4, <2>1, <2>2, Names DEF BinInv, OneEach
<1>8. JobsFit'
  <2>1. ASSUME NEW w \in Worker, NEW k, k = job[w] PROVE Fits(k)'
    <3>1. Fits(k) /\ JobShape(k)
      BY <2>1, Facts
    <3>2. \A e \in Entry : (Empty(e)' <=> Empty(e)) /\ (NoneComes(e)' <=> NoneComes(e))
                           /\ (Settled(e)' <=> Settled(e))
      BY <1>2, <1>4 DEF Empty, NoneComes, Settled
    <3>3. UsedAt(k)' /\ DeleteAt(k)' /\ RestoreAt(k)'
      BY <1>2, <3>1, <3>2 DEF Fits, UsedAt, DeleteAt, RestoreAt, JobShape, Deletes, Restores
    <3>4. \A e \in Entry : (Opening(e) => Opening(e)') /\ (Opened(e) => Opened(e)')
      BY <1>2, <1>4, <3>2, Names DEF Opening, Opened
    <3>5. k.op = "take apart" => k.held \in Item
      BY <3>1 DEF JobShape
    <3>6. EmptyAt(k)'
      BY <1>2, <1>4, <1>5, <3>1, <3>2, <3>4, <3>5 DEF Fits, EmptyAt, JobShape, Empties
    <3> QED
      BY <3>3, <3>6 DEF Fits
  <2> QED
    BY <1>2, <2>1 DEF JobsFit
<1>9. Restorable' /\ SizesShape' /\ ReducedShape'
  BY <1>2, <1>4 DEF BinInv, Restorable, SizesShape, ReducedShape, Empty, Settled, NoneComes
<1> QED
  BY <1>6, <1>7, <1>8, <1>9 DEF BinInv

\* After a power cut nothing is in hand, and every sidecar is as it was flushed.
LEMMA PowerCutStep == BinInv /\ PowerCut => BinInv'
<1> SUFFICES ASSUME BinInv, PowerCut PROVE BinInv'
  OBVIOUS
<1>1. /\ job' = [w \in Worker |-> Idle] /\ UNCHANGED <<where, entry, meta, disk, crossed, reduced>>
      /\ excused \subseteq excused'
      /\ \A w \in Worker : job[w].op = "verify" => job[w].e \in excused'
  BY DEF PowerCut, BinInv, Flushed, Does
<1>2. \A w \in Worker : job'[w] = Idle /\ job'[w].op = "idle"
  BY <1>1, IdleShape
<1>3. StoreType' /\ Flushed' /\ OneEach' /\ Restorable'
  BY <1>1 DEF BinInv, StoreType, Flushed, OneEach, Restorable, Empty
<1>4. JobType' /\ OneDelete'
  BY <1>1, <1>2, IdleShape DEF JobType, JobShape, OneDelete, Deletes
<1>5. JobsFit'
  <2>1. ASSUME NEW k, k = Idle PROVE Fits(k)'
    BY <2>1, IdleShape DEF Fits, UsedAt, DeleteAt, RestoreAt, EmptyAt, Deletes, Restores, Empties
  <2> QED
    BY <1>2, <2>1 DEF JobsFit
<1>6. SizesShape'
  <2> SUFFICES ASSUME NEW i \in Item, NEW e \in Entry, e \notin crossed', e \notin excused',
                      where'[i] = e, i \notin crossed', meta'[e] \in Item
               PROVE  meta'[e] = i
    BY DEF SizesShape
  <2>1. Settled(e)
    <3> SUFFICES ASSUME NEW w \in Worker, job[w].op \in Deletes, job[w].e = e PROVE FALSE
      BY DEF Settled
    <3>1. job[w].op # "verify"
      BY <1>1
    <3>2. Empty(e)
      BY <3>1, Facts DEF Fits, DeleteAt, Deletes
    <3> QED
      BY <1>1, <3>2 DEF Empty
  <2> QED
    BY <1>1, <2>1 DEF BinInv, SizesShape
<1>7. ReducedShape'
  BY <1>1, <1>2 DEF BinInv, ReducedShape, NoneComes
<1> QED
  BY <1>3, <1>4, <1>5, <1>6, <1>7 DEF BinInv

LEMMA BinStart == BinInit => BinInv
<1> SUFFICES ASSUME BinInit PROVE BinInv
  OBVIOUS
<1>1. PICK i \in Item : where = [j \in Item |-> IF j = i THEN "home" ELSE "aside"]
  BY DEF BinInit
<1>2. /\ entry = [e \in Entry |-> "free"] /\ meta = [e \in Entry |-> NoMeta] /\ disk = meta
      /\ job = [w \in Worker |-> Idle] /\ excused = {} /\ crossed = {} /\ reduced = {}
  BY DEF BinInit
<1>3. \A w \in Worker : job[w] = Idle /\ job[w].op = "idle"
  BY <1>2, IdleShape
<1>4. \A e \in Entry : Empty(e)
  BY <1>1, Names DEF Empty
<1>5. StoreType /\ Flushed /\ OneEach
  BY <1>1, <1>2, <1>4 DEF StoreType, Flushed, OneEach, Empty
<1>6. JobType /\ OneDelete
  BY <1>2, <1>3, IdleShape DEF JobType, JobShape, OneDelete, Deletes
<1>7. JobsFit
  <2>1. ASSUME NEW k, k = Idle PROVE Fits(k)
    BY <2>1, IdleShape DEF Fits, UsedAt, DeleteAt, RestoreAt, EmptyAt, Deletes, Restores, Empties
  <2> QED
    BY <1>3, <2>1 DEF JobsFit
<1>8. Restorable /\ SizesShape /\ ReducedShape
  BY <1>2, <1>4 DEF Restorable, SizesShape, ReducedShape, Empty
<1> QED
  BY <1>5, <1>6, <1>7, <1>8 DEF BinInv

LEMMA BinNextStep == BinInv /\ BinNext => BinInv'
BY SelectStep, ScanStep, MakeEntryStep, WriteSidecarStep, MoveInStep, VerifyPayloadStep,
   ReadEntryStep, PutBackStep, DropSidecarStep, StartEmptyStep, EndPassStep, NextEntryStep,
   GiveUpSizeStep, OpenPayloadStep, TakeApartStep, ClearLitterStep, DropEmptiedStep,
   RemoveEntryStep, KillStep, SwapStep, PowerCutStep
DEF BinNext, Step

LEMMA BinUnchanged == BinInv /\ UNCHANGED binVars => BinInv'
<1> SUFFICES ASSUME BinInv, UNCHANGED binVars PROVE BinInv'
  OBVIOUS
<1>1. UNCHANGED <<where, entry, meta, disk, job, excused, crossed, reduced>>
  BY DEF binVars
<1>2. ASSUME NEW k, Fits(k) PROVE Fits(k)'
  BY <1>1, <1>2 DEF Fits, UsedAt, DeleteAt, RestoreAt, EmptyAt, Empty, NoneComes, Settled, Opening, Opened
<1>3. JobsFit'
  BY <1>1, <1>2 DEF BinInv, JobsFit
<1> QED
  BY <1>1, <1>3 DEF BinInv, StoreType, JobType, Flushed, OneEach, OneDelete, Restorable, SizesShape,
                    ReducedShape, Empty, NoneComes, Settled

-----------------------------------------------------------------------------
\* Every behaviour of the jobs in a trash, with kills, power cuts, failing calls and
\* other programs at Home, keeps all the parts above.
THEOREM BinInvariant == Spec => []BinInv
<1>1. Init => BinInv
  BY BinStart DEF Init
<1>2. BinInv /\ [Next]_vars => BinInv'
  BY BinNextStep, BinUnchanged DEF Next, Requests, Jobs, vars
<1> QED
  BY <1>1, <1>2, PTL DEF Spec

\* However many jobs delete, put back and empty side by side and are killed, an item
\* in the trash has the sidecar that names it, except in an entry an emptying reached
\* in the middle of its delete (trashOne, restoreOne, emptyEntry).
THEOREM ItemsStayRestorable == Spec => []RestorableUntilEmptied
<1>1. BinInv => RestorableUntilEmptied
  BY AtFact DEF BinInv, Restorable, RestorableUntilEmptied, Empty
<1> QED
  BY <1>1, BinInvariant, PTL

\* A size a sidecar states was measured of the item beside it, and nothing was taken
\* out of that item since, but where a warning said that it may be wrong (describes,
\* verifyTrashPayload, invalidateTrashSize).
THEOREM SizesStayTrue == Spec => []SizeSpeaksOfItsItem
<1>1. ASSUME BinInv PROVE SizeSpeaksOfItsItem
  <2> SUFFICES ASSUME NEW e \in Entry, e \notin crossed, e \notin excused, Measured(e),
                      At(e) \notin crossed, \A w \in Worker : ~Deleting(w, e)
               PROVE  meta[e] = At(e) /\ e \notin reduced
    BY DEF SizeSpeaksOfItsItem
  <2>1. PICK i : i = At(e)
    OBVIOUS
  <2>2. i \in Item /\ where[i] = e /\ i \notin crossed
    BY <2>1, AtFact DEF Measured
  <2>3. meta[e] \in Item
    BY <1>1 DEF Measured, BinInv, StoreType, Size
  <2>4. Settled(e)
    BY DEF Settled, Deleting, Deletes
  <2>5. meta[e] = i
    BY <1>1, <2>2, <2>3, <2>4 DEF BinInv, SizesShape
  <2>6. e \notin reduced
    BY <1>1, <2>2, <2>3 DEF BinInv, ReducedShape
  <2> QED
    BY <2>1, <2>5, <2>6
<1> QED
  BY <1>1, BinInvariant, PTL
=============================================================================
