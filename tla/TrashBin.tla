----------------------------- MODULE TrashBin -----------------------------
(***************************************************************************)
(* One user's trash on one volume, with the jobs that move items into it,  *)
(* put them back and empty it, side by side in the user's workers.         *)
(*                                                                         *)
(* An item is deleted by a rename into an entry directory of its own, next *)
(* to a sidecar that says where it came from and how much it holds. All    *)
(* items here come from one place, Home. A worker may be killed, and the   *)
(* machine may lose its power, between any two steps.                      *)
(***************************************************************************)
EXTENDS Naturals, FiniteSets, TLC

CONSTANTS
    Item,           \* the files and folders that may stand at Home
    Folder,         \* those that are folders
    Whole,          \* how much a folder holds, of a size greater than 0
    Entry,          \* the names of entry directories, each used once
    Worker,         \* the jobs that may run side by side
    MaxDirAttempts,
    Mishaps         \* bounds, to choose from: how often somebody else changes
                    \* Home (swaps), how many kills and power cuts (crashes) and
                    \* how many system calls that fail (failures)

VARIABLES
    where,      \* of an item: "home", "aside", "gone", or the entry it is in
    amount,     \* what a folder still holds
    entry,      \* of an entry: "free", "made", "removed"
    meta,       \* of an entry: NoMeta, Unknown, or the item whose size its
                \* sidecar states
    disk,       \* what of the sidecar a power cut cannot take back
    litter,     \* entries in which a killed rewrite left its temporary
    job,        \* of a job: what it does (op), the entry it is at, the item it
                \* holds, the size it measured, and how far its emptying is
    swaps, crashes, failures,
    excused,    \* history: entries whose size a warning said may be wrong, or
                \* whose delete was killed between its rename and its check
    reduced,    \* history: entries out of whose item an emptying took something
    crossed     \* history: entries an emptying reached in the middle of a delete,
                \* and items put back in the middle of an emptying

binVars == <<where, amount, entry, meta, disk, litter, job, swaps, crashes,
             failures, excused, crossed, reduced>>

NoItem == "no item"
NoMeta == "no sidecar"
Unknown == "not known"
NoEntry == "no entry"
Idle == [op |-> "idle", e |-> NoEntry, held |-> NoItem, size |-> Unknown,
         tries |-> 0, removed |-> FALSE, names |-> {}]

\* Names of items and entries are none of the words the model uses beside them.
ASSUME BinAssumption ==
    /\ Folder \subseteq Item
    /\ Item \cap {NoItem, NoMeta, Unknown} = {}
    /\ Entry \cap {"home", "aside", "gone"} = {}

Stands(p) == {i \in Item : where[i] = p}
At(p) == IF Stands(p) = {} THEN NoItem ELSE CHOOSE i \in Stands(p) : TRUE

BinInit ==
    /\ \E i \in Item : where = [j \in Item |-> IF j = i THEN "home" ELSE "aside"]
    /\ amount = [i \in Item |-> IF i \in Folder THEN Whole ELSE 0]
    /\ entry = [e \in Entry |-> "free"]
    /\ meta = [e \in Entry |-> NoMeta] /\ disk = meta
    /\ litter = {} /\ job = [w \in Worker |-> Idle]
    /\ \E m \in Mishaps :
          swaps = m.swaps /\ crashes = m.crashes /\ failures = m.failures
    /\ excused = {} /\ crossed = {} /\ reduced = {}

Fails == failures > 0 /\ failures' = failures - 1
Works == UNCHANGED failures
Does(w, op) == job[w].op = op
Turn(w, j) == job' = [job EXCEPT ![w] = j]
Next1(w, op) == Turn(w, [job[w] EXCEPT !.op = op])
world == <<swaps, crashes>>

-----------------------------------------------------------------------------
(* trashOne *)

\* The selected item is held, then measured by name: a scan that is incomplete
\* or capped, or finds nothing, measures nothing.
Select(w) ==
    /\ Does(w, "idle") /\ At("home") # NoItem
    /\ Turn(w, [Idle EXCEPT !.op = "scan", !.held = At("home")])
    /\ UNCHANGED <<where, amount, entry, meta, disk, litter, world, failures, excused, crossed, reduced>>

Scan(w) ==
    /\ Does(w, "scan")
    /\ LET there == At("home") IN
       \E size \in {Unknown} \cup ({there} \ {NoItem}) :
          Turn(w, [job[w] EXCEPT !.op = "entry", !.size = size])
    /\ UNCHANGED <<where, amount, entry, meta, disk, litter, world, failures, excused, crossed, reduced>>

\* newEntryDir: a directory nobody used before.
MakeEntry(w) ==
    /\ Does(w, "entry")
    /\ \/ \E e \in Entry :
            /\ entry[e] = "free"
            /\ entry' = [entry EXCEPT ![e] = "made"]
            /\ Turn(w, [job[w] EXCEPT !.op = "sidecar", !.e = e])
       \/ /\ \A e \in Entry : entry[e] # "free"
          /\ Turn(w, Idle) /\ UNCHANGED entry
    /\ UNCHANGED <<where, amount, meta, disk, litter, world, failures, excused, crossed, reduced>>

\* removeEntryDir, best effort: the sidecar, then the directory.
RemoveEntryDir(e) ==
    /\ meta' = [meta EXCEPT ![e] = NoMeta] /\ disk' = [disk EXCEPT ![e] = NoMeta]
    /\ entry' = IF e \in litter \/ At(e) # NoItem THEN entry
                ELSE [entry EXCEPT ![e] = "removed"]

\* A call that an entry removed meanwhile refuses, or that just fails.
Refused(e) == (entry[e] = "removed" /\ Works) \/ Fails

\* The sidecar is written and flushed before the item is moved.
WriteSidecar(w) ==
    /\ Does(w, "sidecar")
    /\ LET e == job[w].e IN
       \/ /\ Refused(e) /\ RemoveEntryDir(e) /\ Turn(w, Idle)
       \/ /\ entry[e] = "made"
          /\ meta' = [meta EXCEPT ![e] = job[w].size]
          /\ disk' = [disk EXCEPT ![e] = job[w].size]
          /\ Works /\ Next1(w, "move") /\ UNCHANGED entry
    /\ UNCHANGED <<where, amount, litter, world, excused, crossed, reduced>>

\* The rename takes what the name holds by now, and replaces nothing.
MoveIn(w) ==
    /\ Does(w, "move")
    /\ LET e == job[w].e IN
       \/ /\ (At("home") = NoItem /\ Works) \/ Refused(e)
          /\ RemoveEntryDir(e) /\ Turn(w, Idle) /\ UNCHANGED where
       \/ /\ At("home") # NoItem /\ entry[e] = "made" /\ Works
          /\ where' = [where EXCEPT ![At("home")] = e]
          /\ Next1(w, "verify")
          /\ UNCHANGED <<entry, meta, disk>>
    /\ UNCHANGED <<amount, litter, world, excused, crossed, reduced>>

\* trashSize.describes: held, measured and moved must be one object.
Describes(w) ==
    LET e == job[w].e IN job[w].size = job[w].held /\ At(e) = job[w].held

\* rewriteTrashMeta: written beside, renamed over, and the rename flushed.
BecomesUnknown(e) ==
    meta' = [meta EXCEPT ![e] = Unknown] /\ disk' = [disk EXCEPT ![e] = Unknown]

VerifyPayload(w) ==
    /\ Does(w, "verify")
    /\ LET e == job[w].e IN
       \/ /\ job[w].size = Unknown \/ Describes(w)
          /\ Works /\ UNCHANGED <<meta, disk, excused>>
       \/ /\ job[w].size # Unknown /\ ~Describes(w)
          /\ \/ entry[e] = "made" /\ Works /\ BecomesUnknown(e) /\ UNCHANGED excused
             \/ Refused(e) /\ excused' = excused \cup {e} /\ UNCHANGED <<meta, disk>>
    /\ Turn(w, Idle)
    /\ UNCHANGED <<where, amount, entry, litter, world, crossed, reduced>>

-----------------------------------------------------------------------------
(* restoreOne *)

\* Listed: a directory of this user's with a readable sidecar and an item in it.
Listed(e) == entry[e] = "made" /\ meta[e] # NoMeta /\ At(e) # NoItem

ReadEntry(w) ==
    /\ Does(w, "idle")
    /\ \E e \in Entry : Listed(e) /\ Turn(w, [Idle EXCEPT !.op = "put back", !.e = e])
    /\ UNCHANGED <<where, amount, entry, meta, disk, litter, world, failures, excused, crossed, reduced>>

\* renameOut never replaces what stands at Home again.
PutBack(w) ==
    /\ Does(w, "put back")
    /\ LET i == At(job[w].e) IN
       \/ /\ ((i = NoItem \/ At("home") # NoItem) /\ Works) \/ Fails
          /\ Turn(w, Idle) /\ UNCHANGED <<where, crossed>>
       \/ /\ i # NoItem /\ At("home") = NoItem /\ Works
          /\ where' = [where EXCEPT ![i] = "home"]
          /\ crossed' = IF \E v \in Worker : Does(v, "take apart") /\ job[v].held = i
                        THEN crossed \cup {i} ELSE crossed
          /\ Next1(w, "drop sidecar")
    /\ UNCHANGED <<amount, entry, meta, disk, litter, world, excused, reduced>>

DropSidecar(w) ==
    /\ Does(w, "drop sidecar")
    /\ \/ Fails /\ Turn(w, Idle) /\ UNCHANGED <<entry, meta, disk>>
       \/ Works /\ RemoveEntryDir(job[w].e) /\ Turn(w, Idle)
    /\ UNCHANGED <<where, amount, litter, world, excused, crossed, reduced>>

-----------------------------------------------------------------------------
(* TrashEmpty *)

\* emptyUserTrash and emptyPass: every pass reads the names afresh.
BeginPass(tries) ==
    [Idle EXCEPT !.op = "pass", !.tries = tries, !.names = {e \in Entry : entry[e] = "made"}]
StartEmpty(w) ==
    /\ Does(w, "idle")
    /\ Turn(w, BeginPass(1))
    /\ UNCHANGED <<where, amount, entry, meta, disk, litter, world, failures, excused, crossed, reduced>>

EndPass(w) ==
    /\ Does(w, "pass") /\ job[w].names = {}
    /\ Turn(w, IF job[w].removed /\ job[w].tries < MaxDirAttempts
               THEN BeginPass(job[w].tries + 1) ELSE Idle)
    /\ UNCHANGED <<where, amount, entry, meta, disk, litter, world, failures, excused, crossed, reduced>>

Deleting(v, e) == job[v].op \in {"sidecar", "move", "verify"} /\ job[v].e = e
NextEntry(w) ==
    /\ Does(w, "pass")
    /\ \E e \in job[w].names :
         LET rest == [job[w] EXCEPT !.names = @ \ {e}] IN
         /\ Turn(w, IF entry[e] # "made" THEN rest
                    ELSE [rest EXCEPT !.op = "give up size", !.e = e])
         /\ crossed' = IF \E v \in Worker : Deleting(v, e) THEN crossed \cup {e} ELSE crossed
    /\ UNCHANGED <<where, amount, entry, meta, disk, litter, world, failures, excused, reduced>>

Pass(j, gone) ==
    [j EXCEPT !.op = "pass", !.e = NoEntry, !.held = NoItem, !.removed = @ \/ gone]
Skip(w) == Turn(w, Pass(job[w], FALSE))

\* invalidateTrashSize: a folder's recorded size is given up before its first
\* entry goes. Where that fails the emptying goes on and says so.
HasSize(e) == At(e) \in Folder /\ meta[e] \notin {NoMeta, Unknown}

\* Mutant: the new sidecar is renamed into place and the rename not flushed.
GiveUpSizeUnflushed(w) ==
    /\ Does(w, "give up size")
    /\ LET e == job[w].e IN
       \/ ~HasSize(e) /\ Works /\ UNCHANGED <<meta, litter, excused>>
       \/ HasSize(e) /\ Works /\ meta' = [meta EXCEPT ![e] = Unknown] /\ UNCHANGED <<litter, excused>>
       \/ HasSize(e) /\ Fails /\ excused' = excused \cup {e} /\ UNCHANGED <<meta, litter>>
    /\ Next1(w, "open payload")
    /\ UNCHANGED <<where, amount, entry, disk, world, crossed, reduced>>

GiveUpSize(w) ==
    /\ Does(w, "give up size")
    /\ LET e == job[w].e IN
       \/ ~HasSize(e) /\ Works /\ UNCHANGED <<meta, disk, excused>>
       \/ HasSize(e) /\ Works /\ BecomesUnknown(e) /\ UNCHANGED excused
       \/ HasSize(e) /\ Fails /\ excused' = excused \cup {e} /\ UNCHANGED <<meta, disk>>
    /\ Next1(w, "open payload")
    /\ UNCHANGED <<where, amount, entry, litter, world, crossed, reduced>>

\* Mutant: the sidecar goes although its payload could not be removed.
OpenPayloadOrElse(w) ==
    /\ Does(w, "open payload")
    /\ \/ At(job[w].e) # NoItem /\ Fails
       \/ At(job[w].e) = NoItem /\ Works
    /\ Next1(w, "litter")
    /\ UNCHANGED <<where, amount, entry, meta, disk, litter, world, excused, crossed, reduced>>

\* emptyItem: a file is unlinked, a folder is opened and taken apart through the
\* descriptor, wherever it stands meanwhile.
OpenPayload(w) ==
    /\ Does(w, "open payload")
    /\ LET e == job[w].e  i == At(e) IN
       \/ i = NoItem /\ Next1(w, "litter") /\ Works /\ UNCHANGED where
       \/ i # NoItem /\ Fails /\ Skip(w) /\ UNCHANGED where
       \/ /\ i \in Folder /\ Works
          /\ Turn(w, [job[w] EXCEPT !.op = "take apart", !.held = i])
          /\ UNCHANGED where
       \/ /\ i \in Item \ Folder /\ Works
          /\ where' = [where EXCEPT ![i] = "gone"]
          /\ Next1(w, "litter")
    /\ UNCHANGED <<amount, entry, meta, disk, litter, world, excused, crossed, reduced>>

\* One entry below goes; the first failure or the end of the job's context
\* leaves the rest, and the sidecar, as they are.
TakeApart(w) ==
    /\ Does(w, "take apart")
    /\ LET i == job[w].held IN
       \/ Fails /\ Skip(w) /\ UNCHANGED <<where, amount, reduced>>
       \/ /\ amount[i] > 0 /\ Works
          /\ amount' = [amount EXCEPT ![i] = @ - 1]
          /\ reduced' = reduced \cup ({where[i]} \cap Entry)
          /\ UNCHANGED <<where, job>>
       \/ /\ amount[i] = 0 /\ Works
          /\ where' = IF where[i] = job[w].e THEN [where EXCEPT ![i] = "gone"] ELSE where
          /\ Next1(w, "litter")
          /\ UNCHANGED <<amount, reduced>>
    /\ UNCHANGED <<entry, meta, disk, litter, world, excused, crossed>>

\* removeSidecarLitter, the sidecar, the entry: only once the payload is gone.
ClearLitter(w) ==
    /\ Does(w, "litter")
    /\ litter' = litter \ {job[w].e}
    /\ Next1(w, "sidecar goes")
    /\ UNCHANGED <<where, amount, entry, meta, disk, world, failures, excused, crossed, reduced>>

DropEmptied(w) ==
    /\ Does(w, "sidecar goes")
    /\ LET e == job[w].e IN
       \/ Fails /\ Skip(w) /\ UNCHANGED <<meta, disk>>
       \/ /\ Works /\ Next1(w, "entry goes")
          /\ meta' = [meta EXCEPT ![e] = NoMeta] /\ disk' = [disk EXCEPT ![e] = NoMeta]
    /\ UNCHANGED <<where, amount, entry, litter, world, excused, crossed, reduced>>

\* The directory goes unless something stands in it.
Vacant(e) == At(e) = NoItem /\ meta[e] = NoMeta /\ e \notin litter
RemoveEntry(w) ==
    /\ Does(w, "entry goes")
    /\ IF Vacant(job[w].e)
       THEN /\ entry' = [entry EXCEPT ![job[w].e] = "removed"]
            /\ Turn(w, Pass(job[w], TRUE))
       ELSE Skip(w) /\ UNCHANGED entry
    /\ UNCHANGED <<where, amount, meta, disk, litter, world, failures, excused, crossed, reduced>>

-----------------------------------------------------------------------------
(* Everybody else. *)

\* Another program moves what stands at Home aside, and may put another there.
Swap ==
    /\ swaps > 0 /\ swaps' = swaps - 1
    /\ \E new \in {NoItem} \cup Stands("aside") :
          where' = [i \in Item |-> IF i = new THEN "home"
                                   ELSE IF where[i] = "home" THEN "aside" ELSE where[i]]
    /\ UNCHANGED <<amount, entry, meta, disk, litter, job, crashes, failures, excused, crossed, reduced>>

\* A worker is killed: a rewrite under way leaves its temporary behind.
Rewriting(j) == j.op \in {"verify", "give up size"}
Kill(w) ==
    /\ crashes > 0 /\ crashes' = crashes - 1
    /\ ~Does(w, "idle")
    /\ Turn(w, Idle)
    /\ litter' = IF Rewriting(job[w]) /\ meta[job[w].e] # NoMeta
                 THEN litter \cup {job[w].e} ELSE litter
    /\ excused' = IF Does(w, "verify") THEN excused \cup {job[w].e} ELSE excused
    /\ UNCHANGED <<where, amount, entry, meta, disk, swaps, failures, crossed, reduced>>

\* The power goes: every job ends, and unflushed sidecars are the old ones.
PowerCut ==
    /\ crashes > 0 /\ crashes' = crashes - 1
    /\ job' = [w \in Worker |-> Idle]
    /\ meta' = disk
    /\ excused' = excused \cup {job[w].e : w \in {v \in Worker : Does(v, "verify")}}
    /\ UNCHANGED <<where, amount, entry, disk, litter, swaps, failures, crossed, reduced>>

Step(w) ==
    \/ Select(w) \/ Scan(w) \/ MakeEntry(w) \/ WriteSidecar(w) \/ MoveIn(w)
    \/ VerifyPayload(w)
    \/ ReadEntry(w) \/ PutBack(w) \/ DropSidecar(w)
    \/ StartEmpty(w) \/ EndPass(w) \/ NextEntry(w) \/ GiveUpSize(w)
    \/ OpenPayload(w) \/ TakeApart(w) \/ ClearLitter(w) \/ DropEmptied(w) \/ RemoveEntry(w)

BinNext == (\E w \in Worker : Step(w) \/ Kill(w)) \/ Swap \/ PowerCut
=============================================================================
