------------------------------- MODULE Trash -------------------------------
(***************************************************************************)
(* The trash of one volume, from the request that first needs it: the front *)
(* end's publication of the root (TrashRoot), and the jobs of one user's    *)
(* workers in it (TrashBin), which open the root and judge it again before  *)
(* they touch anything. No later step of a job reads the root, so a run     *)
(* looks at the requests and at the jobs in two scenes.                     *)
(***************************************************************************)
EXTENDS TrashRoot, TrashBin

vars == <<rootVars, binVars>>

\* trashLoc.open and checkTrashRoot: a sticky directory of root's.
Open == place[DirName] # NoDir /\ Usable(place[DirName])

\* A volume without a trash, and one where an earlier request published it.
Published == CHOOSE d \in Temp : TRUE
Init ==
    /\ BinInit
    /\ \/ RootInit
       \/ /\ recent = {}
          /\ place = [s \in Spot |-> IF s = DirName THEN Published ELSE NoDir]
          /\ mode = [d \in Dirs |-> IF d = Published THEN "sticky" ELSE "0700"]
          /\ step = [p \in Publisher |-> "have"]
          /\ round = [p \in Publisher |-> 0] /\ raced = [p \in Publisher |-> FALSE]
          /\ held = [p \in Publisher |-> NoDir] /\ made = [p \in Publisher |-> NoDir]
          /\ after = [p \in Publisher |-> "refused"]
          /\ moves = 0 /\ opened = {} /\ swapped = {} /\ removed = {}

Requests == RootNext /\ UNCHANGED binVars
Jobs == /\ \A p \in Publisher : step[p] = "have" /\ round[p] = 0
        /\ place[DirName] \in Temp
        /\ Open /\ BinNext /\ UNCHANGED rootVars
Next == Requests \/ Jobs
Spec == Init /\ [][Next]_vars

-----------------------------------------------------------------------------
\* Whatever jobs run side by side and are killed: an item in the trash has the
\* sidecar that names it, so it is listed and can be put back, except in an entry
\* that an emptying reached in the middle of the delete that made it. Covers the
\* order of trashOne, restoreOne and emptyEntry.
RestorableUntilEmptied ==
    \A e \in Entry \ crossed : At(e) # NoItem => meta[e] # NoMeta

\* The order of emptyEntry is documented to rule out an entry that is still on
\* disk, still holding the user's data, and no longer listable or restorable.
NoNamelessPayload == \A e \in Entry : At(e) # NoItem => meta[e] # NoMeta

\* A size a sidecar states was measured of the item beside it, and nothing was
\* taken out of that item since, whatever was swapped before the rename, and
\* however far an emptying got before it failed, was killed or the power went.
\* Covers trashSize.describes, verifyTrashPayload and invalidateTrashSize.
Measured(e) == meta[e] \notin {NoMeta, Unknown} /\ At(e) # NoItem
SizeSpeaksOfItsItem ==
    \A e \in Entry \ (crossed \cup excused) :
       Measured(e) /\ At(e) \notin crossed /\ (\A w \in Worker : ~Deleting(w, e))
          => meta[e] = At(e) /\ e \notin reduced
=============================================================================
