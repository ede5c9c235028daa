----------------------------- MODULE TrashRoot -----------------------------
(***************************************************************************)
(* The front end makes the one directory it may write on a user's storage: *)
(* <mount>/.@taproot_trash, root's own and sticky. Requests make it at the *)
(* same time, and whoever may write at the mount root may rename what is   *)
(* there, take it away or stand something else at any name.                *)
(* A directory is made private under a name of its own, proved, opened to  *)
(* everybody through its descriptor, and renamed into place. Whatever      *)
(* fails takes that directory away again, if it is still the one proved.   *)
(***************************************************************************)
EXTENDS Naturals, Sequences, FiniteSets

CONSTANTS
    Publisher,              \* the requests that need the trash
    Foreign,                \* directories no publisher made
    NoDir,
    MaxPublishAttempts,
    OtherMoves              \* bound: how often the others move something

ASSUME RootAssumption ==
    MaxPublishAttempts \in Nat \ {0} /\ OtherMoves \in Nat /\ Publisher # {}

VARIABLES
    recent,     \* which of Foreign root made within tempMaxAge, private and empty
    place,      \* what stands under the published name and each temporary one
    mode,       \* of every directory, see Modes
    step,       \* where each publisher is
    round,      \* how many publications it began
    raced,      \* it lost one race already
    held,       \* the directory its descriptor is of
    made,       \* the directory its check accepted, or refused as stale only
    after,      \* what follows its cleanup
    moves,
    opened,     \* history: what a publisher aimed its fchmod at
    swapped,    \* history: whose name others changed after it was looked at again
    removed     \* history: what a publisher removed, and whether it was so swapped

rootVars == <<recent, place, mode, step, round, raced, held, made, after, moves,
              opened, swapped, removed>>

DirName == <<"published", 0>>
\* Every publication has a name of its own, and makes a directory of its own.
Temp == Publisher \X (1 .. MaxPublishAttempts)
Spot == {DirName} \cup Temp
Own(p) == <<p, round[p]>>
Dirs == Temp \cup Foreign

\* Root's, 0700 and empty; root's and sticky; root's and open to all but not
\* sticky; any other.
Modes == {"0700", "sticky", "open", "other"}
Done == {"have", "created", "refused"}

RootInit ==
    /\ recent \in SUBSET Foreign
    /\ place = [s \in Spot |-> NoDir]
    /\ mode \in {m \in [Dirs -> {"0700", "sticky", "other"}] :
                    \A d \in Temp \cup recent : m[d] = "0700"}
    /\ step = [p \in Publisher |-> "look"]
    /\ round = [p \in Publisher |-> 0]
    /\ raced = [p \in Publisher |-> FALSE]
    /\ held = [p \in Publisher |-> NoDir]
    /\ made = [p \in Publisher |-> NoDir]
    /\ after = [p \in Publisher |-> "refused"]
    /\ moves = OtherMoves /\ opened = {} /\ swapped = {} /\ removed = {}

Usable(d) == mode[d] = "sticky"
Goto(p, s) == step' = [step EXCEPT ![p] = s]
\* A publication that fails cleans up behind itself first.
Fail(p, next) == Goto(p, "check") /\ after' = [after EXCEPT ![p] = next]

\* Ensure: the published name is opened and judged, never repaired. The file
\* system may refuse.
Look(p) ==
    /\ step[p] = "look"
    /\ LET d == place[DirName] IN
       \/ d # NoDir /\ Usable(d) /\ Goto(p, "have")
       \/ d = NoDir /\ round[p] < MaxPublishAttempts /\ Goto(p, "make")
       \/ Goto(p, "refused")
    /\ UNCHANGED <<place, mode, round, raced, held, made, after, moves, opened,
                   swapped, removed>>

\* (a): mode 0700, under a name nobody should know. Nothing is left to clean up
\* when the name is taken after all, or the directory is not to be had.
Make(p) ==
    /\ step[p] = "make"
    /\ round' = [round EXCEPT ![p] = @ + 1]
    /\ made' = [made EXCEPT ![p] = NoDir]
    /\ \/ /\ place[<<p, round[p] + 1>>] = NoDir
          /\ place' = [place EXCEPT ![<<p, round[p] + 1>>] = <<p, round[p] + 1>>]
          /\ Goto(p, "open")
       \/ Goto(p, "refused") /\ UNCHANGED place
    /\ UNCHANGED <<mode, raced, held, after, moves, opened, swapped, removed>>

\* (b): whatever the name shows by now.
OpenMade(p) ==
    /\ step[p] = "open"
    /\ \/ /\ place[Own(p)] # NoDir
          /\ held' = [held EXCEPT ![p] = place[Own(p)]]
          /\ Goto(p, "prove") /\ UNCHANGED after
       \/ Fail(p, "refused") /\ UNCHANGED held
    /\ UNCHANGED <<place, mode, round, raced, made, moves, opened, swapped, removed>>

\* Mutant: the age is not asked, so that any private directory of root's will do.
FreshAny(d) == TRUE

\* No rename makes a directory younger.
Fresh(d) == d \in Temp \cup recent

\* prepare ends without a directory it may publish; one it refused for its age
\* alone may be taken away.
Drop(p, d, next) ==
    /\ made' = [made EXCEPT ![p] = d] /\ held' = [held EXCEPT ![p] = NoDir]
    /\ Fail(p, next)

\* (c) and provenance: a directory of root's, 0700 and empty, and of this moment.
\* A file system that stalls makes a fresh one look stale: then another one is
\* made, up to the common bound, once this one is out of the way.
Prove(p) ==
    /\ step[p] = "prove"
    /\ LET d == held[p]
           private == mode[d] = "0700"
       IN \/ Drop(p, NoDir, "refused")
          \/ private /\ Drop(p, d, IF round[p] < MaxPublishAttempts THEN "look" ELSE "refused")
          \/ /\ private /\ Fresh(d)
             /\ made' = [made EXCEPT ![p] = d]
             /\ Goto(p, "chmod") /\ UNCHANGED <<held, after>>
    /\ UNCHANGED <<place, mode, round, raced, moves, opened, swapped, removed>>

\* Mutant: the mode goes to whatever the name shows, as before B3.
AimedByName(p) == IF place[Own(p)] = NoDir THEN held[p] ELSE place[Own(p)]

\* (d) goes through the descriptor.
Aimed(p) == held[p]

\* (d): 1777, if the file system takes it and does not drop the sticky bit.
\* Nothing counts as made before that is seen.
Chmod(p) ==
    /\ step[p] = "chmod"
    /\ opened' = opened \cup {Aimed(p)}
    /\ \/ /\ mode' = [mode EXCEPT ![Aimed(p)] = "sticky"]
          /\ held' = [held EXCEPT ![p] = NoDir]
          /\ Goto(p, "publish") /\ UNCHANGED <<made, after>>
       \/ /\ mode' = [mode EXCEPT ![Aimed(p)] = "open"] \/ UNCHANGED mode
          /\ Drop(p, NoDir, "refused")
    /\ UNCHANGED <<place, round, raced, moves, swapped, removed>>

\* (e): whatever the temporary name holds by now is renamed, without replacing.
\* One lost race is tried again.
Publish(p) ==
    /\ step[p] = "publish"
    /\ \/ /\ place[DirName] = NoDir /\ place[Own(p)] # NoDir
          /\ place' = [place EXCEPT ![DirName] = place[Own(p)], ![Own(p)] = NoDir]
          /\ Goto(p, "verify") /\ UNCHANGED <<after, raced>>
       \/ /\ place[DirName] # NoDir /\ place[Own(p)] # NoDir
          /\ Fail(p, IF raced[p] THEN "refused" ELSE "look")
          /\ raced' = [raced EXCEPT ![p] = TRUE]
          /\ UNCHANGED place
       \/ Fail(p, "refused") /\ UNCHANGED <<place, raced>>
    /\ UNCHANGED <<mode, round, held, made, moves, opened, swapped, removed>>

\* What is published now is judged as by Look; it is never taken back.
Verify(p) ==
    /\ step[p] = "verify"
    /\ \/ place[DirName] # NoDir /\ Usable(place[DirName]) /\ Goto(p, "created")
       \/ Goto(p, "refused")
    /\ UNCHANGED <<place, mode, round, raced, held, made, after, moves, opened,
                   swapped, removed>>

\* Mutant: the cleanup removes whatever stands under the temporary name.
StillOursByName(p) == place[Own(p)] # NoDir

\* removeIfStillOurs: the name is opened again and must be what was proved.
StillOurs(p) == made[p] # NoDir /\ place[Own(p)] = made[p]

\* (f): the look that comes before the removal.
Recheck(p) ==
    /\ step[p] = "check"
    /\ \/ StillOurs(p) /\ Goto(p, "remove")
       \/ Goto(p, after[p])
    /\ made' = [made EXCEPT ![p] = NoDir]
    /\ swapped' = swapped \ {p}
    /\ UNCHANGED <<place, mode, round, raced, held, after, moves, opened, removed>>

\* The removal is by name, of what stands there by now, if it is empty.
Remove(p) ==
    /\ step[p] = "remove" /\ Goto(p, after[p])
    /\ \/ /\ place[Own(p)] # NoDir
          /\ place' = [place EXCEPT ![Own(p)] = NoDir]
          /\ removed' = removed \cup {[dir |-> place[Own(p)], swapped |-> p \in swapped]}
       \/ UNCHANGED <<place, removed>>
    /\ UNCHANGED <<mode, round, raced, held, made, after, moves, opened, swapped>>

\* Others: rename what stands somewhere to another name, or away, or stand a
\* directory no publisher made there.
OthersMove ==
    /\ moves > 0 /\ moves' = moves - 1
    /\ \/ \E s, t \in Spot :
             /\ place[s] # NoDir /\ place[t] = NoDir
             /\ place' = [place EXCEPT ![t] = place[s], ![s] = NoDir]
       \/ \E s \in Spot : place[s] # NoDir /\ place' = [place EXCEPT ![s] = NoDir]
       \/ \E s \in Spot, f \in Foreign :
             /\ place[s] = NoDir /\ \A t \in Spot : place[t] # f
             /\ place' = [place EXCEPT ![s] = f]
    /\ swapped' = swapped \cup
          {p \in Publisher : step[p] = "remove" /\ place'[Own(p)] # place[Own(p)]}
    /\ UNCHANGED <<mode, step, round, raced, held, made, after, opened, removed>>

RootStep(p) ==
    \/ Look(p) \/ Make(p) \/ OpenMade(p) \/ Prove(p) \/ Chmod(p)
    \/ Publish(p) \/ Verify(p) \/ Recheck(p) \/ Remove(p)
RootNext == ((\E p \in Publisher : RootStep(p)) \/ OthersMove) /\ UNCHANGED recent

-----------------------------------------------------------------------------
\* Whatever is renamed, planted or raced: root opens to everybody only what a
\* publisher made, or another process of root's a moment ago; a directory that
\* was there before is never opened. And root removes nothing else, but for what
\* the source concedes: an empty directory that stands under the name in the width
\* of the unlinkat, and a private empty one of root's refused as stale. Covers
\* prepare, provenance and removeIfStillOurs.
OnlyProvedDirectories ==
    /\ opened \subseteq Temp \cup recent
    /\ \A r \in removed :
          r.swapped \/ r.dir \in Temp \cup recent \/ mode[r.dir] = "0700"
=============================================================================
