----------------------------- MODULE AuditLog -----------------------------
(***************************************************************************)
(* The audit log (internal/audit). A line is either queued for the drain,  *)
(* which the caller never waits for, or written and flushed by a worker of *)
(* its own while the caller waits, for a time. The file, log_tool behind   *)
(* the mirror and the disk under the file may hang or fail at any moment;  *)
(* nobody who writes a line, and not Close, may hang with them.            *)
(***************************************************************************)
EXTENDS Naturals, Sequences, FiniteSets

CONSTANTS
    Caller,         \* who may be inside WriteSync, one call at a time each
    Line,           \* the lines that may be handed in, each one once
    Depth,          \* bufferDepth
    SyncWriters,    \* syncWriters: the durable writers in flight
    MirrorDepth     \* mirrorDepth

ASSUME LogAssumption == {Depth, SyncWriters, MirrorDepth} \subseteq Nat \ {0}

VARIABLES
    call,       \* of a caller: its WriteSync, and the answer it got
    work,       \* of a line: its worker "none", "write", "mirror" or "over"
    out,        \* of a line: what its worker reported
    ch,         \* the queue of the drain
    drain,      \* the drain: "take", "mirror" or "done"
    file, safe, \* the lines a reader sees, and those a power cut leaves
    dropped, reported, \* lines refused by a full queue, and those told so far
    told,       \* those of them that a notice in the file speaks of
    mirrorq,    \* how many lines wait for log_tool
    log,        \* "open", "joining", "flushing", "closed" or "abandoned"
    faults      \* bound: appends and flushes that fail

logVars == <<call, work, out, ch, drain, file, safe, dropped, reported, told,
             mirrorq, log, faults>>

NoLine == <<"noline">>
Quiet == [st |-> "idle", line |-> NoLine, ok |-> FALSE, inFlight |-> FALSE]

LogInit ==
    /\ call = [c \in Caller |-> Quiet]
    /\ work = [l \in Line |-> "none"] /\ out = [l \in Line |-> "none"]
    /\ ch = <<>> /\ drain = "take" /\ file = {} /\ safe = {}
    /\ dropped = 0 /\ reported = 0 /\ told = 0
    /\ mirrorq = 0 /\ log = "open"

shut == log # "open"
Held == {l \in Line : work[l] \in {"write", "mirror"}}
Breaks == faults > 0 /\ faults' = faults - 1

-----------------------------------------------------------------------------
(* What callers do.                                                        *)

\* WriteQueued: taken, or refused on the spot.
Write(l) ==
    /\ ch' = IF ~shut /\ Len(ch) < Depth THEN Append(ch, l) ELSE ch
    /\ dropped' = IF ~shut /\ Len(ch) = Depth THEN dropped + 1 ELSE dropped
    /\ UNCHANGED <<call, work, out, drain, file, safe, reported, told, mirrorq,
                   log, faults>>

Back(c, ok, inFlight) ==
    call' = [call EXCEPT ![c] = [@ EXCEPT !.st = "back", !.ok = ok, !.inFlight = inFlight]]

\* WriteSync registers with syncWG, unless the logger is closed.
WriteSync(c, l) ==
    /\ call[c].st = "idle"
    /\ call' = [call EXCEPT ![c] = [st |-> IF shut THEN "back" ELSE "admit",
                                    line |-> l, ok |-> FALSE, inFlight |-> FALSE]]
    /\ UNCHANGED <<work, out, ch, drain, file, safe, dropped, reported, told,
                   mirrorq, log, faults>>

\* The caller has its answer.
Returns(c) ==
    /\ call[c].st = "back"
    /\ call' = [call EXCEPT ![c] = Quiet]
    /\ UNCHANGED <<work, out, ch, drain, file, safe, dropped, reported, told,
                   mirrorq, log, faults>>

Admit(c) ==
    /\ call[c].st = "admit" /\ Cardinality(Held) < SyncWriters
    /\ call' = [call EXCEPT ![c].st = "wait"]
    /\ work' = [work EXCEPT ![call[c].line] = "write"]
    /\ UNCHANGED <<out, ch, drain, file, safe, dropped, reported, told, mirrorq,
                   log, faults>>

\* The context, the timer or the end of the drain comes first.
NotAdmitted(c) ==
    /\ call[c].st = "admit" /\ Back(c, FALSE, FALSE)
    /\ UNCHANGED <<work, out, ch, drain, file, safe, dropped, reported, told,
                   mirrorq, log, faults>>

\* Mutant: an answer that does not come in time counts as a line not written.
StopsWaiting_SaysAbsent(c) ==
    /\ call[c].st = "wait" /\ Back(c, FALSE, FALSE)
    /\ UNCHANGED <<work, out, ch, drain, file, safe, dropped, reported, told,
                   mirrorq, log, faults>>

\* The worker keeps the line and its slot.
StopsWaiting(c) ==
    /\ call[c].st = "wait" /\ Back(c, FALSE, TRUE)
    /\ UNCHANGED <<work, out, ch, drain, file, safe, dropped, reported, told,
                   mirrorq, log, faults>>

Collects(c) ==
    /\ call[c].st = "wait" /\ out[call[c].line] # "none"
    /\ Back(c, out[call[c].line] = "flushed", out[call[c].line] = "doubtful")
    /\ UNCHANGED <<work, out, ch, drain, file, safe, dropped, reported, told,
                   mirrorq, log, faults>>

-----------------------------------------------------------------------------
(* The workers, the drain and the mirror.                                  *)

\* emitSync under drainMu, and the result on its channel.
WorkerWrites(l) ==
    /\ work[l] = "write"
    /\ \/ /\ file' = file \cup {l} /\ safe' = safe \cup {l}
          /\ out' = [out EXCEPT ![l] = "flushed"]
          /\ work' = [work EXCEPT ![l] = "mirror"] /\ UNCHANGED faults
       \/ /\ Breaks /\ out' = [out EXCEPT ![l] = "absent"]
          /\ work' = [work EXCEPT ![l] = "over"] /\ UNCHANGED <<file, safe>>
       \/ /\ Breaks /\ file' = file \cup {l} /\ out' = [out EXCEPT ![l] = "doubtful"]
          /\ work' = [work EXCEPT ![l] = "over"] /\ UNCHANGED safe
    /\ UNCHANGED <<call, ch, drain, dropped, reported, told, mirrorq, log>>

\* mirror: an offer that is never waited for; what is no milestone is not
\* offered.
Offer == mirrorq' \in {mirrorq, IF mirrorq < MirrorDepth THEN mirrorq + 1 ELSE mirrorq}

WorkerMirrors(l) ==
    /\ work[l] = "mirror" /\ Offer
    /\ work' = [work EXCEPT ![l] = "over"]
    /\ UNCHANGED <<call, out, ch, drain, file, safe, dropped, reported, told, log, faults>>

\* reportDropped: one line for all drops since the last, which counts as
\* reported even where its append fails. An interval may hold it back.
ReportDropped(force) ==
    \/ ~force /\ UNCHANGED <<reported, told>>
    \/ force /\ dropped = reported /\ UNCHANGED <<reported, told>>
    \/ /\ dropped > reported /\ reported' = dropped
       /\ told' \in {told + (dropped - reported)} \cup (IF faults > 0 THEN {told} ELSE {})

DrainTakes ==
    /\ drain = "take" /\ ch # <<>>
    /\ ch' = Tail(ch) /\ drain' = "mirror"
    /\ \/ file' = file \cup {Head(ch)} /\ UNCHANGED faults
       \/ Breaks /\ UNCHANGED file
    /\ ReportDropped(FALSE)
    /\ UNCHANGED <<call, work, out, safe, dropped, mirrorq, log>>

DrainMirrors ==
    /\ drain = "mirror" /\ drain' = "take" /\ Offer
    /\ UNCHANGED <<call, work, out, ch, file, safe, dropped, reported, told, log, faults>>

DrainEnds ==
    /\ drain = "take" /\ shut /\ ch = <<>> /\ drain' = "done" /\ ReportDropped(TRUE)
    /\ UNCHANGED <<call, work, out, ch, file, safe, dropped, mirrorq, log, faults>>

\* mirrorLoop: log_tool answered, or refused.
MirrorTakes ==
    /\ mirrorq > 0 /\ mirrorq' = mirrorq - 1
    /\ UNCHANGED <<call, work, out, ch, drain, file, safe, dropped, reported, told, log, faults>>

-----------------------------------------------------------------------------
(* Close.                                                                  *)

Becomes(state) ==
    /\ log' = state
    /\ UNCHANGED <<call, work, out, ch, drain, file, safe, dropped, reported, told,
                   mirrorq, faults>>

\* syncWG: calls not admitted yet, and workers.
Writers == {c \in Caller : call[c].st = "admit"} \cup Held

CloseStarts == log = "open" /\ Becomes("joining")
\* Mutant: Close waits for the drain alone.
Joined_DrainOnly == log = "joining" /\ drain = "done" /\ Becomes("flushing")
Joined == log = "joining" /\ drain = "done" /\ Writers = {} /\ Becomes("flushing")
Mirrored == log = "flushing" /\ mirrorq = 0 /\ Becomes("closed")
\* The bound: a file that somebody may be in is left open.
CloseGivesUp == \/ log = "joining" /\ Becomes("abandoned")
                \/ log = "flushing" /\ Becomes("closed")
Close == Joined \/ Mirrored \/ CloseGivesUp

Waits(c) == Admit(c) \/ NotAdmitted(c) \/ StopsWaiting(c) \/ Collects(c)

\* What needs the disk and log_tool, and the answers it leads to.
LogWorks ==
    \/ \E c \in Caller : Admit(c) \/ Collects(c)
    \/ \E l \in Line : WorkerWrites(l) \/ WorkerMirrors(l)
    \/ DrainTakes \/ DrainMirrors \/ DrainEnds \/ MirrorTakes \/ Joined \/ Mirrored
\* And what needs the clock alone.
LogTimesOut == (\E c \in Caller : NotAdmitted(c) \/ StopsWaiting(c)) \/ CloseGivesUp

-----------------------------------------------------------------------------
(* An answer of WriteSync can be acted on: nil means that the line is in   *)
(* the file and was flushed, and an error that is not in flight that it is *)
(* not there and never will be (WriteSyncInFlight). And Close never closes *)
(* a channel or the file under somebody who still sends or writes: once it *)
(* closes the mirror's queue nobody is left who offers, and what the drain *)
(* dropped was reported by then, or at least tried to be.                  *)
AnswersAreHonest ==
    \A c \in Caller : call[c].st = "back" =>
        LET l == call[c].line IN
        /\ call[c].ok => l \in safe
        /\ ~call[c].ok /\ ~call[c].inFlight => l \notin file /\ l \notin Held
ClosedIsQuiet ==
    log \in {"flushing", "closed"} =>
        /\ Writers = {} /\ ch = <<>> /\ drain = "done"
        /\ reported = dropped
LogKeepsItsWord == AnswersAreHonest /\ ClosedIsQuiet
=============================================================================
