----------------------------- MODULE JobManager -----------------------------
(***************************************************************************)
(* The front end's job manager, internal/jobs/jobs.go: submission under a  *)
(* bounded queue, one concurrency semaphore per class, cancellation, the   *)
(* completion hook, retention and shutdown.                                *)
(*                                                                         *)
(* An entry is one accepted Submit, named by its sequence number.  Every   *)
(* entry has a goroutine (run) whose program counter is pc[e]; one step of *)
(* it is what the code does under one acquisition of m.mu or e.mu, or one  *)
(* channel operation.  Cancel and ReplaceResult look the entry up under    *)
(* m.mu and then act on the pointer: because the pointer stays good after  *)
(* a Reap, they may act on any entry that was ever registered.             *)
(***************************************************************************)
EXTENDS Integers, FiniteSets

CONSTANTS
    Class,         \* the concurrency pools (byteMover, metadata)
    IDs,           \* job identifiers a caller may choose (Meta.ID)
    Admitters,     \* requests that borrow a slot through Admit
    Slots,         \* semaphore capacity of each class
    QueueDepth,    \* Limits.QueueDepth
    RetainCount,   \* Limits.RetainCount
    RetainTicks,   \* Limits.RetainMinutes, in ticks of the clock
    MaxSeq,        \* bound: Submits accepted in a behaviour
    MaxNow         \* bound: ticks of the clock

ASSUME LimitsAssumption ==
    /\ Slots \in [Class -> Nat \ {0}]
    /\ QueueDepth \in Nat \ {0}
    /\ RetainCount \in Nat
    /\ RetainTicks \in Nat
    /\ MaxSeq \in Nat
    /\ MaxNow \in Nat

ASSUME AdmittersAssumption == IsFiniteSet(Admitters)

None == "none"
ASSUME NoneAssumption == None \notin Class

Entries == 1..MaxSeq

TerminalStates == {"done", "failed", "cancelled"}
JobStates == {"unsubmitted", "queued", "running"} \cup TerminalStates

\* Where a goroutine of run stands.  It is counted in queued[class] up to
\* leaveQueue, and holds a slot from the send on sem to the deferred receive.
QueuePCs == {"select", "won", "left"}
SlotPCs  == {"won", "check", "start", "refused", "fn", "finish", "release"}
PCs == QueuePCs \cup SlotPCs \cup {"idle", "withdraw", "notify", "hook", "gone"}

VARIABLES
    jobs,             \* m.jobs: id -> entry, 0 where the id is free
    queued,           \* m.queued
    seq,              \* m.seq
    closed,           \* m.closed
    wg,               \* m.wg
    sem,              \* tokens in each class's semaphore channel
    admit,            \* the class whose slot a non-job request holds
    now,              \* m.now, in ticks
    closer,           \* where Close stands
    toCancel,         \* entries Close has snapshotted and not yet cancelled
    id, class,        \* entry: Meta.ID and ClassOf(kind)
    pc,               \* entry: its goroutine
    state,            \* entry: job.State
    cancelRequested,  \* entry: the flag, and the context it cancels with it
    partial,          \* entry: job.Partial
    result,           \* entry: job.Result
    ret,              \* entry: the error the work function returned
    stamp,            \* entry: the last m.now() its goroutine read
    notified,         \* entry: the exactly-once latch
    hookRuns,         \* history: how often the hook ran
    ran,              \* history: entries whose work function was called
    wonLate,          \* history: entries that won their slot after Close began
    stoppedQueued     \* history: entries whose cancellation met them queued

mgrVars   == <<jobs, queued, seq, closed, wg, now>>
slotVars  == <<sem, admit>>
closeVars == <<closer, toCancel>>
jobVars   == <<id, class, state, cancelRequested, partial, result, ret, stamp, notified>>
histVars  == <<hookRuns, ran, wonLate, stoppedQueued>>
vars == <<mgrVars, slotVars, closeVars, jobVars, pc, histVars>>

Submitted(e) == state[e] # "unsubmitted"
Terminal(e)  == state[e] \in TerminalStates
Live(e)      == Submitted(e) /\ ~Terminal(e)

Waiting(c) == {e \in Entries : class[e] = c /\ pc[e] \in QueuePCs}
Holding(c) == {e \in Entries : class[e] = c /\ pc[e] \in SlotPCs}
Borrowing(c) == {a \in Admitters : admit[a] = c}
Running(c) == {e \in Entries : class[e] = c /\ state[e] = "running"}
Unfinished == {e \in Entries : pc[e] \notin {"idle", "gone"}}

Init ==
    /\ jobs = [i \in IDs |-> 0]
    /\ queued = [c \in Class |-> 0]
    /\ seq = 0
    /\ closed = FALSE
    /\ wg = 0
    /\ sem = [c \in Class |-> 0]
    /\ admit = [a \in Admitters |-> None]
    /\ now = 0
    /\ closer = "idle"
    /\ toCancel = {}
    /\ id = [e \in Entries |-> None]
    /\ class = [e \in Entries |-> None]
    /\ pc = [e \in Entries |-> "idle"]
    /\ state = [e \in Entries |-> "unsubmitted"]
    /\ cancelRequested = [e \in Entries |-> FALSE]
    /\ partial = [e \in Entries |-> FALSE]
    /\ result = [e \in Entries |-> None]
    /\ ret = [e \in Entries |-> None]
    /\ stamp = [e \in Entries |-> 0]
    /\ notified = [e \in Entries |-> FALSE]
    /\ hookRuns = [e \in Entries |-> 0]
    /\ ran = {}
    /\ wonLate = {}
    /\ stoppedQueued = {}

\* The goroutine of e moves from one point of run to another.
Goto(e, from, to) == pc[e] = from /\ pc' = [pc EXCEPT ![e] = to]

-----------------------------------------------------------------------------
(* The callers of the manager. *)

\* What an accepted Submit does under m.mu, and its go m.run(...).
register(i, c) ==
    /\ seq < MaxSeq
    /\ LET e == seq + 1
       IN  /\ Goto(e, "idle", "select")
           /\ jobs' = [jobs EXCEPT ![i] = e]
           /\ id' = [id EXCEPT ![e] = i]
           /\ class' = [class EXCEPT ![e] = c]
           /\ state' = [state EXCEPT ![e] = "queued"]
    /\ queued' = [queued EXCEPT ![c] = @ + 1]
    /\ seq' = seq + 1
    /\ wg' = wg + 1
    /\ UNCHANGED <<closed, now, slotVars, closeVars, cancelRequested, partial,
                   result, ret, stamp, notified, histVars>>

\* Slips: an id taken over from the job that holds it; a Submit that is not
\* refused once Close has begun.
Submit_TakesOverID(i, c) ==
    /\ ~closed
    /\ queued[c] < QueueDepth
    /\ register(i, c)

Submit_AfterClose(i, c) ==
    /\ jobs[i] = 0
    /\ queued[c] < QueueDepth
    /\ register(i, c)

\* Submit: ErrClosed, ErrDuplicateID (a finished job still holds its id) and
\* ErrQueueFull leave everything as it was, so only acceptance is a step.
Submit(i, c) ==
    /\ ~closed
    /\ jobs[i] = 0
    /\ queued[c] < QueueDepth
    /\ register(i, c)

\* requestCancel, under e.mu.  The context ends with the flag.
requestCancel(e) ==
    /\ cancelRequested' = [cancelRequested EXCEPT ![e] = @ \/ ~Terminal(e)]
    /\ stoppedQueued' = IF state[e] = "queued" THEN stoppedQueued \cup {e} ELSE stoppedQueued

Cancel(e) ==
    /\ Submitted(e)
    /\ requestCancel(e)
    /\ UNCHANGED <<mgrVars, slotVars, closeVars, id, class, state, partial, result,
                   ret, stamp, notified, pc, hookRuns, ran, wonLate>>

\* Slip: the payload of a job that still runs is replaced.
ReplaceResult_Live(e) ==
    /\ Submitted(e)
    /\ result' = [result EXCEPT ![e] = "replaced"]
    /\ UNCHANGED <<mgrVars, slotVars, closeVars, id, class, state, cancelRequested,
                   partial, ret, stamp, notified, pc, histVars>>

\* ReplaceResult: the search ledger drops the payload of a finished job.
ReplaceResult(e) ==
    /\ Terminal(e)
    /\ result' = [result EXCEPT ![e] = "replaced"]
    /\ UNCHANGED <<mgrVars, slotVars, closeVars, id, class, state, cancelRequested,
                   partial, ret, stamp, notified, pc, histVars>>

\* Admit gives one slot to work that is not a job; release gives it back once.
AdmitTake(a, c) ==
    /\ admit[a] = None
    /\ sem[c] < Slots[c]
    /\ sem' = [sem EXCEPT ![c] = @ + 1]
    /\ admit' = [admit EXCEPT ![a] = c]
    /\ UNCHANGED <<mgrVars, closeVars, jobVars, pc, histVars>>

AdmitRelease(a) ==
    /\ admit[a] # None
    /\ sem' = [sem EXCEPT ![admit[a]] = @ - 1]
    /\ admit' = [admit EXCEPT ![a] = None]
    /\ UNCHANGED <<mgrVars, closeVars, jobVars, pc, histVars>>

\* Reap's order: the most recently finished first, ties by submission.
Newer(e, f) == stamp[e] > stamp[f] \/ (stamp[e] = stamp[f] /\ e > f)
Finished == {i \in IDs : jobs[i] # 0 /\ Terminal(jobs[i])}
Expired == {i \in Finished :
              /\ Cardinality({k \in Finished : Newer(jobs[k], jobs[i])}) >= RetainCount
              /\ stamp[jobs[i]] <= now - RetainTicks}

Reap ==
    /\ Expired # {}
    /\ jobs' = [i \in IDs |-> IF i \in Expired THEN 0 ELSE jobs[i]]
    /\ UNCHANGED <<queued, seq, closed, wg, now, slotVars, closeVars, jobVars, pc, histVars>>

Tick ==
    /\ now < MaxNow
    /\ now' = now + 1
    /\ UNCHANGED <<jobs, queued, seq, closed, wg, slotVars, closeVars, jobVars, pc, histVars>>

-----------------------------------------------------------------------------
(* Close: publish closed and snapshot the jobs under m.mu, then cancel them *)
(* one at a time, then wait for the goroutines or for the caller's deadline.*)

CloseBegin ==
    /\ closer = "idle"
    /\ closer' = "cancelling"
    /\ closed' = TRUE
    /\ toCancel' = {jobs[i] : i \in IDs} \ {0}
    /\ UNCHANGED <<jobs, queued, seq, wg, now, slotVars, jobVars, pc, histVars>>

\* Slip: Close cancels only what has not begun.
CloseCancel_QueuedOnly(e) ==
    /\ closer = "cancelling"
    /\ e \in toCancel
    /\ IF state[e] = "queued" THEN requestCancel(e) ELSE UNCHANGED <<cancelRequested, stoppedQueued>>
    /\ toCancel' = toCancel \ {e}
    /\ UNCHANGED <<mgrVars, slotVars, closer, id, class, state, partial, result,
                   ret, stamp, notified, pc, hookRuns, ran, wonLate>>

CloseCancel(e) ==
    /\ closer = "cancelling"
    /\ e \in toCancel
    /\ requestCancel(e)
    /\ toCancel' = toCancel \ {e}
    /\ UNCHANGED <<mgrVars, slotVars, closer, id, class, state, partial, result,
                   ret, stamp, notified, pc, hookRuns, ran, wonLate>>

CloseWait ==
    /\ closer = "cancelling"
    /\ toCancel = {}
    /\ \/ wg = 0 /\ closer' = "nil"
       \/ closer' = "deadline"
    /\ UNCHANGED <<mgrVars, slotVars, toCancel, jobVars, pc, histVars>>

-----------------------------------------------------------------------------
(* run: the goroutine of one entry. *)

\* Slip: the semaphore does not block.
TakeSlot_Unbounded(e) ==
    /\ Goto(e, "select", "won")
    /\ sem' = [sem EXCEPT ![class[e]] = @ + 1]
    /\ wonLate' = IF closed THEN wonLate \cup {e} ELSE wonLate
    /\ UNCHANGED <<mgrVars, admit, closeVars, jobVars, hookRuns, ran, stoppedQueued>>

\* select: the semaphore and the context are watched together, so a cancelled
\* entry with a free slot may go either way.
TakeSlot(e) ==
    /\ Goto(e, "select", "won")
    /\ sem[class[e]] < Slots[class[e]]
    /\ sem' = [sem EXCEPT ![class[e]] = @ + 1]
    /\ wonLate' = IF closed THEN wonLate \cup {e} ELSE wonLate
    /\ UNCHANGED <<mgrVars, admit, closeVars, jobVars, hookRuns, ran, stoppedQueued>>

\* Slips: the queue is not left on this path; only the semaphore is waited for.
SeeCancelled_StaysCounted(e) ==
    /\ Goto(e, "select", "withdraw")
    /\ cancelRequested[e]
    /\ UNCHANGED <<mgrVars, slotVars, closeVars, jobVars, histVars>>

SeeCancelled_Never(e) ==
    /\ Goto(e, "select", "left")
    /\ cancelRequested[e]
    /\ Terminal(e)
    /\ UNCHANGED <<mgrVars, slotVars, closeVars, jobVars, histVars>>

SeeCancelled(e) ==
    /\ Goto(e, "select", "left")
    /\ cancelRequested[e]
    /\ UNCHANGED <<mgrVars, slotVars, closeVars, jobVars, histVars>>

leaveQueue(e) ==
    /\ \/ Goto(e, "won", "check")
       \/ Goto(e, "left", "withdraw")
    /\ queued' = [queued EXCEPT ![class[e]] = IF @ > 0 THEN @ - 1 ELSE @]
    /\ stamp' = [stamp EXCEPT ![e] = now]
    /\ UNCHANGED <<jobs, seq, closed, wg, now, slotVars, closeVars, id, class, state,
                   cancelRequested, partial, result, ret, notified, histVars>>

\* Slip: the check is left out.
isClosed_Skipped(e) ==
    /\ Goto(e, "check", "start")
    /\ UNCHANGED <<mgrVars, slotVars, closeVars, jobVars, histVars>>

isClosed(e) ==
    /\ Goto(e, "check", IF closed THEN "refused" ELSE "start")
    /\ UNCHANGED <<mgrVars, slotVars, closeVars, jobVars, histVars>>

start(e) ==
    /\ Goto(e, "start", IF cancelRequested[e] THEN "refused" ELSE "fn")
    /\ state' = [state EXCEPT ![e] = IF cancelRequested[e] THEN @ ELSE "running"]
    /\ ran' = IF cancelRequested[e] THEN ran ELSE ran \cup {e}
    /\ UNCHANGED <<mgrVars, slotVars, closeVars, id, class, cancelRequested, partial,
                   result, ret, stamp, notified, hookRuns, wonLate, stoppedQueued>>

\* Slips: the queue is left twice; the slot of a refused job is kept, because its
\* release is deferred after the check; the hook is deferred after the select.
finishQueued_LeavesTwice(e) ==
    /\ \/ Goto(e, "refused", "release")
       \/ Goto(e, "withdraw", "notify")
    /\ state' = [state EXCEPT ![e] = "cancelled"]
    /\ queued' = [queued EXCEPT ![class[e]] = @ - 1]
    /\ UNCHANGED <<jobs, seq, closed, wg, now, slotVars, closeVars, id, class,
                   cancelRequested, partial, result, ret, stamp, notified, histVars>>

finishQueued_KeepsSlot(e) ==
    /\ \/ Goto(e, "refused", "notify")
       \/ Goto(e, "withdraw", "notify")
    /\ state' = [state EXCEPT ![e] = "cancelled"]
    /\ UNCHANGED <<mgrVars, slotVars, closeVars, id, class, cancelRequested, partial,
                   result, ret, stamp, notified, histVars>>

finishQueued_NoHook(e) ==
    /\ \/ Goto(e, "refused", "release")
       \/ Goto(e, "withdraw", "gone")
    /\ state' = [state EXCEPT ![e] = "cancelled"]
    /\ UNCHANGED <<mgrVars, slotVars, closeVars, id, class, cancelRequested, partial,
                   result, ret, stamp, notified, histVars>>

finishQueued(e) ==
    /\ \/ Goto(e, "refused", "release")
       \/ Goto(e, "withdraw", "notify")
    /\ state' = [state EXCEPT ![e] = IF Terminal(e) THEN @ ELSE "cancelled"]
    /\ UNCHANGED <<mgrVars, slotVars, closeVars, id, class, cancelRequested, partial,
                   result, ret, stamp, notified, histVars>>

\* The work function returns, or panics, which call turns into an error.
call(e, err) ==
    /\ Goto(e, "fn", "finish")
    /\ ret' = [ret EXCEPT ![e] = err]
    /\ stamp' = [stamp EXCEPT ![e] = now]
    /\ UNCHANGED <<mgrVars, slotVars, closeVars, id, class, state, cancelRequested,
                   partial, result, notified, histVars>>

\* Slips: a cancelled job is not marked partial; a failed one keeps its slot.
finish_NotPartial(e) ==
    /\ Goto(e, "finish", "release")
    /\ state' = [state EXCEPT ![e] = CASE ret[e] = "nil" -> "done"
                                       [] ret[e] = "canceled" \/ cancelRequested[e] -> "cancelled"
                                       [] OTHER -> "failed"]
    /\ result' = [result EXCEPT ![e] = "own"]
    /\ ret' = [ret EXCEPT ![e] = None]
    /\ UNCHANGED <<mgrVars, slotVars, closeVars, id, class, cancelRequested, partial,
                   stamp, notified, histVars>>

finish_KeepsSlot(e) ==
    /\ Goto(e, "finish", IF ret[e] = "error" THEN "notify" ELSE "release")
    /\ state' = [state EXCEPT ![e] = IF ret[e] = "nil" THEN "done" ELSE "failed"]
    /\ result' = [result EXCEPT ![e] = "own"]
    /\ ret' = [ret EXCEPT ![e] = None]
    /\ UNCHANGED <<mgrVars, slotVars, closeVars, id, class, cancelRequested, partial,
                   stamp, notified, histVars>>

\* finish: success wins over a cancellation that came too late; a failure is
\* partial when the function had made progress.
finish(e) ==
    /\ Goto(e, "finish", "release")
    /\ \/ /\ ret[e] = "nil"
          /\ state' = [state EXCEPT ![e] = "done"]
          /\ UNCHANGED partial
       \/ /\ ret[e] = "canceled" \/ (ret[e] = "error" /\ cancelRequested[e])
          /\ state' = [state EXCEPT ![e] = "cancelled"]
          /\ partial' = [partial EXCEPT ![e] = TRUE]
       \/ /\ ret[e] = "error" /\ ~cancelRequested[e]
          /\ state' = [state EXCEPT ![e] = "failed"]
          /\ \E progress \in BOOLEAN : partial' = [partial EXCEPT ![e] = progress]
    /\ result' = [result EXCEPT ![e] = "own"]
    /\ ret' = [ret EXCEPT ![e] = None]
    /\ UNCHANGED <<mgrVars, slotVars, closeVars, id, class, cancelRequested,
                   stamp, notified, histVars>>

\* The deferred calls, last first: the slot, the hook, the wait group.
releaseSlot(e) ==
    /\ Goto(e, "release", "notify")
    /\ sem' = [sem EXCEPT ![class[e]] = @ - 1]
    /\ UNCHANGED <<mgrVars, admit, closeVars, jobVars, histVars>>

\* The latch is never found set: run is the only caller, once per entry.
notifyFinish(e) ==
    /\ Goto(e, "notify", "hook")
    /\ ~notified[e]
    /\ notified' = [notified EXCEPT ![e] = TRUE]
    /\ UNCHANGED <<mgrVars, slotVars, closeVars, id, class, state, cancelRequested,
                   partial, result, ret, stamp, histVars>>

\* The hook returns, or its panic is contained, and the goroutine is done.
OnFinish(e) ==
    /\ Goto(e, "hook", "gone")
    /\ hookRuns' = [hookRuns EXCEPT ![e] = @ + 1]
    /\ wg' = wg - 1
    /\ UNCHANGED <<jobs, queued, seq, closed, now, slotVars, closeVars, jobVars,
                   ran, wonLate, stoppedQueued>>

-----------------------------------------------------------------------------
\* Every step of e's goroutine but the wait for a slot and the work itself.
Advance(e) ==
    \/ SeeCancelled(e) \/ leaveQueue(e) \/ isClosed(e) \/ start(e)
    \/ finishQueued(e) \/ finish(e) \/ releaseSlot(e)
    \/ notifyFinish(e) \/ OnFinish(e)

Return(e) == \E err \in {"nil", "canceled", "error"} : call(e, err)

run(e) == TakeSlot(e) \/ Advance(e) \/ Return(e)

Close == CloseBegin \/ (\E e \in Entries : CloseCancel(e)) \/ CloseWait

Next ==
    \/ \E i \in IDs, c \in Class : Submit(i, c)
    \/ \E e \in Entries : Cancel(e) \/ ReplaceResult(e) \/ run(e)
    \/ \E a \in Admitters : (\E c \in Class : AdmitTake(a, c)) \/ AdmitRelease(a)
    \/ Reap
    \/ Tick
    \/ Close

Spec == Init /\ [][Next]_vars

(***************************************************************************)
(* Fairness.  Goroutines run; the waiters of a channel are served in the   *)
(* order they came, so one that waits is not passed over for ever (strong  *)
(* fairness of TakeSlot); Close, once begun, goes on; a work function that *)
(* has been cancelled returns (Submit's contract on fn), and a request     *)
(* gives its borrowed slot back.                                           *)
(***************************************************************************)
Fairness ==
    /\ \A e \in Entries :
          /\ WF_vars(Advance(e))
          /\ SF_vars(TakeSlot(e))
          /\ WF_vars(cancelRequested[e] /\ Return(e))
          /\ WF_vars(CloseCancel(e))
    /\ \A a \in Admitters : WF_vars(AdmitRelease(a))

FairSpec == Spec /\ Fairness

\* Every work function ends by itself.
Patience == \A e \in Entries : WF_vars(Return(e))

-----------------------------------------------------------------------------
(* Properties. *)

MgrType ==
    /\ jobs \in [IDs -> 0..MaxSeq]
    /\ queued \in [Class -> Nat]
    /\ seq \in 0..MaxSeq
    /\ wg \in Int
    /\ now \in 0..MaxNow

SlotType ==
    /\ sem \in [Class -> Int]
    /\ admit \in [Admitters -> Class \cup {None}]

CloseType ==
    /\ closer \in {"idle", "cancelling", "nil", "deadline"}
    /\ closed \in BOOLEAN
    /\ toCancel \subseteq Entries

JobType ==
    /\ id \in [Entries -> IDs \cup {None}]
    /\ class \in [Entries -> Class \cup {None}]
    /\ pc \in [Entries -> PCs]
    /\ state \in [Entries -> JobStates]
    /\ cancelRequested \in [Entries -> BOOLEAN]
    /\ partial \in [Entries -> BOOLEAN]
    /\ result \in [Entries -> {None, "own", "replaced"}]
    /\ ret \in [Entries -> {None, "nil", "canceled", "error"}]
    /\ stamp \in [Entries -> 0..MaxNow]
    /\ notified \in [Entries -> BOOLEAN]

HistType ==
    /\ hookRuns \in [Entries -> Nat]
    /\ ran \subseteq Entries
    /\ wonLate \subseteq Entries
    /\ stoppedQueued \subseteq Entries

\* Every variable keeps its type.
TypeOK == MgrType /\ SlotType /\ CloseType /\ JobType /\ HistType

\* A class never has more jobs and borrowers at work than it has slots, and the
\* channel holds exactly one token for each of them: none leaks on any path out
\* of run or Admit.
SlotsExact ==
    \A c \in Class :
        /\ sem[c] = Cardinality(Holding(c)) + Cardinality(Borrowing(c))
        /\ sem[c] <= Slots[c]

\* queued[class] is the number of accepted jobs that have not left the queue,
\* whichever way they leave it, and never passes QueueDepth: the test for zero
\* in leaveQueue never hides a counter that has drifted.
QueueExact ==
    \A c \in Class :
        /\ queued[c] = Cardinality(Waiting(c))
        /\ queued[c] <= QueueDepth

\* Both counters tell how many jobs and borrowers are at work, and wait.
CountersExact == SlotsExact /\ QueueExact

\* The completion hook of an accepted job runs at most once, never before the
\* job's state is final and its slot is given back; a goroutine that is gone has
\* run it (Meta.OnFinish).
HookOnceAtTheEnd ==
    \A e \in Entries :
        /\ hookRuns[e] <= 1
        /\ hookRuns[e] = 1 => Terminal(e) /\ pc[e] \notin SlotPCs
        /\ pc[e] = "hook" => Terminal(e)
        /\ pc[e] = "gone" => hookRuns[e] = 1

\* A job whose cancellation met it in the queue is never run, and neither is one
\* that won its slot after Close began (run's comment at the isClosed check).
StoppedNeverRuns == (stoppedQueued \cup wonLate) \cap ran = {}

\* What the job tells its owner about partial work is true: a cancelled job is
\* "nothing was changed" exactly when its function was never called.
HonestPartial ==
    \A e \in Entries : state[e] = "cancelled" => (partial[e] <=> e \in ran)

\* Cancelling a job in time keeps it from running, and what a cancelled job says
\* of its work is true: the two together.
CancelIsHonest == StoppedNeverRuns /\ HonestPartial

\* A live job is always the one its id leads to: Reap forgets no live job and no
\* Submit takes over its id, so Cancel, Get and Close can reach it.
LiveIsReachable ==
    \A e \in Entries : Live(e) => id[e] \in IDs /\ jobs[id[e]] = e

\* When Close returns nil, every job it accepted is final, every hook has run
\* and no goroutine is left; when it has stopped cancelling, every job that is
\* not final has been asked to stop, even one submitted while Close began.
CloseLeavesNothing ==
    /\ closer = "nil" => \A e \in Entries : Submitted(e) => pc[e] = "gone" /\ hookRuns[e] = 1
    /\ closer \in {"nil", "deadline"} => \A e \in Entries : Live(e) => cancelRequested[e]

\* A final state is never left or rewritten, and a result the ledger has dropped
\* never comes back; what Reap forgets is final and RetainCount newer finished
\* jobs stay.
FinalIsFinal ==
    [][/\ \A e \in Entries :
             /\ Terminal(e) => state'[e] = state[e] /\ partial'[e] = partial[e]
             /\ result[e] = "replaced" => result'[e] = "replaced"
       /\ \A i \in IDs : jobs[i] # 0 /\ jobs'[i] # jobs[i] =>
             /\ Terminal(jobs[i])
             /\ RetainCount <= Cardinality({k \in IDs : /\ jobs'[k] = jobs[k]
                                                        /\ k \in Finished
                                                        /\ Newer(jobs[k], jobs[i])})]_vars

\* The manager as a job lifecycle: the goroutine's inner steps are stutters.
Lifecycle == INSTANCE JobLifecycle WITH
    Jobs  <- Entries,
    phase <- state,
    kind  <- class,
    told  <- {e \in Entries : hookRuns[e] > 0}

\* Behind its queue, semaphore, cancellation and shutdown races the manager is
\* that simple lifecycle: nothing begins beyond the class's slots, nothing ends
\* twice, and every end is told once, after it is final.
ImplementsLifecycle == Lifecycle!LCSpec

\* Once Close has begun, every accepted job comes to its end and is reported,
\* although no slot need ever be freed for it.
CloseEndsEveryJob == closed ~> \A e \in Entries : Submitted(e) => pc[e] = "gone"

CancelledEnds == \A e \in Entries : cancelRequested[e] ~> (pc[e] = "gone" /\ hookRuns[e] = 1)

NoJobStarves == Patience => \A e \in Entries : Submitted(e) ~> pc[e] = "gone"

\* A cancelled job ends and is reported even when every slot is held by work
\* that never returns; where every work function ends, no accepted job waits in
\* the queue for ever.
EveryJobEnds == CancelledEnds /\ NoJobStarves

-----------------------------------------------------------------------------
(***************************************************************************)
(* The inductive strengthening behind the safety properties: where each    *)
(* goroutine stands fixes the state of its job, the latch and the flags;   *)
(* the counters are the sizes of the sets they stand for; and Close has    *)
(* every live job either asked to stop or still on its list.               *)
(***************************************************************************)
EntryShape(e) ==
    /\ pc[e] = "idle" <=> e > seq
    /\ pc[e] = "idle" => state[e] = "unsubmitted" /\ class[e] = None
    /\ pc[e] # "idle" => id[e] \in IDs /\ class[e] \in Class
    /\ pc[e] \in QueuePCs \cup {"check", "start", "refused", "withdraw"} => state[e] = "queued"
    /\ pc[e] \in {"fn", "finish"} => state[e] = "running"
    /\ pc[e] \in {"release", "notify", "hook", "gone"} => Terminal(e)
    /\ pc[e] = "finish" => ret[e] # None
    /\ hookRuns[e] = IF pc[e] = "gone" THEN 1 ELSE 0

HistShape(e) ==
    /\ e \in ran => state[e] \notin {"unsubmitted", "queued"}
    /\ state[e] = "running" => e \in ran
    /\ state[e] \in {"unsubmitted", "queued"} => ~partial[e]
    /\ state[e] = "cancelled" => (partial[e] <=> e \in ran)
    /\ e \in stoppedQueued => cancelRequested[e] /\ pc[e] # "idle" /\ e \notin ran
    /\ e \in wonLate => /\ closed
                       /\ pc[e] \notin {"idle", "select", "left", "withdraw", "start", "fn", "finish"}
                       /\ e \notin ran

Counted ==
    /\ \A c \in Class :
          /\ sem[c] = Cardinality(Holding(c)) + Cardinality(Borrowing(c))
          /\ queued[c] = Cardinality(Waiting(c))
          /\ sem[c] <= Slots[c]
          /\ queued[c] <= QueueDepth
    /\ wg = Cardinality(Unfinished)

Reachable ==
    /\ \A i \in IDs : jobs[i] <= seq
    /\ LiveIsReachable

CloseShape ==
    /\ closed <=> closer # "idle"
    /\ closer \in {"nil", "deadline"} => toCancel = {}
    /\ closed => \A e \in Entries : Live(e) => cancelRequested[e] \/ e \in toCancel
    /\ closer = "nil" => Unfinished = {}

IndInv ==
    /\ TypeOK
    /\ \A e \in Entries : EntryShape(e)
    /\ \A e \in Entries : HistShape(e)
    /\ Counted
    /\ Reachable
    /\ CloseShape
=============================================================================
