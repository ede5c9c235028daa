---------------------------- MODULE WorkerCalls ----------------------------
(***************************************************************************)
(* The front-end's end of a worker's connection (internal/workerpool/      *)
(* client.go and job.go) composed with WorkerSession.  A caller registers  *)
(* itself in the pending table, writes its frame and waits in a select for *)
(* its answer, the death of the worker and the end of its own context; one *)
(* read loop delivers what arrives.  Whoever finds the transport broken    *)
(* closes it, marks the client dead and has the process retired.           *)
(*                                                                         *)
(* Every critical section of c.mu is one action.  p.abandoned is set where *)
(* the entry leaves the table and has no variable of its own.              *)
(***************************************************************************)
EXTENDS WorkerSession

CONSTANTS
    JobFrames,   \* capacity of a job's channel (an ordinary call's is 1)
    MaxLive,     \* bound: calls in progress at the same time
    Faults       \* what may go wrong: "jam" a write that times out half-way,
                 \* "crash" of the process, "stop" by the pool

\* What a caller may be told.
Outcome == Kinds \cup {"bye", "gone", "ctx", "late", "terminated"}

\* A job's channel has room for a frame, and no answer is nil.
ASSUME ChannelAssumption == JobFrames \in Nat \ {0} /\ None \notin Outcome

VARIABLES
    dead,       \* c.dead, c.gone closed
    table,      \* c.pending: the calls registered there
    chan,       \* p.ch
    doomed,     \* a goroutine is to retire this worker
    term,       \* terminate: "no", "bye" (waits for the goodbye), "kill"
    pc,         \* where the goroutine of a call is
    outcome,    \* what its caller was told
    ended,      \* calls whose context is over
    opened,     \* descriptors received and not closed, by the call they answer
    clashed     \* history: jobs that shared their JobID with another live one

client == <<dead, table, chan, doomed, term>>
caller == <<pc, outcome, ended, opened, clashed>>
vars   == <<wire, session, client, caller>>

CallState == {"idle", "reg", "wait", "drain", "drainc", "cancel", "stop", "grace", "end"}

Capacity(c) == IF c \in Job THEN JobFrames ELSE 1

TypeOK ==
    /\ SessionTypeOK
    /\ dead \in BOOLEAN /\ doomed \in BOOLEAN
    /\ table \subseteq Call
    /\ chan \in [Call -> Seq([kind : Kinds \cup {"prog", "bye", "gone"}, call : Call])]
    /\ \A c \in Call : Len(chan[c]) <= Capacity(c)
    /\ term \in {"no", "bye", "kill"}
    /\ pc \in [Call -> CallState]
    /\ outcome \in [Call -> Outcome \cup {None}]
    /\ ended \subseteq Call
    /\ opened \subseteq Open
    /\ clashed \subseteq Job

Init ==
    /\ SessionInit
    /\ dead = FALSE /\ doomed = FALSE
    /\ table = {}
    /\ chan = [c \in Call |-> <<>>]
    /\ term = "no"
    /\ pc = [c \in Call |-> "idle"]
    /\ outcome = [c \in Call |-> None]
    /\ ended = {}
    /\ opened = {}
    /\ clashed = {}

IsTerminal(f) == f.kind # "prog"
HasFile(f)    == f.kind = "ok" /\ f.call \in Open
FilesIn(q)    == {q[i].call : i \in {j \in DOMAIN q : HasFile(q[j])}}
Ends(q)       == {i \in DOMAIN q : IsTerminal(q[i])}
Live(c)       == pc[c] \notin {"idle", "end"}

At(c, from, to) == pc[c] = from /\ pc' = [pc EXCEPT ![c] = to]
Told(c, o)      == outcome' = [outcome EXCEPT ![c] = o]

\* abandon, its critical section: the entry leaves the table.  Only a call
\* that may have been sent a descriptor has anything to drain after it.
Abandon(c, next) ==
    /\ table' = table \ {c}
    /\ pc' = [pc EXCEPT ![c] = IF c \in Open THEN next ELSE "end"]
    /\ chan' = IF c \in Open THEN chan ELSE [chan EXCEPT ![c] = <<>>]

\* The rest of abandon: close whatever had been delivered already.
Drain(c) ==
    /\ At(c, "drain", "end") \/ At(c, "drainc", "cancel")
    /\ opened' = opened \ FilesIn(chan[c])
    /\ chan' = [chan EXCEPT ![c] = <<>>]
    /\ UNCHANGED <<wire, session, dead, table, doomed, term, outcome, ended, clashed>>

\* fail: every caller in tab is handed worker_gone and c.gone is closed.  (The
\* code hands out after the unlock: who gives up in between finds a frame
\* without a descriptor, or does not look.)
Fail(tab) ==
    /\ dead' = TRUE
    /\ table' = IF dead THEN tab ELSE {}
    /\ chan' = [c \in Call |-> IF ~dead /\ c \in tab /\ Len(chan[c]) < Capacity(c)
                               THEN Append(chan[c], Frame("gone", c)) ELSE chan[c]]

CloseFront == frontOpen' = FALSE /\ up' = <<>>

----------------------------------------------------------------------------
\* call and runJob up to the registration in the pending table.  A context
\* that is over already, or a dead worker, ends the call before it is one.
BeginCall(c) ==
    \/ /\ At(c, "idle", "end")
       /\ Told(c, "ctx") \/ (dead /\ Told(c, "gone"))
       /\ UNCHANGED <<wire, session, client, ended, opened, clashed>>
    \/ /\ ~dead
       /\ At(c, "idle", "reg")
       /\ table' = table \cup {c}
       /\ LET same == {d \in Job \ {c} : Live(d) /\ c \in Job /\ NameOf[d] = NameOf[c]}
          IN clashed' = IF same = {} THEN clashed ELSE clashed \cup same \cup {c}
       /\ UNCHANGED <<wire, session, dead, chan, doomed, term, outcome, ended, opened>>

Begin(c) ==
    /\ c # Bye
    /\ Cardinality({d \in Request : Live(d)}) < MaxLive
    /\ BeginCall(c)

\* writeFrame: the frame goes out whole,
Write(c) ==
    /\ At(c, "reg", "wait")
    /\ frontOpen /\ workerOpen
    /\ down' = Append(down, Frame("req", c))
    /\ UNCHANGED <<up, frontOpen, workerOpen, session, client, outcome, ended, opened, clashed>>

\* or not one byte of it, because the deadline had passed before (notWritten),
NotWritten(c) ==
    /\ c \in ended /\ pc[c] = "reg"
    /\ Abandon(c, "drain")
    /\ Told(c, "ctx")
    /\ UNCHANGED <<wire, session, dead, doomed, term, ended, opened, clashed>>

\* or the stream is lost: close it, fail everybody, retire the process.
Jams == ~frontOpen \/ ~workerOpen \/ "jam" \in Faults

WriteFails(c) ==
    /\ Jams
    /\ At(c, "reg", "end")
    /\ CloseFront
    /\ Fail(table \ {c})
    /\ doomed' = (doomed \/ c # Bye)
    /\ Told(c, "gone")
    /\ UNCHANGED <<down, workerOpen, session, term, ended, opened, clashed>>

----------------------------------------------------------------------------
\* readLoop and deliver: the frame goes to a caller that is still there, or
\* what it carries is closed.  A terminal frame makes itself room in a full
\* channel at the cost of the oldest frame; a progress frame is dropped.
Deliver ==
    /\ frontOpen /\ up # <<>>
    /\ LET f == Head(up)
           c == f.call
           full == Len(chan[c]) = Capacity(c)
           sent == c \in table /\ (IsTerminal(f) \/ ~full) IN
       /\ table' = IF IsTerminal(f) THEN table \ {c} ELSE table
       /\ chan' = IF sent THEN [chan EXCEPT ![c] = Append(IF full THEN Tail(@) ELSE @, f)]
                          ELSE chan
       /\ opened' = IF sent /\ HasFile(f) THEN opened \cup {c} ELSE opened
    /\ up' = Tail(up)
    /\ UNCHANGED <<down, frontOpen, workerOpen, session, dead, doomed, term, pc, outcome, ended,
                   clashed>>

\* The read fails: the transport was closed here, or there and is drained.
ReaderEnds ==
    /\ ~dead
    /\ ~frontOpen \/ (up = <<>> /\ ~workerOpen)
    /\ Fail(table)
    /\ UNCHANGED <<wire, session, doomed, term, caller>>

----------------------------------------------------------------------------
\* The select of call picks the answer; its files are the caller's from here.
TakeReply(c) ==
    /\ c \notin Job
    /\ chan[c] # <<>>
    /\ At(c, "wait", "end")
    /\ Told(c, Head(chan[c]).kind)
    /\ chan' = [chan EXCEPT ![c] = Tail(@)]
    /\ UNCHANGED <<wire, session, dead, table, doomed, term, ended, opened, clashed>>

\* runJob and cancelAndDrain take the next frame of their job (jobFrame); a
\* whole result under an ended context is handed over with the context's error.
TakeFrame(c) ==
    /\ c \in Job
    /\ pc[c] \in {"wait", "grace"} /\ chan[c] # <<>>
    /\ LET k == Head(chan[c]).kind IN
       \/ /\ k = "prog"
          /\ chan' = [chan EXCEPT ![c] = Tail(@)]
          /\ UNCHANGED <<pc, outcome, table>>
       \/ /\ k # "prog"
          /\ Told(c, IF pc[c] = "grace" /\ k = "ok" THEN "late" ELSE k)
          /\ Abandon(c, "end")
    /\ UNCHANGED <<wire, session, dead, doomed, term, ended, opened, clashed>>

\* Mutant: a job whose worker died is lost, whatever had been delivered.
SeeGone_Forgets(c) ==
    /\ dead
    /\ pc[c] \in {"wait", "grace"}
    /\ Told(c, "gone")
    /\ Abandon(c, "drain")
    /\ UNCHANGED <<wire, session, dead, doomed, term, ended, opened, clashed>>

\* The select picks <-c.gone.  A call gives up; a job first takes what had
\* been delivered (jobWorkerGone): one that finished is not a lost one.
SeeGone(c) ==
    /\ dead
    /\ pc[c] \in {"wait", "grace"}
    /\ LET first == CHOOSE i \in Ends(chan[c]) : \A j \in Ends(chan[c]) : i <= j
       IN Told(c, IF c \in Job /\ Ends(chan[c]) # {} THEN chan[c][first].kind ELSE "gone")
    /\ Abandon(c, "drain")
    /\ UNCHANGED <<wire, session, dead, doomed, term, ended, opened, clashed>>

\* Mutant: the caller drains its channel while it is still on the table.
SeeCtx_DrainsFirst(c) ==
    /\ c \in ended
    /\ \/ c \in Job /\ At(c, "wait", "stop") /\ UNCHANGED <<outcome, table, chan>>
       \/ /\ c \notin Job
          /\ At(c, "wait", IF c \in Open THEN "drainc" ELSE "end")
          /\ Told(c, "ctx")
          /\ UNCHANGED <<table, chan>>
    /\ UNCHANGED <<wire, session, dead, doomed, term, ended, opened, clashed>>

\* The select picks <-ctx.Done().  A goodbye is not cancelled.
SeeCtx(c) ==
    /\ c \in ended
    /\ \/ c \in Job /\ At(c, "wait", "stop") /\ UNCHANGED <<outcome, table, chan>>
       \/ c \notin Job /\ pc[c] = "wait" /\ Told(c, "ctx") /\ Abandon(c, "drainc")
    /\ UNCHANGED <<wire, session, dead, doomed, term, ended, opened, clashed>>

\* Mutant: a cancelled job's caller does not wait for what the worker says.
SendCancel_NoDrain(c) ==
    /\ \/ At(c, "cancel", "end") /\ UNCHANGED <<table, chan>>
       \/ pc[c] = "stop" /\ Abandon(c, "end")
    /\ \/ dead /\ UNCHANGED <<up, down, frontOpen, doomed>>
       \/ /\ ~dead /\ frontOpen /\ workerOpen
          /\ down' = Append(down, Frame("cancel", c))
          /\ UNCHANGED <<up, frontOpen, doomed>>
    /\ UNCHANGED <<workerOpen, session, dead, term, outcome, ended, opened, clashed>>

\* cancelRemote and cancelJob: one bounded write, best effort.  The worker
\* that does not take it is retired.
SendCancel(c) ==
    /\ At(c, "cancel", "end") \/ At(c, "stop", "grace")
    /\ \/ dead /\ UNCHANGED <<up, down, frontOpen, doomed>>
       \/ /\ ~dead /\ frontOpen /\ workerOpen
          /\ down' = Append(down, Frame("cancel", c))
          /\ UNCHANGED <<up, frontOpen, doomed>>
       \/ ~dead /\ Jams /\ CloseFront /\ doomed' = TRUE /\ UNCHANGED down
    /\ UNCHANGED <<workerOpen, session, dead, table, chan, term, outcome, ended, opened, clashed>>

\* Mutant: a job that would not stop is walked away from.
GraceExpires_WalksAway(c) ==
    /\ pc[c] = "grace"
    /\ Abandon(c, "end")
    /\ Told(c, "terminated")
    /\ UNCHANGED <<wire, session, dead, doomed, term, ended, opened, clashed>>

\* The cancelled job did not stop in time: the worker is terminated.
GraceExpires(c) ==
    /\ pc[c] = "grace"
    /\ Abandon(c, "end")
    /\ Told(c, "terminated")
    /\ CloseFront /\ doomed' = TRUE
    /\ UNCHANGED <<down, workerOpen, session, dead, term, ended, opened, clashed>>

\* The caller goes away, or its deadline passes, while that still matters.
CallerEnds(c) ==
    /\ pc[c] \in {"reg", "wait"} /\ c \notin ended
    /\ ended' = ended \cup {c}
    /\ UNCHANGED <<wire, session, client, pc, outcome, opened, clashed>>

----------------------------------------------------------------------------
\* terminate begins, for a worker that is not dead, with a bounded goodbye.
TerminateBye ==
    /\ "stop" \in Faults
    /\ term = "no" /\ ~dead
    /\ term' = "bye"
    /\ UNCHANGED <<wire, session, dead, table, chan, doomed, caller>>

SayBye == term = "bye" /\ BeginCall(Bye)

\* Mutant: a worker that does not answer the goodbye is given all the time.
TerminateKill_Waits ==
    /\ \/ term = "bye" /\ outcome[Bye] = "bye"
       \/ term = "no" /\ doomed
    /\ term' = "kill"
    /\ CloseFront
    /\ Fail(table)
    /\ UNCHANGED <<down, workerOpen, session, doomed, caller>>

\* After the goodbye, or at once for one that is retired dead: fail, close,
\* and on to the signals.  terminate runs once; a second one only fails.
TerminateKill ==
    /\ \/ term = "bye" /\ pc[Bye] = "end"
       \/ term = "no" /\ doomed
    /\ term' = "kill"
    /\ CloseFront
    /\ Fail(table)
    /\ UNCHANGED <<down, workerOpen, session, doomed, caller>>

RetireFails ==
    /\ doomed /\ term = "bye" /\ ~dead
    /\ Fail(table)
    /\ UNCHANGED <<wire, session, doomed, term, caller>>

\* SIGTERM, then SIGKILL.
Kill  == term = "kill" /\ alive /\ Dies /\ UNCHANGED <<client, caller>>
Crash == "crash" \in Faults /\ alive /\ Dies /\ UNCHANGED <<client, caller>>

----------------------------------------------------------------------------
Sends(c)   == Write(c) \/ NotWritten(c) \/ WriteFails(c) \/ SendCancel(c)
Selects(c) == TakeReply(c) \/ TakeFrame(c) \/ SeeGone(c) \/ SeeCtx(c)

\* The steps of one goroutine; no two of its kinds are enabled together but
\* the arms of its select.
Caller(c)  == Sends(c) \/ Selects(c) \/ Drain(c)
ReadLoop   == Deliver \/ ReaderEnds
Terminator == SayBye \/ TerminateKill \/ RetireFails \/ Kill

Next ==
    \/ SessionNext /\ UNCHANGED <<client, caller>>
    \/ \E c \in Call : Begin(c) \/ Caller(c) \/ CallerEnds(c)
    \/ \E c \in Job : GraceExpires(c)
    \/ ReadLoop
    \/ TerminateBye \/ Terminator
    \/ Crash

Spec == Init /\ [][Next]_vars

\* Goroutines are scheduled, a select does not for ever prefer the one arm to
\* the other (Go picks among the ready at random), deadlines pass (every call
\* but a job's has one) and a killed process goes.
Fairness ==
    /\ SessionFairness
    /\ \A c \in Call : WF_vars(Caller(c)) /\ WF_vars(SeeCtx(c))
    /\ \A c \in Open \cup {Bye} : WF_vars(CallerEnds(c))
    /\ \A c \in Job : WF_vars(GraceExpires(c))
    /\ WF_vars(ReadLoop) /\ WF_vars(Terminator)

FairSpec == Spec /\ Fairness

----------------------------------------------------------------------------
\* A received descriptor is always somebody's: a caller was given it, or it is
\* in the channel of a caller that has still to look (client.go, pending:
\* "there is no third outcome in which nobody owns it").
NoDescriptorLeaks ==
    \A c \in opened : outcome[c] = "ok" \/ (pc[c] # "end" /\ c \in FilesIn(chan[c]))

\* A job whose result was delivered before the worker went is never reported
\* as lost with it (jobWorkerGone).
FinishedIsNotLost ==
    [][\A c \in Job : outcome[c] = None /\ outcome'[c] = "gone" =>
           \A i \in Ends(chan[c]) : chan[c][i].kind = "gone"]_vars

\* Once the worker has handled a caller's cancellation, the request it named
\* is not running under a context nobody cancelled, nor about to (finding F5).
CancelReaches ==
    [][\A c \in Request : down # <<>> /\ Head(down) = Frame("cancel", c) /\ down' = Tail(down) =>
           c \in cancelled' \/ h[c] \notin {"none", "work"} \/ ~alive']_vars

\* A JobID may be used again as soon as its first job ended: the new job is
\* not refused, since the registration goes before the terminal frame does
\* (finding F9), and not stopped by the late cancellation of the job before
\* it, since cancelAndDrain writes before it waits.
ReuseIsSafe ==
    \A c \in Job \ clashed :
        /\ h[c] # "conflict"
        /\ c \in cancelled => c \in ended \/ loop = "over" \/ ~workerOpen

\* A goodbye that was answered was an orderly end: every accepted request has
\* finished and nobody is still registered for an answer of one (serve, OpBye).
ByeIsOrderly ==
    outcome[Bye] = "bye" =>
        InFlight = {} /\ \A c \in Request : h[c] = "done" => c \notin table

\* What a job's caller was told is what became of the job: with a result it is
\* over; without one its worker is being terminated or dead (finding F13).
JobEndIsHonest ==
    \A c \in Job :
        /\ outcome[c] \in Kinds \cup {"late"} => h[c] \notin {"none", "work", "over"}
        /\ outcome[c] = "terminated" => doomed
        /\ outcome[c] = "gone" => dead

\* A job that has sent its terminal frame ends at its caller, without help
\* from a deadline or a cancellation: jobs have none.
AnsweredJobsEnd == \A c \in Job : h[c] = "left" ~> pc[c] = "end"

\* A cancelled job stops changing files, even one stuck in the file system:
\* by its context, or with its process (finding F13).
MutationStops == \A c \in Job : c \in ended ~> h[c] # "work"

\* A worker that is being terminated is gone in the end, although its read
\* loop, its handlers and the goodbye all wait for one another.
StopEnds == term # "no" ~> ~alive

\* What has to end does: the three together.
CallsEnd == AnsweredJobsEnd /\ MutationStops /\ StopEnds
=============================================================================
