--------------------------- MODULE WorkerSession ---------------------------
(***************************************************************************)
(* A worker process serving its connection (internal/worker/worker.go and  *)
(* job.go): one read loop, a goroutine per accepted request, and the good- *)
(* bye that waits for them.  The connection is the socket pair: two FIFO   *)
(* queues of frames whose ends may be closed (internal/wproto).            *)
(*                                                                         *)
(* Every accept decision is taken on the read loop, in frame order.  What  *)
(* an operation does to the file system is not here: work ends with a      *)
(* result, or not at all.  Acknowledgements of cancellations are dropped   *)
(* by the front-end and are left out, as is the hello of a fresh worker.   *)
(***************************************************************************)
EXTENDS Naturals, FiniteSets, Sequences

CONSTANTS
    Open,      \* OpOpenRead requests: an OK reply carries a descriptor
    Job,       \* OpJob requests
    Bye,       \* the OpBye request of terminate
    JobID,     \* JobReq.JobID values
    NameOf,    \* the JobID a job request carries
    Sem,       \* cap(session.sem)
    MaxUp,     \* bound: frames queued to the front-end when a job reports progress
    None       \* nil

Request == Open \cup Job
Call    == Request \cup {Bye}

ASSUME CallAssumption == Open \cap Job = {} /\ Bye \notin Request
ASSUME NameAssumption == NameOf \in [Job -> JobID] /\ None \notin Request
ASSUME SemAssumption  == Sem \in Nat \ {0}

VARIABLES
    down,       \* frames on their way to the worker
    up,         \* frames on their way to the front-end
    frontOpen,  \* the front-end's end of the transport is open
    workerOpen, \* the worker's end is
    alive,      \* the worker process runs
    loop,       \* "on" while serve reads, "over" once it returned
    h,          \* where the handler of a request is
    jobs,       \* session.jobs: the request a JobID names
    cancelled,  \* requests whose context was cancelled
    bye,        \* "no", "wait" for the handlers, "done" answered
    result      \* what a handler's work came to, until it is sent

wire    == <<down, up, frontOpen, workerOpen>>
session == <<alive, loop, h, jobs, cancelled, bye, result>>

HandlerState == {"none", "refused", "conflict", "work", "over", "reply", "left", "done", "killed"}
Kinds == {"ok", "partial", "err", "refused"}

\* Requests between begin and end: they hold a slot of sem and count in wg.
InFlight == {c \in Request : h[c] \in {"work", "over", "reply", "left"}}

Frame(k, c) == [kind |-> k, call |-> c]
DownFrame == [kind : {"req", "cancel"}, call : Call]
UpFrame   == [kind : Kinds \cup {"prog", "bye"}, call : Call]

SessionTypeOK ==
    /\ down \in Seq(DownFrame)
    /\ up \in Seq(UpFrame)
    /\ frontOpen \in BOOLEAN /\ workerOpen \in BOOLEAN /\ alive \in BOOLEAN
    /\ loop \in {"on", "over"}
    /\ h \in [Request -> HandlerState]
    /\ jobs \in [JobID -> Job \cup {None}]
    /\ cancelled \subseteq Request
    /\ bye \in {"no", "wait", "done"}
    /\ result \in [Request -> Kinds \cup {None}]

SessionInit ==
    /\ down = <<>> /\ up = <<>>
    /\ frontOpen = TRUE /\ workerOpen = TRUE /\ alive = TRUE
    /\ loop = "on"
    /\ h = [c \in Request |-> "none"]
    /\ jobs = [n \in JobID |-> None]
    /\ cancelled = {}
    /\ bye = "no"
    /\ result = [c \in Request |-> None]

----------------------------------------------------------------------------
\* Write one frame to the front-end.  A write that cannot go out leaves the
\* stream unusable: fatal closes the transport and cancels every handler.
\* (Frames still queued towards a closed end are dropped by the kernel.)
Reply(f, rest) ==
    IF workerOpen /\ frontOpen
    THEN up' = Append(up, f) /\ down' = rest /\ UNCHANGED <<workerOpen, cancelled>>
    ELSE /\ workerOpen' = FALSE /\ down' = <<>>
         /\ cancelled' = cancelled \cup InFlight
         /\ UNCHANGED up

\* The next frame of the read loop.
Reads(kind, c) ==
    /\ alive /\ loop = "on" /\ workerOpen
    /\ down # <<>>
    /\ Head(down) = Frame(kind, c)

\* Refused before anything ran: the goodbye was accepted, or sem is full.
Refuse(c) ==
    /\ Reads("req", c)
    /\ c \in Request
    /\ bye # "no" \/ Cardinality(InFlight) >= Sem
    /\ Reply(Frame("refused", c), Tail(down))
    /\ h' = [h EXCEPT ![c] = "refused"]
    /\ UNCHANGED <<frontOpen, alive, loop, jobs, bye, result>>

\* A JobID that is still registered is refused (acceptJob, beginJob).
RefuseConflict(c) ==
    /\ Reads("req", c)
    /\ c \in Job
    /\ bye = "no" /\ Cardinality(InFlight) < Sem
    /\ jobs[NameOf[c]] # None
    /\ Reply(Frame("err", c), Tail(down))
    /\ h' = [h EXCEPT ![c] = "conflict"]
    /\ UNCHANGED <<frontOpen, alive, loop, jobs, bye, result>>

\* Mutant: a request is accepted without its job being registered on the loop.
Accept_Unregistered(c) ==
    /\ Reads("req", c)
    /\ down' = Tail(down)
    /\ c \in Request
    /\ bye = "no" /\ Cardinality(InFlight) < Sem
    /\ c \in Job => jobs[NameOf[c]] = None
    /\ h' = [h EXCEPT ![c] = "work"]
    /\ UNCHANGED <<up, frontOpen, workerOpen, alive, loop, jobs, cancelled, bye, result>>

\* Accepted: both registrations are made before the handler goroutine exists.
Accept(c) ==
    /\ Reads("req", c)
    /\ down' = Tail(down)
    /\ c \in Request
    /\ bye = "no" /\ Cardinality(InFlight) < Sem
    /\ c \in Job => jobs[NameOf[c]] = None
    /\ h' = [h EXCEPT ![c] = "work"]
    /\ jobs' = IF c \in Job THEN [jobs EXCEPT ![NameOf[c]] = c] ELSE jobs
    /\ UNCHANGED <<up, frontOpen, workerOpen, alive, loop, cancelled, bye, result>>

\* OpBye: a goroutine waits for the handlers; this loop carries on reading.
AcceptBye ==
    /\ Reads("req", Bye)
    /\ down' = Tail(down)
    /\ bye = "no"
    /\ bye' = "wait"
    /\ UNCHANGED <<up, frontOpen, workerOpen, alive, loop, h, jobs, cancelled, result>>

\* OpCancel: a job is looked up by its JobID, any other request by its id.
Cancel(c) ==
    /\ Reads("cancel", c)
    /\ down' = Tail(down)
    /\ LET target == IF c \in Job THEN {jobs[NameOf[c]]} \ {None} ELSE {c} \cap InFlight
       IN cancelled' = cancelled \cup target
    /\ UNCHANGED <<up, frontOpen, workerOpen, alive, loop, h, jobs, bye, result>>

\* The connection ended: cancelAll, and serve returns once everybody is done.
ReadError ==
    /\ alive /\ loop = "on"
    /\ ~workerOpen \/ (down = <<>> /\ ~frontOpen)
    /\ loop' = "over"
    /\ cancelled' = cancelled \cup InFlight
    /\ UNCHANGED <<wire, alive, h, jobs, bye, result>>

----------------------------------------------------------------------------
\* A progress or warning frame, while the job works or as its last flush.
Progress(c) ==
    /\ alive /\ h[c] \in {"work", "reply"}
    /\ Len(up) < MaxUp
    /\ Reply(Frame("prog", c), down)
    /\ UNCHANGED <<frontOpen, alive, loop, h, jobs, bye, result>>

\* The operation returns.  An answer too large for a frame becomes an error.
FinishWork(c) ==
    /\ alive /\ h[c] = "work"
    /\ \E r \in {"ok", "err"} : result' = [result EXCEPT ![c] = r]
    /\ h' = [h EXCEPT ![c] = IF c \in Job THEN "over" ELSE "reply"]
    /\ UNCHANGED <<wire, alive, loop, jobs, cancelled, bye>>

\* endJob: the name goes before the terminal frame does.
EndJob(c) ==
    /\ alive /\ h[c] = "over"
    /\ jobs' = IF jobs[NameOf[c]] = c THEN [jobs EXCEPT ![NameOf[c]] = None] ELSE jobs
    /\ h' = [h EXCEPT ![c] = "reply"]
    /\ UNCHANGED <<wire, alive, loop, cancelled, bye, result>>

\* A job that failed reports what it did (partial) if its context is over by the
\* time it answers, whatever it failed of.
Said(c) ==
    IF result[c] = "err" /\ c \in Job /\ c \in cancelled THEN "partial" ELSE result[c]

\* The one terminal frame of a request.
Terminal(c) ==
    /\ alive /\ h[c] = "reply"
    /\ Reply(Frame(Said(c), c), down)
    /\ h' = [h EXCEPT ![c] = "left"]
    /\ result' = [result EXCEPT ![c] = None]
    /\ UNCHANGED <<frontOpen, alive, loop, jobs, bye>>

\* The deferred end (its context is over), the slot of sem and wg.Done.
Leave(c) ==
    /\ alive /\ h[c] = "left"
    /\ h' = [h EXCEPT ![c] = "done"]
    /\ cancelled' = cancelled \ {c}
    /\ UNCHANGED <<wire, alive, loop, jobs, bye, result>>

\* wg.Wait returned: answer the goodbye and close the transport.
AnswerBye ==
    /\ alive /\ bye = "wait" /\ InFlight = {}
    /\ up' = IF workerOpen /\ frontOpen THEN Append(up, Frame("bye", Bye)) ELSE up
    /\ workerOpen' = FALSE /\ down' = <<>>
    /\ bye' = "done"
    /\ UNCHANGED <<frontOpen, alive, loop, h, jobs, cancelled, result>>

\* The process is gone, and with it every handler.
Dies ==
    /\ alive' = FALSE /\ workerOpen' = FALSE /\ down' = <<>>
    /\ h' = [c \in Request |-> IF c \in InFlight THEN "killed" ELSE h[c]]
    /\ loop' = "over" /\ cancelled' = {} /\ bye' = "done"
    /\ jobs' = [n \in JobID |-> None]
    /\ result' = [c \in Request |-> None]
    /\ UNCHANGED <<up, frontOpen>>

\* serve returns: no handler is running and the goodbye has been answered.
Exit ==
    /\ alive /\ loop = "over" /\ InFlight = {} /\ bye # "wait"
    /\ Dies

Loop == \/ \E c \in Request : Refuse(c) \/ Accept(c) \/ Cancel(c)
        \/ \E c \in Job : RefuseConflict(c)
        \/ AcceptBye
        \/ ReadError

Returns(c) == Terminal(c) \/ Leave(c) \/ (c \in Job /\ EndJob(c))

SessionNext ==
    \/ Loop
    \/ \E c \in Job : Progress(c)
    \/ \E c \in Request : FinishWork(c) \/ Returns(c)
    \/ AnswerBye
    \/ Exit

\* Goroutines are scheduled; work itself may never come back from a system call.
SessionFairness ==
    /\ WF_<<wire, session>>(Loop)
    /\ \A c \in Request : WF_<<wire, session>>(Returns(c))
    /\ WF_<<wire, session>>(AnswerBye \/ Exit)
=============================================================================
