------------------------- MODULE WorkerCallsProofs -------------------------
(***************************************************************************)
(* Theorems about the calls on one worker's connection, for every number   *)
(* of requests, jobs and names, every capacity, and every failure: writes  *)
(* that jam, crashes, and the pool that stops the worker.                  *)
(*                                                                         *)
(* CallsInv is the inductive invariant.  A step is a step of the worker or *)
(* one of the daemon's end; WorkerMoves and FrontMoves say what either may *)
(* do to the state the other relies on.                                    *)
(***************************************************************************)
EXTENDS WorkerCalls, TLAPS

-----------------------------------------------------------------------------
Pending == {"reg", "wait", "stop", "grace"}
Written == {"wait", "stop", "grace", "drainc", "cancel"}
Before  == {"none", "work", "over"}

\* The request of a call is on its way; it is there, or its job runs.
Sent(c)     == \E i \in DOMAIN down : down[i] = Frame("req", c)
OnWorker(c) == Sent(c) \/ h[c] \in {"work", "over"}
SameName(c, d) == c # d /\ NameOf[c] = NameOf[d]

\* The goodbye was answered: everybody has finished and had an answer.
Farewell ==
    /\ bye = "done" /\ InFlight = {}
    /\ \A c \in Request : h[c] = "done" => c \notin table

\* A call is on the table until its answer comes or its caller leaves; before its
\* request is written there is nothing to answer.
CallFits(c) ==
    /\ c \in table =>
          /\ pc[c] \in Pending /\ c \notin opened
          /\ \A i \in DOMAIN chan[c] : chan[c][i].kind = "prog"
    /\ pc[c] \in {"idle", "reg"} =>
          c \notin opened /\ \A i \in DOMAIN chan[c] : chan[c][i].kind = "gone"
    /\ pc[c] = "idle" => chan[c] = <<>>
    /\ pc[c] \in {"idle"} \cup Pending => outcome[c] = None
    /\ pc[c] \in {"drain", "drainc", "cancel"} => c \in Open
    /\ pc[c] \in {"stop", "grace"} => c \in Job
    /\ pc[c] \in {"stop", "grace", "drainc", "cancel"} => c \in ended
CallShape == \A c \in Call : CallFits(c)

\* What a frame in the channel of a call says is so; one of them is its end.
ChanFits(c) ==
    /\ \A i \in DOMAIN chan[c] :
          /\ chan[c][i].call = c
          /\ chan[c][i].kind = "prog" => c \in Job
          /\ chan[c][i].kind \in Kinds => c \in Request /\ h[c] \notin Before
          /\ chan[c][i].kind = "gone" => dead
          /\ chan[c][i].kind = "bye" => c = Bye /\ Farewell
    /\ \A i, j \in Ends(chan[c]) : i = j
ChanShape == \A c \in Call : ChanFits(c)

\* And so is what a frame on its way up says. The goodbye comes last.
Answered(c, n) == \E j \in 1 .. n : j \in DOMAIN up /\ up[j].call = c /\ IsTerminal(up[j])
UpFits(f) ==
    /\ f.kind = "prog" => f.call \in Job /\ h[f.call] # "none"
    /\ f.kind \in Kinds => f.call \in Request /\ h[f.call] \notin Before
    /\ f.kind = "bye" =>
          /\ f.call = Bye /\ bye = "done" /\ InFlight = {}
          /\ pc[Bye] \notin {"idle", "reg"}
UpShape == \A i \in DOMAIN up :
    /\ UpFits(up[i])
    /\ up[i].kind = "bye" =>
          \A c \in Request : h[c] = "done" /\ c \in table => Answered(c, i - 1)

\* A request is sent once, and its cancellation after it.
DownShape == \A i \in DOMAIN down :
    /\ down[i].kind = "req" =>
          /\ pc[down[i].call] \notin {"idle", "reg"}
          /\ down[i].call \in Request => h[down[i].call] = "none"
          /\ \A j \in DOMAIN down : down[j] = down[i] => i = j
    /\ down[i].kind = "cancel" =>
          /\ down[i].call \in Request /\ down[i].call \in ended
          /\ \/ h[down[i].call] # "none"
             \/ \E j \in DOMAIN down : j < i /\ down[j] = Frame("req", down[i].call)

\* A job that runs is registered under its name, and nothing else is.
WorkerShape ==
    /\ \A c \in Request :
          /\ h[c] # "none" => pc[c] \notin {"idle", "reg"}
          /\ h[c] \in {"over", "reply"} => result[c] \in Kinds
          /\ h[c] = "over" => c \in Job
    /\ \A c \in Job : h[c] \in {"work", "over"} => jobs[NameOf[c]] = c
    /\ \A n \in JobID : jobs[n] # None =>
          NameOf[jobs[n]] = n /\ h[jobs[n]] \in {"work", "over"}
    /\ bye = "wait" => pc[Bye] \notin {"idle", "reg"}

\* While the worker can be heard, what was written is on its way or was accepted,
Arrives == \A c \in Request : pc[c] \in Written /\ workerOpen => h[c] # "none" \/ Sent(c)
\* and the answer of what was finished is on its way back.
SentBack ==
    workerOpen /\ frontOpen =>
        \A c \in Request : h[c] \in {"left", "done"} /\ c \in table => Answered(c, Len(up))

\* Nobody leaves a job behind that may still run, but on a lost connection.
Left == \A c \in Job : pc[c] = "end" /\ OnWorker(c) => dead \/ ~frontOpen

\* Of two jobs with one name that did not overlap, one is over for the worker
\* before the other begins, and its cancellation was read.
Apart(c, d) ==
    /\ Live(c) /\ Live(d) => c \in clashed
    /\ pc[d] = "reg" /\ (c \notin clashed \/ d \notin clashed) => ~OnWorker(c) \/ ~frontOpen
    /\ c \notin clashed => ~(OnWorker(c) /\ OnWorker(d))
    /\ c \notin clashed => \A i \in DOMAIN down : down[i] = Frame("cancel", d) =>
          /\ h[c] \notin {"work", "over"}
          /\ \A j \in DOMAIN down : down[j] = Frame("req", c) => i < j
Clash == \A c, d \in Job : SameName(c, d) => Apart(c, d)

\* A descriptor was handed to its caller or waits where its caller will look.
Owned(c) ==
    c \in opened =>
        \/ pc[c] = "end" /\ outcome[c] = "ok"
        \/ pc[c] \in {"wait", "drain", "drainc"} /\ c \in FilesIn(chan[c])
OwnsFile == \A c \in Call : Owned(c)

ByeShape == outcome[Bye] = "bye" => Farewell

CallsInv ==
    /\ TypeOK /\ CallShape /\ ChanShape /\ UpShape /\ DownShape /\ WorkerShape
    /\ Arrives /\ SentBack /\ Left /\ Clash /\ OwnsFile /\ ByeShape
    /\ JobEndIsHonest /\ ReuseIsSafe

-----------------------------------------------------------------------------
\* Calls are requests or the goodbye.
LEMMA Calls ==
    /\ Bye \notin Request /\ Call = Request \cup {Bye} /\ Request = Open \cup Job
    /\ \A c \in Open : c \notin Job
    /\ \A c \in Job : NameOf[c] \in JobID
    /\ \A c \in Request : c # None
    /\ None \notin Outcome
BY CallAssumption, NameAssumption, ChannelAssumption DEF Call, Request

LEMMA Types ==
    ASSUME TypeOK
    PROVE  /\ down \in Seq(DownFrame) /\ up \in Seq(UpFrame)
           /\ \A c \in Call : chan[c] \in Seq([kind : Kinds \cup {"prog", "bye", "gone"}, call : Call])
           /\ chan = [c \in Call |-> chan[c]]
           /\ h \in [Request -> HandlerState] /\ pc \in [Call -> CallState]
           /\ jobs \in [JobID -> Job \cup {None}]
           /\ result \in [Request -> Kinds \cup {None}]
           /\ outcome \in [Call -> Outcome \cup {None}]
           /\ opened \subseteq Open /\ table \subseteq Call /\ cancelled \subseteq Request
           /\ ended \subseteq Call
BY DEF TypeOK, SessionTypeOK

\* Frames queue up at the end and leave at the head.
LEMMA Appended ==
    ASSUME NEW S, NEW q \in Seq(S), NEW f \in S
    PROVE  /\ Append(q, f) \in Seq(S) /\ Len(Append(q, f)) = Len(q) + 1
           /\ DOMAIN Append(q, f) = 1 .. Len(q) + 1 /\ DOMAIN q = 1 .. Len(q) /\ Len(q) \in Nat
           /\ Append(q, f)[Len(q) + 1] = f
           /\ \A i \in 1 .. Len(q) : Append(q, f)[i] = q[i]
OBVIOUS

LEMMA Headed ==
    ASSUME NEW S, NEW q \in Seq(S), q # <<>>
    PROVE  /\ Tail(q) \in Seq(S) /\ Head(q) = q[1] /\ q[1] \in S /\ 1 \in DOMAIN q
           /\ Len(q) \in Nat /\ Len(q) > 0 /\ Len(Tail(q)) = Len(q) - 1
           /\ DOMAIN q = 1 .. Len(q) /\ DOMAIN Tail(q) = 1 .. Len(q) - 1
           /\ \A i \in 1 .. Len(q) - 1 : Tail(q)[i] = q[i + 1]
OBVIOUS

-----------------------------------------------------------------------------
\* The steps of the worker and what they leave alone. A request is taken off the
\* connection and decided upon, or its handler goes on; of the frames towards the
\* worker the first is read, or all are lost with the connection; and what is sent
\* back is true.
Takes(c) ==
    /\ down # <<>> /\ Head(down) = Frame("req", c) /\ down' \in {Tail(down), <<>>}
    /\ h'[c] \in {"refused", "conflict", "work"}
HandlerGoes(c) ==
    \/ h[c] = "work" /\ h'[c] = "over"
    \/ h[c] \in {"work", "over", "reply", "left"} /\ h'[c] \in {"reply", "left", "done", "killed"}
WorkerMoves ==
    /\ UNCHANGED <<frontOpen, client, caller>>
    /\ (workerOpen' => workerOpen) /\ (loop = "over" => loop' = "over")
    /\ bye = "done" => bye' = "done"
    /\ \A c \in Request : h'[c] = h[c] \/ Takes(c) \/ HandlerGoes(c)
    /\ bye = "done" => \A c \in Request : h'[c] = "work" => h[c] = "work"
    /\ \/ down' = down
       \/ /\ down # <<>> /\ down' = Tail(down)
          /\ Head(down).kind = "req" /\ Head(down).call \in Request => h'[Head(down).call] # "none"
       \/ down' = <<>> /\ ~workerOpen'
    /\ \/ up' = up
       \/ \E f \in UpFrame : /\ up' = Append(up, f) /\ UpFits(f)'
                             /\ f.kind = "bye" => \A c \in Request : h'[c] = "done" => h[c] = "done"
                             /\ f.kind = "bye" => workerOpen /\ frontOpen
    /\ \A c \in Request : h'[c] \in {"left", "done"} =>
          \/ h[c] \in {"left", "done"} \/ ~workerOpen' \/ ~frontOpen
          \/ \E f \in UpFrame : up' = Append(up, f) /\ f.call = c /\ IsTerminal(f)

LEMMA ReplyOpen ==
    ASSUME NEW f, NEW rest, Reply(f, rest), workerOpen /\ frontOpen
    PROVE  up' = Append(up, f) /\ down' = rest /\ UNCHANGED <<workerOpen, cancelled>>
BY DEF Reply
LEMMA ReplyShut ==
    ASSUME NEW f, NEW rest, Reply(f, rest), ~(workerOpen /\ frontOpen)
    PROVE  ~workerOpen' /\ down' = <<>> /\ up' = up /\ cancelled' = cancelled \cup InFlight
BY DEF Reply

LEMMA RefuseMoves ==
    ASSUME CallsInv, UNCHANGED <<client, caller>>, NEW c \in Request, Refuse(c) PROVE WorkerMoves
<1>1. h' = [h EXCEPT ![c] = "refused"] /\ h'[c] = "refused" /\ down # <<>> /\ Head(down) = Frame("req", c)
  BY Types DEF Refuse, Reads, CallsInv
<1>2. UNCHANGED <<frontOpen, alive, loop, jobs, bye, result>> /\ Reply(Frame("refused", c), Tail(down))
  BY DEF Refuse
<1>3. Frame("refused", c) \in UpFrame /\ UpFits(Frame("refused", c))' /\ Frame("refused", c).kind # "bye"
  BY <1>1, Calls DEF Frame, UpFrame, Kinds, UpFits, Before
<1>4. \A d \in Request : h'[d] = h[d] \/ d = c
  BY <1>1, Types DEF CallsInv
<1>5. Takes(c) /\ Head(down).call = c
  <2>1. down' \in {Tail(down), <<>>}
    BY <1>2 DEF Reply
  <2> QED
    BY <1>1, <2>1 DEF Takes, Frame
<1>6. CASE workerOpen /\ frontOpen
  BY <1>1, <1>2, <1>3, <1>4, <1>5, <1>6, ReplyOpen DEF WorkerMoves
<1>7. CASE ~(workerOpen /\ frontOpen)
  BY <1>1, <1>2, <1>3, <1>4, <1>5, <1>7, ReplyShut DEF WorkerMoves
<1> QED
  BY <1>6, <1>7

LEMMA ConflictMoves ==
    ASSUME CallsInv, UNCHANGED <<client, caller>>, NEW c \in Job, RefuseConflict(c) PROVE WorkerMoves
<1>0. c \in Request
  BY Calls
<1>1. h' = [h EXCEPT ![c] = "conflict"] /\ h'[c] = "conflict" /\ down # <<>> /\ Head(down) = Frame("req", c)
  BY <1>0, Types DEF RefuseConflict, Reads, CallsInv
<1>2. UNCHANGED <<frontOpen, alive, loop, jobs, bye, result>> /\ Reply(Frame("err", c), Tail(down))
  BY DEF RefuseConflict
<1>3. Frame("err", c) \in UpFrame /\ UpFits(Frame("err", c))' /\ Frame("err", c).kind # "bye"
  BY <1>0, <1>1, Calls DEF Frame, UpFrame, Kinds, UpFits, Before
<1>4. \A d \in Request : h'[d] = h[d] \/ d = c
  BY <1>1, Types DEF CallsInv
<1>5. Takes(c) /\ Head(down).call = c
  <2>1. down' \in {Tail(down), <<>>}
    BY <1>2 DEF Reply
  <2> QED
    BY <1>1, <2>1 DEF Takes, Frame
<1>6. CASE workerOpen /\ frontOpen
  BY <1>1, <1>2, <1>3, <1>4, <1>5, <1>6, ReplyOpen DEF WorkerMoves
<1>7. CASE ~(workerOpen /\ frontOpen)
  BY <1>1, <1>2, <1>3, <1>4, <1>5, <1>7, ReplyShut DEF WorkerMoves
<1> QED
  BY <1>6, <1>7

LEMMA AcceptMoves ==
    ASSUME CallsInv, UNCHANGED <<client, caller>>, NEW c \in Request, Accept(c) PROVE WorkerMoves
<1>1. h' = [h EXCEPT ![c] = "work"] /\ h'[c] = "work" /\ down # <<>> /\ Head(down) = Frame("req", c)
  BY Types DEF Accept, Reads, CallsInv
<1>2. UNCHANGED <<up, frontOpen, workerOpen, loop, bye>> /\ down' = Tail(down) /\ bye = "no"
  BY DEF Accept
<1>4. \A d \in Request : h'[d] = h[d] \/ d = c
  BY <1>1, Types DEF CallsInv
<1>5. Takes(c) /\ Head(down).call = c
  BY <1>1, <1>2 DEF Takes, Frame
<1> QED
  BY <1>1, <1>2, <1>4, <1>5 DEF WorkerMoves

LEMMA ByeMoves == ASSUME CallsInv, UNCHANGED <<client, caller>>, AcceptBye PROVE WorkerMoves
<1>1. Head(down).call \notin Request /\ down # <<>>
  BY Calls DEF AcceptBye, Reads, Frame
<1> QED
  BY <1>1 DEF AcceptBye, WorkerMoves

LEMMA CancelMoves ==
    ASSUME CallsInv, UNCHANGED <<client, caller>>, NEW c \in Request, Cancel(c) PROVE WorkerMoves
<1>1. Head(down).kind # "req" /\ down # <<>>
  BY DEF Cancel, Reads, Frame
<1> QED
  BY <1>1 DEF Cancel, WorkerMoves

LEMMA ReadErrorMoves == ASSUME CallsInv, UNCHANGED <<client, caller>>, ReadError PROVE WorkerMoves
BY DEF ReadError, WorkerMoves, wire

LEMMA ProgressMoves ==
    ASSUME CallsInv, UNCHANGED <<client, caller>>, NEW c \in Job, Progress(c) PROVE WorkerMoves
<1>1. UNCHANGED <<frontOpen, alive, loop, h, jobs, bye, result>> /\ Reply(Frame("prog", c), down)
  BY DEF Progress
<1>2. Frame("prog", c) \in UpFrame /\ UpFits(Frame("prog", c))' /\ Frame("prog", c).kind # "bye"
  BY <1>1, Calls DEF Progress, Frame, UpFrame, Kinds, UpFits, Before
<1>3. CASE workerOpen /\ frontOpen
  BY <1>1, <1>2, <1>3, ReplyOpen DEF WorkerMoves
<1>4. CASE ~(workerOpen /\ frontOpen)
  BY <1>1, <1>4, ReplyShut DEF WorkerMoves
<1> QED
  BY <1>3, <1>4

LEMMA FinishMoves ==
    ASSUME CallsInv, UNCHANGED <<client, caller>>, NEW c \in Request, FinishWork(c) PROVE WorkerMoves
<1>1. h' \in [Request -> HandlerState] /\ h[c] = "work" /\ h'[c] \in {"over", "reply"}
      /\ \A d \in Request : h'[d] = h[d] \/ d = c
  BY Types DEF FinishWork, CallsInv, HandlerState
<1>2. HandlerGoes(c)
  BY <1>1 DEF HandlerGoes
<1> QED
  BY <1>1, <1>2 DEF FinishWork, WorkerMoves, wire

LEMMA EndJobMoves ==
    ASSUME CallsInv, UNCHANGED <<client, caller>>, NEW c \in Job, EndJob(c) PROVE WorkerMoves
<1>1. h[c] = "over" /\ h'[c] = "reply" /\ \A d \in Request : h'[d] = h[d] \/ d = c
  BY Types, Calls DEF EndJob, CallsInv
<1>2. HandlerGoes(c)
  BY <1>1 DEF HandlerGoes
<1> QED
  BY <1>1, <1>2 DEF EndJob, WorkerMoves, wire

LEMMA TerminalMoves ==
    ASSUME CallsInv, UNCHANGED <<client, caller>>, NEW c \in Request, Terminal(c) PROVE WorkerMoves
<1>1. h[c] = "reply" /\ h'[c] = "left" /\ \A d \in Request : h'[d] = h[d] \/ d = c
  BY Types DEF Terminal, CallsInv
<1>2. PICK f : f = Frame(Said(c), c)
  OBVIOUS
<1>3. UNCHANGED <<frontOpen, alive, loop, jobs, bye>> /\ Reply(f, down) /\ Said(c) \in Kinds
  BY <1>1, <1>2 DEF Terminal, CallsInv, WorkerShape, Said, Kinds
<1>4. f \in UpFrame /\ f.kind \in Kinds /\ f.call = c
  BY <1>2, <1>3, Calls DEF Frame, UpFrame
<1>5. UpFits(f)' /\ IsTerminal(f) /\ f.kind # "bye"
  BY <1>1, <1>4 DEF UpFits, IsTerminal, Kinds, Before
<1>6. HandlerGoes(c)
  BY <1>1 DEF HandlerGoes
<1>7. CASE workerOpen /\ frontOpen
  BY <1>1, <1>3, <1>4, <1>5, <1>6, <1>7, ReplyOpen DEF WorkerMoves
<1>8. CASE ~(workerOpen /\ frontOpen)
  BY <1>1, <1>3, <1>6, <1>8, ReplyShut DEF WorkerMoves
<1> QED
  BY <1>7, <1>8

LEMMA LeaveMoves ==
    ASSUME CallsInv, UNCHANGED <<client, caller>>, NEW c \in Request, Leave(c) PROVE WorkerMoves
<1>1. h[c] = "left" /\ h'[c] = "done" /\ \A d \in Request : h'[d] = h[d] \/ d = c
  BY Types DEF Leave, CallsInv
<1>2. HandlerGoes(c)
  BY <1>1 DEF HandlerGoes
<1> QED
  BY <1>1, <1>2 DEF Leave, WorkerMoves, wire

LEMMA AnswerByeMoves == ASSUME CallsInv, UNCHANGED <<client, caller>>, AnswerBye PROVE WorkerMoves
<1>1. UNCHANGED <<frontOpen, alive, loop, h, jobs, cancelled, result>> /\ InFlight = {} /\ bye' = "done"
      /\ down' = <<>> /\ workerOpen' = FALSE /\ bye = "wait"
  BY DEF AnswerBye
<1>2. Frame("bye", Bye) \in UpFrame /\ Frame("bye", Bye).kind = "bye" /\ Frame("bye", Bye).call = Bye
  BY Calls DEF Frame, UpFrame
<1>3. InFlight' = {} /\ UNCHANGED pc
  BY <1>1 DEF InFlight, caller
<1>4. UpFits(Frame("bye", Bye))'
  BY <1>1, <1>2, <1>3 DEF UpFits, CallsInv, WorkerShape, Kinds
<1>5. CASE workerOpen /\ frontOpen
  BY <1>1, <1>2, <1>4, <1>5 DEF AnswerBye, WorkerMoves
<1>6. CASE ~(workerOpen /\ frontOpen)
  BY <1>1, <1>6 DEF AnswerBye, WorkerMoves
<1> QED
  BY <1>5, <1>6

LEMMA DiesMoves == ASSUME CallsInv, UNCHANGED <<client, caller>>, Dies PROVE WorkerMoves
<1>1. \A c \in Request : h'[c] = h[c] \/ HandlerGoes(c)
  BY DEF Dies, HandlerGoes, InFlight
<1>2. \A c \in Request : h'[c] \notin {"left", "done", "work"} \/ h'[c] = h[c]
  BY DEF Dies
<1> QED
  BY <1>1, <1>2 DEF Dies, WorkerMoves

LEMMA WorkerStepMoves ==
    ASSUME CallsInv, SessionNext \/ Dies, UNCHANGED <<client, caller>> PROVE WorkerMoves
<1>1. CASE Loop
  BY <1>1, RefuseMoves, ConflictMoves, AcceptMoves, ByeMoves, CancelMoves, ReadErrorMoves DEF Loop
<1>2. CASE \E c \in Job : Progress(c)
  BY <1>2, ProgressMoves
<1>3. CASE \E c \in Request : FinishWork(c) \/ Returns(c)
  BY <1>3, FinishMoves, EndJobMoves, TerminalMoves, LeaveMoves DEF Returns
<1>4. CASE AnswerBye \/ Exit \/ Dies
  BY <1>4, AnswerByeMoves, DiesMoves DEF Exit
<1> QED
  BY <1>1, <1>2, <1>3, <1>4 DEF SessionNext

-----------------------------------------------------------------------------
\* What every step of the worker keeps.
LEMMA ReadOnce ==
    ASSUME CallsInv, NEW c \in Request, Takes(c)
    PROVE  h[c] = "none" /\ down # <<>> /\ Sent(c) /\ pc[c] \notin {"idle", "reg"}
<1>1. down \in Seq(DownFrame) /\ down # <<>> /\ Head(down) = Frame("req", c)
  BY Types DEF Takes, CallsInv
<1>2. 1 \in DOMAIN down /\ down[1] = Frame("req", c)
  BY <1>1, Headed
<1> QED
  BY <1>1, <1>2 DEF CallsInv, DownShape, Sent, Frame

LEMMA HandlersKeep ==
    ASSUME CallsInv, WorkerMoves
    PROVE  /\ \A c \in Request : h[c] # "none" => h'[c] # "none"
           /\ \A c \in Request : h[c] \notin Before => h'[c] \notin Before
           /\ bye = "done" /\ InFlight = {} => bye' = "done" /\ InFlight' = {}
           /\ bye = "done" /\ InFlight = {} => \A c \in Request : h'[c] = "done" => h[c] = "done"
<1>1. \A c \in Request : h'[c] = h[c] \/ (h[c] = "none" /\ Takes(c)) \/ HandlerGoes(c)
  BY ReadOnce DEF WorkerMoves
<1>2. bye = "done" => \A c \in Request : h'[c] = "work" => h[c] = "work"
  BY DEF WorkerMoves
<1>3. bye = "done" => bye' = "done"
  BY DEF WorkerMoves
<1>4. \A c \in Request : h[c] # "none" => h'[c] # "none"
  BY <1>1 DEF HandlerGoes
<1>5. \A c \in Request : h[c] \notin Before => h'[c] \notin Before
  BY <1>1 DEF HandlerGoes, Before
<1>6. bye = "done" /\ InFlight = {} => \A c \in Request : h[c] \notin {"work", "over", "reply", "left"}
  BY DEF InFlight
<1>7. bye = "done" /\ InFlight = {} =>
        \A c \in Request : h'[c] \notin {"work", "over", "reply", "left"} /\ (h'[c] = "done" => h[c] = "done")
  BY <1>1, <1>2, <1>6 DEF HandlerGoes, Takes
<1>8. bye = "done" /\ InFlight = {} => InFlight' = {}
  BY <1>7 DEF InFlight
<1> QED
  BY <1>3, <1>4, <1>5, <1>7, <1>8

LEMMA FarewellKept == ASSUME CallsInv, WorkerMoves, Farewell PROVE Farewell'
BY HandlersKeep DEF Farewell, WorkerMoves, client

\* What is new on the worker was on its way to it.
LEMMA OnWorkerFalls ==
    ASSUME CallsInv, WorkerMoves, NEW c \in Request, OnWorker(c)' PROVE OnWorker(c)
<1>1. CASE h'[c] \in {"work", "over"}
  BY <1>1, ReadOnce DEF WorkerMoves, HandlerGoes, OnWorker
<1>2. CASE Sent(c)'
  <2>1. CASE down' = down
    BY <1>2, <2>1 DEF Sent, OnWorker
  <2>2. CASE down # <<>> /\ down' = Tail(down)
    <3>1. down \in Seq(DownFrame)
      BY Types DEF CallsInv
    <3>2. PICK i \in DOMAIN down' : down'[i] = Frame("req", c)
      BY <1>2 DEF Sent
    <3>3. i + 1 \in DOMAIN down /\ down[i + 1] = Frame("req", c)
      BY <2>2, <3>1, <3>2, Headed
    <3> QED
      BY <3>3 DEF Sent, OnWorker
  <2>3. CASE down' = <<>>
    BY <1>2, <2>3 DEF Sent
  <2> QED
    BY <2>1, <2>2, <2>3 DEF WorkerMoves
<1> QED
  BY <1>1, <1>2 DEF OnWorker

LEMMA WorkerChans == ASSUME CallsInv, WorkerMoves PROVE ChanShape' /\ CallShape' /\ OwnsFile' /\ ByeShape'
<1>1. UNCHANGED <<dead, table, chan, pc, outcome, ended, opened>>
  BY DEF WorkerMoves, client, caller
<1>2. CallShape' /\ OwnsFile'
  BY <1>1 DEF CallsInv, CallShape, CallFits, OwnsFile, Owned
<1>3. ByeShape'
  BY <1>1, FarewellKept DEF CallsInv, ByeShape
<1>4. ASSUME NEW c \in Call PROVE ChanFits(c)'
  <2>1. ChanFits(c)
    BY DEF CallsInv, ChanShape
  <2> QED
    BY <1>1, <2>1, HandlersKeep, FarewellKept DEF ChanFits
<1> QED
  BY <1>2, <1>3, <1>4 DEF ChanShape

LEMMA WorkerUps == ASSUME CallsInv, WorkerMoves PROVE UpShape'
<1>0. up \in Seq(UpFrame) /\ DOMAIN up = 1 .. Len(up) /\ Len(up) \in Nat
  BY Types DEF CallsInv
<1>1. UNCHANGED <<frontOpen, table, pc>>
  BY DEF WorkerMoves, client, caller
<1>2. ASSUME NEW i \in DOMAIN up PROVE UpFits(up[i])
  BY DEF CallsInv, UpShape
<1>3. ASSUME NEW i \in DOMAIN up, NEW f, f = up[i] PROVE UpFits(f)'
  <2>1. UpFits(f)
    BY <1>2, <1>3
  <2> QED
    BY <1>1, <2>1, HandlersKeep, Calls DEF UpFits
<1>4. ASSUME NEW i \in DOMAIN up, up[i].kind = "bye", NEW c \in Request, h'[c] = "done", c \in table
      PROVE  Answered(c, i - 1)
  <2>1. h[c] = "done"
    BY <1>2, <1>4, HandlersKeep DEF UpFits
  <2> QED
    BY <1>4, <2>1 DEF CallsInv, UpShape
<1>5. CASE up' = up
  BY <1>0, <1>1, <1>3, <1>4, <1>5 DEF UpShape, Answered
<1>6. ASSUME NEW f \in UpFrame, up' = Append(up, f), UpFits(f)',
             f.kind = "bye" => \A c \in Request : h'[c] = "done" => h[c] = "done",
             f.kind = "bye" => workerOpen /\ frontOpen
      PROVE  UpShape'
  <2>1. /\ DOMAIN up' = 1 .. Len(up) + 1 /\ up'[Len(up) + 1] = f
        /\ \A i \in 1 .. Len(up) : up'[i] = up[i]
    BY <1>0, <1>6, Appended
  <2>2. ASSUME NEW c \in Request, NEW n \in 0 .. Len(up), Answered(c, n) PROVE Answered(c, n)'
    BY <1>0, <2>1, <2>2 DEF Answered
  <2>3. ASSUME NEW i \in DOMAIN up', i # Len(up) + 1
        PROVE  /\ UpFits(up[i])'
               /\ up'[i].kind = "bye" =>
                     \A c \in Request : h'[c] = "done" /\ c \in table' => Answered(c, i - 1)'
    <3>1. i \in DOMAIN up /\ up'[i] = up[i] /\ i - 1 \in 0 .. Len(up)
      BY <1>0, <2>1, <2>3
    <3>2. PICK g : g = up[i]
      OBVIOUS
    <3> QED
      BY <1>1, <1>3, <1>4, <2>2, <3>1, <3>2
  <2>4. PICK n : n = Len(up)
    OBVIOUS
  <2>5. ASSUME f.kind = "bye", NEW c \in Request, h'[c] = "done", c \in table'
        PROVE  Answered(c, n)'
    <3>1. h[c] = "done" /\ c \in table /\ workerOpen /\ frontOpen
      BY <1>1, <1>6, <2>5
    <3>2. Answered(c, n)
      BY <2>4, <3>1 DEF CallsInv, SentBack
    <3>3. n \in 0 .. Len(up)
      BY <1>0, <2>4
    <3> QED
      BY <2>2, <3>2, <3>3
  <2>6. ASSUME NEW i \in DOMAIN up'
        PROVE  /\ UpFits(up[i])'
               /\ up'[i].kind = "bye" =>
                     \A c \in Request : h'[c] = "done" /\ c \in table' => Answered(c, i - 1)'
    <3>1. CASE i = n + 1
      <4>1. up'[i] = f /\ i - 1 = n
        BY <1>0, <2>1, <2>4, <3>1
      <4> QED
        BY <1>6, <2>5, <4>1
    <3>2. CASE i # n + 1
      BY <2>3, <2>4, <3>2
    <3> QED
      BY <3>1, <3>2
  <2> QED
    BY <2>6 DEF UpShape
<1> QED
  BY <1>5, <1>6 DEF WorkerMoves

\* A frame that is still on its way was on its way, one place further back at most.
LEMMA StillDown ==
    ASSUME CallsInv, WorkerMoves, down' # <<>>
    PROVE  \E k \in {0, 1} :
              /\ \A i \in DOMAIN down' : i + k \in DOMAIN down /\ down'[i] = down[i + k]
              /\ \A i \in DOMAIN down : i > k => i - k \in DOMAIN down' /\ down'[i - k] = down[i]
              /\ \A i \in DOMAIN down : i <= k /\ down[i].kind = "req" /\ down[i].call \in Request =>
                     h'[down[i].call] # "none"
              /\ DOMAIN down \subseteq Nat /\ DOMAIN down' \subseteq Nat
<1>1. down \in Seq(DownFrame) /\ DOMAIN down = 1 .. Len(down) /\ Len(down) \in Nat
  BY Types DEF CallsInv
<1>2. CASE down' = down
  <2>1. /\ \A i \in DOMAIN down' : i + 0 \in DOMAIN down /\ down'[i] = down[i + 0]
        /\ \A i \in DOMAIN down : i > 0 => i - 0 \in DOMAIN down' /\ down'[i - 0] = down[i]
        /\ \A i \in DOMAIN down : ~(i <= 0)
        /\ DOMAIN down \subseteq Nat
    BY <1>1, <1>2
  <2> QED
    BY <1>2, <2>1
<1>3. CASE /\ down # <<>> /\ down' = Tail(down)
           /\ Head(down).kind = "req" /\ Head(down).call \in Request => h'[Head(down).call] # "none"
  <2>1. /\ \A i \in DOMAIN down' : i + 1 \in DOMAIN down /\ down'[i] = down[i + 1]
        /\ \A i \in DOMAIN down : i > 1 => i - 1 \in DOMAIN down' /\ down'[i - 1] = down[i]
        /\ \A i \in DOMAIN down : i <= 1 => down[i] = Head(down)
        /\ DOMAIN down \subseteq Nat /\ DOMAIN down' \subseteq Nat
    BY <1>1, <1>3, Headed
  <2> QED
    BY <1>3, <2>1
<1> QED
  BY <1>2, <1>3 DEF WorkerMoves

LEMMA WorkerDowns == ASSUME CallsInv, WorkerMoves PROVE DownShape'
<1>1. CASE down' = <<>>
  BY <1>1 DEF DownShape
<1>2. CASE down' # <<>>
  <2>1. PICK k \in {0, 1} :
              /\ \A i \in DOMAIN down' : i + k \in DOMAIN down /\ down'[i] = down[i + k]
              /\ \A i \in DOMAIN down : i > k => i - k \in DOMAIN down' /\ down'[i - k] = down[i]
              /\ \A i \in DOMAIN down : i <= k /\ down[i].kind = "req" /\ down[i].call \in Request =>
                     h'[down[i].call] # "none"
              /\ DOMAIN down \subseteq Nat /\ DOMAIN down' \subseteq Nat
    BY <1>2, StillDown
  <2>2. UNCHANGED <<pc, ended>>
    BY DEF WorkerMoves, caller
  <2>3. SUFFICES ASSUME NEW i \in DOMAIN down', NEW f, f = down'[i]
        PROVE  /\ f.kind = "req" =>
                     /\ pc[f.call] \notin {"idle", "reg"}
                     /\ f.call \in Request => h'[f.call] = "none"
                     /\ \A j \in DOMAIN down' : down'[j] = f => i = j
               /\ f.kind = "cancel" =>
                     /\ f.call \in Request /\ f.call \in ended
                     /\ \/ h'[f.call] # "none"
                        \/ \E j \in DOMAIN down' : j < i /\ down'[j] = Frame("req", f.call)
    BY <2>2 DEF DownShape
  <2>4. i + k \in DOMAIN down /\ f = down[i + k] /\ i \in Nat
    BY <2>1, <2>3
  <2>5. ASSUME f.kind = "req", f.call \in Request PROVE h'[f.call] = "none"
    <3>1. h[f.call] = "none" /\ (\A j \in DOMAIN down : down[j] = f => i + k = j)
      BY <2>4, <2>5 DEF CallsInv, DownShape
    <3>2. SUFFICES ASSUME Takes(f.call) PROVE FALSE
      BY <2>5, <3>1 DEF WorkerMoves, HandlerGoes
    <3>3. down # <<>> /\ Head(down) = Frame("req", f.call) /\ f = Frame("req", f.call)
      <4>1. f \in DownFrame
        BY <2>4, Types DEF CallsInv
      <4> QED
        BY <2>5, <3>2, <4>1 DEF Takes, DownFrame, Frame
    <3>4. 1 \in DOMAIN down /\ down[1] = f
      BY <3>3, Types, Headed DEF CallsInv
    <3>5. down' = Tail(down) /\ down \in Seq(DownFrame)
      BY <1>2, <3>2, Types DEF Takes, CallsInv
    <3>6. i + 1 \in DOMAIN down /\ down[i + 1] = f /\ i + 1 # 1
      BY <2>3, <3>3, <3>5, Headed
    <3>7. f.kind = "req" => \A j, l \in DOMAIN down : down[j] = f /\ down[l] = f => j = l
      BY DEF CallsInv, DownShape
    <3> QED
      BY <2>5, <3>4, <3>6, <3>7
  <2>6. ASSUME f.kind = "req" PROVE pc[f.call] \notin {"idle", "reg"} /\ \A j \in DOMAIN down' : down'[j] = f => i = j
    BY <2>1, <2>4, <2>6 DEF CallsInv, DownShape
  <2>7. ASSUME f.kind = "cancel"
        PROVE  /\ f.call \in Request /\ f.call \in ended
               /\ \/ h'[f.call] # "none"
                  \/ \E j \in DOMAIN down' : j < i /\ down'[j] = Frame("req", f.call)
    <3>1. f.call \in Request /\ f.call \in ended
      BY <2>4, <2>7 DEF CallsInv, DownShape
    <3>2. CASE h[f.call] # "none"
      BY <3>1, <3>2, HandlersKeep
    <3>3. CASE \E j \in DOMAIN down : j < i + k /\ down[j] = Frame("req", f.call)
      <4>1. PICK j \in DOMAIN down : j < i + k /\ down[j] = Frame("req", f.call)
        BY <3>3
      <4>2. CASE j <= k
        <5>1. down[j].kind = "req" /\ down[j].call = f.call
          BY <4>1 DEF Frame
        <5> QED
          BY <2>1, <3>1, <4>1, <4>2, <5>1
      <4>3. CASE j > k
        <5>1. j - k \in DOMAIN down' /\ down'[j - k] = Frame("req", f.call) /\ j - k < i
          BY <2>1, <2>4, <4>1, <4>3
        <5> QED
          BY <3>1, <5>1
      <4> QED
        BY <2>1, <4>2, <4>3
    <3> QED
      BY <2>4, <2>7, <3>1, <3>2, <3>3 DEF CallsInv, DownShape
  <2> QED
    BY <2>5, <2>6, <2>7
<1> QED
  BY <1>1, <1>2

LEMMA WorkerArrives == ASSUME CallsInv, WorkerMoves PROVE Arrives'
<1>1. UNCHANGED pc /\ (workerOpen' => workerOpen)
  BY DEF WorkerMoves, caller
<1>2. SUFFICES ASSUME NEW c \in Request, pc[c] \in Written, workerOpen', h'[c] = "none" PROVE Sent(c)'
  BY <1>1 DEF Arrives
<1>3. Sent(c) /\ h[c] = "none"
  BY <1>1, <1>2, HandlersKeep DEF CallsInv, Arrives
<1>4. down # <<>> /\ down \in Seq(DownFrame)
  BY <1>3, Types DEF Sent, CallsInv
<1>5. CASE down' = down
  BY <1>3, <1>5 DEF Sent
<1>6. CASE /\ down' = Tail(down)
           /\ Head(down).kind = "req" /\ Head(down).call \in Request => h'[Head(down).call] # "none"
  <2>1. PICK i \in DOMAIN down : down[i] = Frame("req", c)
    BY <1>3 DEF Sent
  <2>2. i # 1
    BY <1>2, <1>4, <1>6, <2>1, Headed DEF Frame
  <2>3. i - 1 \in DOMAIN down' /\ down'[i - 1] = Frame("req", c)
    BY <1>4, <1>6, <2>1, <2>2, Headed
  <2> QED
    BY <2>3 DEF Sent
<1> QED
  BY <1>2, <1>5, <1>6 DEF WorkerMoves

LEMMA WorkerBacks == ASSUME CallsInv, WorkerMoves PROVE SentBack'
<1>0. up \in Seq(UpFrame) /\ DOMAIN up = 1 .. Len(up) /\ Len(up) \in Nat
  BY Types DEF CallsInv
<1>1. UNCHANGED <<frontOpen, table>> /\ (workerOpen' => workerOpen)
  BY DEF WorkerMoves, client
<1>2. SUFFICES ASSUME workerOpen', frontOpen, NEW c \in Request, h'[c] \in {"left", "done"}, c \in table,
                      NEW n, n = Len(up')
               PROVE  Answered(c, n)'
  BY <1>1 DEF SentBack
<1>3. CASE h[c] \in {"left", "done"}
  <2>1. Answered(c, Len(up))
    BY <1>1, <1>2, <1>3 DEF CallsInv, SentBack
  <2>2. CASE up' = up
    BY <1>2, <2>1, <2>2 DEF Answered
  <2>3. CASE \E f \in UpFrame : up' = Append(up, f)
    <3>1. /\ DOMAIN up' = 1 .. Len(up) + 1 /\ n = Len(up) + 1
          /\ \A i \in 1 .. Len(up) : up'[i] = up[i]
      BY <1>0, <1>2, <2>3, Appended
    <3> QED
      BY <1>0, <2>1, <3>1 DEF Answered
  <2> QED
    BY <2>2, <2>3 DEF WorkerMoves
<1>4. CASE \E f \in UpFrame : up' = Append(up, f) /\ f.call = c /\ IsTerminal(f)
  <2>1. /\ DOMAIN up' = 1 .. Len(up) + 1 /\ n = Len(up) + 1
        /\ up'[n].call = c /\ IsTerminal(up'[n])
    BY <1>0, <1>2, <1>4, Appended
  <2>2. n \in 1 .. n /\ n \in DOMAIN up'
    BY <1>0, <2>1
  <2> QED
    BY <2>1, <2>2 DEF Answered, IsTerminal
<1> QED
  BY <1>2, <1>3, <1>4 DEF WorkerMoves

LEMMA WorkerLeaves == ASSUME CallsInv, WorkerMoves PROVE Left' /\ JobEndIsHonest'
<1>1. UNCHANGED <<pc, dead, frontOpen, outcome, doomed>>
  BY DEF WorkerMoves, client, caller
<1>2. \A c \in Job : c \in Request
  BY Calls
<1>3. Left'
  BY <1>1, <1>2, OnWorkerFalls DEF CallsInv, Left
<1>4. JobEndIsHonest'
  BY <1>1, <1>2, HandlersKeep DEF CallsInv, JobEndIsHonest, Before
<1> QED
  BY <1>3, <1>4

LEMMA WorkerClash == ASSUME CallsInv, WorkerMoves PROVE Clash'
<1>1. UNCHANGED <<pc, clashed, frontOpen>>
  BY DEF WorkerMoves, client, caller
<1>2. SUFFICES ASSUME NEW c \in Job, NEW d \in Job, SameName(c, d) PROVE Apart(c, d)'
  BY DEF Clash, SameName
<1>3. Apart(c, d) /\ c \in Request /\ d \in Request
  BY <1>2, Calls DEF CallsInv, Clash
<1>4. (Live(c) /\ Live(d) => c \in clashed)'
  BY <1>1, <1>3 DEF Apart, Live
<1>5. (pc[d] = "reg" /\ (c \notin clashed \/ d \notin clashed) => ~OnWorker(c) \/ ~frontOpen)'
  BY <1>1, <1>3, OnWorkerFalls DEF Apart
<1>6. (c \notin clashed => ~(OnWorker(c) /\ OnWorker(d)))'
  BY <1>1, <1>3, OnWorkerFalls DEF Apart
<1>7. ASSUME c \notin clashed, NEW i \in DOMAIN down', down'[i] = Frame("cancel", d)
      PROVE  h'[c] \notin {"work", "over"} /\ \A j \in DOMAIN down' : down'[j] = Frame("req", c) => i < j
  <2>1. down' # <<>> /\ down \in Seq(DownFrame)
    BY <1>7, Types DEF CallsInv
  <2>2. PICK k \in {0, 1} :
              /\ \A j \in DOMAIN down' : j + k \in DOMAIN down /\ down'[j] = down[j + k]
              /\ DOMAIN down \subseteq Nat /\ DOMAIN down' \subseteq Nat
    BY <2>1, StillDown
  <2>3. /\ h[c] \notin {"work", "over"}
        /\ \A j \in DOMAIN down : down[j] = Frame("req", c) => i + k < j
    BY <1>3, <1>7, <2>2 DEF Apart
  <2>4. \A j \in DOMAIN down' : down'[j] = Frame("req", c) => i < j
    BY <1>7, <2>2, <2>3
  <2>5. ~Takes(c)
    <3>1. SUFFICES ASSUME Takes(c) PROVE FALSE
      OBVIOUS
    <3>2. 1 \in DOMAIN down /\ down[1] = Frame("req", c) /\ \A j \in DOMAIN down : j >= 1
      BY <2>1, <3>1, Headed DEF Takes
    <3> QED
      BY <1>7, <2>2, <2>3, <3>2
  <2>6. h'[c] \notin {"work", "over"}
    BY <1>3, <2>3, <2>5 DEF WorkerMoves, HandlerGoes
  <2> QED
    BY <2>4, <2>6
<1> QED
  BY <1>1, <1>4, <1>5, <1>6, <1>7 DEF Apart

-----------------------------------------------------------------------------
\* What the worker keeps step by step: its handlers and the table of its jobs.
WorkerKnows ==
    /\ \A c \in Request :
          /\ h[c] # "none" => pc[c] \notin {"idle", "reg"}
          /\ h[c] \in {"over", "reply"} => result[c] \in Kinds
          /\ h[c] = "over" => c \in Job
    /\ bye = "wait" => pc[Bye] \notin {"idle", "reg"}
Registered ==
    /\ \A c \in Job : h[c] \in {"work", "over"} => jobs[NameOf[c]] = c
    /\ \A n \in JobID : jobs[n] # None =>
          NameOf[jobs[n]] = n /\ h[jobs[n]] \in {"work", "over"}

LEMMA Known ==
    ASSUME CallsInv
    PROVE  /\ WorkerKnows /\ Registered
           /\ \A c \in Request : h[c] # "none" => pc[c] \notin {"idle", "reg"}
           /\ \A c \in Job : h[c] \in {"work", "over"} => jobs[NameOf[c]] = c
           /\ \A n \in JobID : jobs[n] # None =>
                  jobs[n] \in Job /\ NameOf[jobs[n]] = n /\ h[jobs[n]] \in {"work", "over"}
BY Types DEF CallsInv, WorkerShape, WorkerKnows, Registered

LEMMA KnownNext == ASSUME WorkerKnows', Registered' PROVE WorkerShape'
BY DEF WorkerShape, WorkerKnows, Registered

\* Who takes a request off the connection finds its caller beyond the write.
LEMMA KnowsTaken ==
    ASSUME CallsInv, UNCHANGED <<pc, result, bye>>, NEW c \in Request, Takes(c),
           \A d \in Request : d = c \/ h'[d] = h[d]
    PROVE  WorkerKnows'
<1>1. pc[c] \notin {"idle", "reg"} /\ h'[c] \notin {"over", "reply"}
  BY ReadOnce DEF Takes
<1> QED
  BY <1>1, Known DEF WorkerKnows

LEMMA RefuseKnows ==
    ASSUME CallsInv, UNCHANGED caller, NEW c \in Request, Refuse(c) PROVE WorkerShape'
<1>1. /\ h'[c] = "refused" /\ (\A d \in Request : d = c \/ h'[d] = h[d])
      /\ UNCHANGED <<pc, result, bye, jobs>>
  BY Types DEF Refuse, CallsInv, caller
<1>2. Takes(c)
  BY <1>1 DEF Refuse, Reads, Takes, Reply
<1>3. h[c] = "none"
  BY <1>2, ReadOnce
<1>4. WorkerKnows'
  BY <1>1, <1>2, KnowsTaken
<1>5. Registered'
  BY <1>1, <1>3, Known, Calls DEF Registered
<1> QED
  BY <1>4, <1>5, KnownNext

LEMMA ConflictKnows ==
    ASSUME CallsInv, UNCHANGED caller, NEW c \in Job, RefuseConflict(c) PROVE WorkerShape'
<1>1. /\ h'[c] = "conflict" /\ (\A d \in Request : d = c \/ h'[d] = h[d]) /\ c \in Request
      /\ UNCHANGED <<pc, result, bye, jobs>>
  BY Types, Calls DEF RefuseConflict, CallsInv, caller
<1>2. Takes(c)
  BY <1>1 DEF RefuseConflict, Reads, Takes, Reply
<1>3. h[c] = "none"
  BY <1>1, <1>2, ReadOnce
<1>4. WorkerKnows'
  BY <1>1, <1>2, KnowsTaken
<1>5. Registered'
  BY <1>1, <1>3, Known, Calls DEF Registered
<1> QED
  BY <1>4, <1>5, KnownNext

LEMMA AcceptKnows ==
    ASSUME CallsInv, UNCHANGED caller, NEW c \in Request, Accept(c) PROVE WorkerShape'
<1>1. /\ h'[c] = "work" /\ (\A d \in Request : d = c \/ h'[d] = h[d])
      /\ UNCHANGED <<pc, result, bye>>
  BY Types DEF Accept, CallsInv, caller
<1>2. Takes(c)
  BY <1>1 DEF Accept, Reads, Takes
<1>3. h[c] = "none"
  BY <1>2, ReadOnce
<1>4. WorkerKnows'
  BY <1>1, <1>2, KnowsTaken
<1>5. ASSUME c \notin Job PROVE Registered'
  <2>1. jobs' = jobs
    BY <1>5 DEF Accept
  <2>2. \A d \in Job : d \in Request /\ h'[d] = h[d]
    BY <1>1, <1>5, Calls
  <2> QED
    BY <2>1, <2>2, Known DEF Registered
<1>6. ASSUME c \in Job PROVE Registered'
  <2>1. jobs' = [jobs EXCEPT ![NameOf[c]] = c] /\ jobs[NameOf[c]] = None /\ NameOf[c] \in JobID
    BY <1>6, Calls DEF Accept
  <2>2. jobs'[NameOf[c]] = c /\ \A n \in JobID : n = NameOf[c] \/ jobs'[n] = jobs[n]
    BY <2>1, Types DEF CallsInv
  <2>3. \A d \in Job : d # c /\ h'[d] \in {"work", "over"} => jobs'[NameOf[d]] = d
    BY <1>1, <2>1, <2>2, Known, Calls
  <2>4. \A n \in JobID : n # NameOf[c] /\ jobs'[n] # None =>
           NameOf[jobs'[n]] = n /\ h'[jobs'[n]] \in {"work", "over"}
    BY <1>1, <1>3, <2>2, Known, Calls
  <2>5. \A d \in Job : h'[d] \in {"work", "over"} => jobs'[NameOf[d]] = d
    BY <2>2, <2>3
  <2>6. ASSUME NEW n \in JobID, jobs'[n] # None
        PROVE  NameOf[jobs'[n]] = n /\ h'[jobs'[n]] \in {"work", "over"}
    BY <1>1, <2>2, <2>4, <2>6
  <2> QED
    BY <2>5, <2>6 DEF Registered
<1> QED
  BY <1>4, <1>5, <1>6, KnownNext

LEMMA AcceptByeKnows == ASSUME CallsInv, UNCHANGED caller, AcceptBye PROVE WorkerShape'
<1>1. pc[Bye] \notin {"idle", "reg"}
  <2>1. down \in Seq(DownFrame) /\ down # <<>> /\ Head(down) = Frame("req", Bye)
    BY Types DEF AcceptBye, Reads, CallsInv
  <2>2. 1 \in DOMAIN down /\ down[1] = Frame("req", Bye)
    BY <2>1, Headed
  <2> QED
    BY <2>2 DEF CallsInv, DownShape, Frame
<1>2. UNCHANGED <<h, pc, jobs, result>>
  BY DEF AcceptBye, caller
<1> QED
  BY <1>1, <1>2 DEF CallsInv, WorkerShape

\* Steps that move no handler.
LEMMA QuietKnows ==
    ASSUME CallsInv, UNCHANGED <<h, pc, jobs, result>>, bye' # "wait" \/ bye' = bye PROVE WorkerShape'
BY DEF CallsInv, WorkerShape

LEMMA FinishKnows ==
    ASSUME CallsInv, UNCHANGED caller, NEW c \in Request, FinishWork(c) PROVE WorkerShape'
<1>1. /\ h[c] = "work" /\ h'[c] = (IF c \in Job THEN "over" ELSE "reply")
      /\ result'[c] \in Kinds
      /\ (\A d \in Request : d = c \/ (h'[d] = h[d] /\ result'[d] = result[d]))
      /\ UNCHANGED <<pc, bye, jobs>>
  BY Types DEF FinishWork, CallsInv, caller, Kinds
<1>2. WorkerKnows'
  BY <1>1, Known DEF WorkerKnows
<1>3. Registered'
  BY <1>1, Known, Calls DEF Registered
<1> QED
  BY <1>2, <1>3, KnownNext

LEMMA EndJobKnows == ASSUME CallsInv, UNCHANGED caller, NEW c \in Job, EndJob(c) PROVE WorkerShape'
<1>1. /\ h[c] = "over" /\ h'[c] = "reply" /\ (\A d \in Request : d = c \/ h'[d] = h[d])
      /\ UNCHANGED <<pc, bye, result>> /\ c \in Request /\ NameOf[c] \in JobID
  BY Types, Calls DEF EndJob, CallsInv, caller
<1>2. jobs[NameOf[c]] = c
  BY <1>1, Known
<1>3. jobs'[NameOf[c]] = None /\ \A n \in JobID : n = NameOf[c] \/ jobs'[n] = jobs[n]
  BY <1>1, <1>2, Types DEF EndJob, CallsInv
<1>4. WorkerKnows'
  BY <1>1, Known DEF WorkerKnows
<1>5. \A d \in Job : h'[d] \in {"work", "over"} => jobs'[NameOf[d]] = d
  BY <1>1, <1>2, <1>3, Known, Calls
<1>6. \A n \in JobID : jobs'[n] # None => NameOf[jobs'[n]] = n /\ h'[jobs'[n]] \in {"work", "over"}
  BY <1>1, <1>2, <1>3, Known, Calls
<1> QED
  BY <1>4, <1>5, <1>6, KnownNext DEF Registered

LEMMA TerminalKnows ==
    ASSUME CallsInv, UNCHANGED caller, NEW c \in Request, Terminal(c) PROVE WorkerShape'
<1>1. /\ h[c] = "reply" /\ h'[c] = "left"
      /\ (\A d \in Request : d = c \/ (h'[d] = h[d] /\ result'[d] = result[d]))
      /\ UNCHANGED <<pc, bye, jobs>>
  BY Types DEF Terminal, CallsInv, caller
<1>2. WorkerKnows'
  BY <1>1, Known DEF WorkerKnows
<1>3. Registered'
  BY <1>1, Known, Calls DEF Registered
<1> QED
  BY <1>2, <1>3, KnownNext

LEMMA LeaveKnows == ASSUME CallsInv, UNCHANGED caller, NEW c \in Request, Leave(c) PROVE WorkerShape'
<1>1. /\ h[c] = "left" /\ h'[c] = "done" /\ (\A d \in Request : d = c \/ h'[d] = h[d])
      /\ UNCHANGED <<pc, bye, result, jobs>>
  BY Types DEF Leave, CallsInv, caller
<1>2. WorkerKnows'
  BY <1>1, Known DEF WorkerKnows
<1>3. Registered'
  BY <1>1, Known, Calls DEF Registered
<1> QED
  BY <1>2, <1>3, KnownNext

LEMMA DiesKnows == ASSUME CallsInv, UNCHANGED caller, Dies PROVE WorkerShape'
<1>1. \A c \in Request : h'[c] \notin {"work", "over", "reply"} /\ (h'[c] # "none" => h[c] # "none")
  BY DEF Dies, InFlight
<1>2. pc' = pc /\ bye' = "done" /\ \A n \in JobID : jobs'[n] = None
  BY DEF Dies, caller
<1>3. WorkerKnows'
  BY <1>1, <1>2, Known DEF WorkerKnows
<1>4. Registered'
  BY <1>1, <1>2, Calls DEF Registered
<1> QED
  BY <1>3, <1>4, KnownNext

LEMMA WorkerKnowsNext ==
    ASSUME CallsInv, SessionNext \/ Dies, UNCHANGED <<client, caller>> PROVE WorkerShape'
<1>1. ASSUME NEW c \in Request, Cancel(c) PROVE WorkerShape'
  BY <1>1, QuietKnows DEF Cancel, caller
<1>2. ASSUME ReadError PROVE WorkerShape'
  BY <1>2, QuietKnows DEF ReadError, caller
<1>3. CASE Loop
  BY <1>1, <1>2, <1>3, RefuseKnows, ConflictKnows, AcceptKnows, AcceptByeKnows DEF Loop
<1>4. CASE \E c \in Job : Progress(c)
  BY <1>4, QuietKnows DEF Progress, caller
<1>5. CASE \E c \in Request : FinishWork(c) \/ Returns(c)
  BY <1>5, FinishKnows, EndJobKnows, TerminalKnows, LeaveKnows DEF Returns
<1>6. CASE AnswerBye
  BY <1>6, QuietKnows DEF AnswerBye, caller
<1>7. CASE Exit \/ Dies
  BY <1>7, DiesKnows DEF Exit
<1> QED
  BY <1>3, <1>4, <1>5, <1>6, <1>7 DEF SessionNext

-----------------------------------------------------------------------------
\* What a name that is used again rests on.
LEMMA ReuseKept ==
    ASSUME CallsInv, UNCHANGED <<ended, clashed>>, workerOpen' => workerOpen,
           loop = "over" => loop' = "over",
           \A c \in Job \ clashed : h'[c] = "conflict" => h[c] = "conflict",
           \A c \in Job \ clashed : c \in cancelled' =>
               c \in cancelled \/ c \in ended \/ loop' = "over" \/ ~workerOpen'
    PROVE  ReuseIsSafe'
BY DEF CallsInv, ReuseIsSafe

LEMMA ReplyReuse ==
    ASSUME CallsInv, NEW f, NEW rest, Reply(f, rest), UNCHANGED <<ended, clashed, loop>>,
           \A c \in Job \ clashed : h'[c] = "conflict" => h[c] = "conflict"
    PROVE  ReuseIsSafe'
<1>1. CASE workerOpen /\ frontOpen
  BY <1>1, ReplyOpen, ReuseKept
<1>2. CASE ~(workerOpen /\ frontOpen)
  BY <1>2, ReplyShut, ReuseKept
<1> QED
  BY <1>1, <1>2

\* Nobody is refused for the name of a job it did not overlap with,
LEMMA ConflictReuse ==
    ASSUME CallsInv, UNCHANGED caller, NEW c \in Job, RefuseConflict(c) PROVE ReuseIsSafe'
<1>1. /\ h' = [h EXCEPT ![c] = "conflict"] /\ c \in Request /\ jobs[NameOf[c]] # None
      /\ Reply(Frame("err", c), Tail(down)) /\ NameOf[c] \in JobID
      /\ UNCHANGED <<ended, clashed, loop>>
  BY Calls DEF RefuseConflict, caller
<1>2. Takes(c)
  <2>1. h'[c] = "conflict"
    BY <1>1, Types DEF CallsInv
  <2> QED
    BY <2>1 DEF RefuseConflict, Reads, Takes, Reply
<1>3. h[c] = "none" /\ Sent(c)
  BY <1>1, <1>2, ReadOnce
<1>4. PICK d \in Job : d = jobs[NameOf[c]] /\ NameOf[d] = NameOf[c] /\ h[d] \in {"work", "over"}
  BY <1>1, Known
<1>5. SameName(c, d) /\ OnWorker(c) /\ OnWorker(d)
  BY <1>3, <1>4 DEF SameName, OnWorker
<1>6. c \in clashed
  BY <1>5 DEF CallsInv, Clash, Apart
<1>7. \A e \in Job \ clashed : h'[e] = h[e]
  BY <1>1, <1>6, Types, Calls DEF CallsInv
<1> QED
  BY <1>1, <1>7, ReplyReuse

\* and nobody is stopped by a cancellation meant for the job before it.
LEMMA CancelReuse ==
    ASSUME CallsInv, UNCHANGED caller, NEW c \in Request, Cancel(c) PROVE ReuseIsSafe'
<1>1. UNCHANGED <<h, workerOpen, ended, clashed, loop>> /\ down # <<>> /\ Head(down) = Frame("cancel", c)
  BY DEF Cancel, Reads, caller
<1>2. 1 \in DOMAIN down /\ down[1] = Frame("cancel", c)
  BY <1>1, Types, Headed DEF CallsInv
<1>3. c \in ended
  BY <1>2 DEF CallsInv, DownShape, Frame
<1>4. ASSUME NEW d \in Job \ clashed, d \in cancelled', d \notin cancelled PROVE d \in ended
  <2>1. CASE c \notin Job
    <3>1. cancelled' = cancelled \cup ({c} \cap InFlight)
      BY <2>1 DEF Cancel
    <3> QED
      BY <1>4, <2>1, <3>1
  <2>2. CASE c \in Job
    <3>1. cancelled' = cancelled \cup ({jobs[NameOf[c]]} \ {None})
      BY <2>2 DEF Cancel
    <3>2. d = jobs[NameOf[c]] /\ d # None /\ NameOf[c] \in JobID
      BY <1>4, <2>2, <3>1, Calls
    <3>3. NameOf[d] = NameOf[c] /\ h[d] \in {"work", "over"}
      BY <3>2, Known
    <3>4. CASE d = c
      BY <1>3, <3>4
    <3>5. CASE d # c
      <4>1. Apart(d, c)
        BY <2>2, <3>3, <3>5 DEF CallsInv, Clash, SameName
      <4> QED
        BY <1>2, <3>3, <4>1 DEF Apart
    <3> QED
      BY <3>4, <3>5
  <2> QED
    BY <2>1, <2>2
<1> QED
  BY <1>1, <1>4, ReuseKept

LEMMA WorkerReuse ==
    ASSUME CallsInv, SessionNext \/ Dies, UNCHANGED <<client, caller>> PROVE ReuseIsSafe'
<1>0. UNCHANGED <<ended, clashed>> /\ h \in [Request -> HandlerState] /\ \A c \in Job : c \in Request
  BY Types, Calls DEF caller, CallsInv
<1>1. ASSUME NEW c \in Request, Refuse(c) PROVE ReuseIsSafe'
  <2>1. \A d \in Job : h'[d] = "conflict" => h[d] = "conflict"
    BY <1>0, <1>1 DEF Refuse
  <2> QED
    BY <1>0, <1>1, <2>1, ReplyReuse DEF Refuse
<1>2. ASSUME NEW c \in Request, Accept(c) PROVE ReuseIsSafe'
  <2>1. \A d \in Job : h'[d] = "conflict" => h[d] = "conflict"
    BY <1>0, <1>2 DEF Accept
  <2> QED
    BY <1>0, <1>2, <2>1, ReuseKept DEF Accept
<1>3. ASSUME AcceptBye \/ AnswerBye PROVE ReuseIsSafe'
  BY <1>0, <1>3, ReuseKept DEF AcceptBye, AnswerBye
<1>4. ASSUME ReadError PROVE ReuseIsSafe'
  BY <1>0, <1>4, ReuseKept DEF ReadError, wire
<1>5. ASSUME NEW c \in Job, Progress(c) PROVE ReuseIsSafe'
  BY <1>0, <1>5, ReplyReuse DEF Progress
<1>6. ASSUME NEW c \in Request, FinishWork(c) PROVE ReuseIsSafe'
  <2>1. \A d \in Job : h'[d] = "conflict" => h[d] = "conflict"
    BY <1>0, <1>6 DEF FinishWork
  <2> QED
    BY <1>0, <1>6, <2>1, ReuseKept DEF FinishWork, wire
<1>7. ASSUME NEW c \in Job, EndJob(c) PROVE ReuseIsSafe'
  <2>1. \A d \in Job : h'[d] = "conflict" => h[d] = "conflict"
    BY <1>0, <1>7 DEF EndJob
  <2> QED
    BY <1>0, <1>7, <2>1, ReuseKept DEF EndJob, wire
<1>8. ASSUME NEW c \in Request, Terminal(c) PROVE ReuseIsSafe'
  <2>1. \A d \in Job : h'[d] = "conflict" => h[d] = "conflict"
    BY <1>0, <1>8 DEF Terminal
  <2> QED
    BY <1>0, <1>8, <2>1, ReplyReuse DEF Terminal
<1>9. ASSUME NEW c \in Request, Leave(c) PROVE ReuseIsSafe'
  <2>1. \A d \in Job : h'[d] = "conflict" => h[d] = "conflict"
    BY <1>0, <1>9 DEF Leave
  <2> QED
    BY <1>0, <1>9, <2>1, ReuseKept DEF Leave, wire
<1>10. ASSUME Dies PROVE ReuseIsSafe'
  BY <1>0, <1>10, ReuseKept DEF Dies
<1>11. CASE Loop
  BY <1>1, <1>2, <1>3, <1>4, <1>11, ConflictReuse, CancelReuse DEF Loop
<1>12. CASE \E c \in Request : FinishWork(c) \/ Returns(c)
  BY <1>6, <1>7, <1>8, <1>9, <1>12 DEF Returns
<1> QED
  BY <1>3, <1>5, <1>10, <1>11, <1>12 DEF SessionNext, Exit

-----------------------------------------------------------------------------
\* The steps of the daemon's end. A call begins, and is marked where its name is in
\* use; a frame is written, whole and behind the others; the first of the frames from
\* the worker is read, or all are lost with the connection.
Begins(c) ==
    /\ pc[c] = "idle" /\ pc'[c] = "reg" /\ ~dead
    /\ \A d \in Job : c \in Job /\ SameName(c, d) /\ Live(d) => {c, d} \subseteq clashed'
\* What may be left when a caller ends.
Settles(c) == dead' \/ ~frontOpen' \/ (c \in Job => h[c] \notin Before)
FrontMoves ==
    /\ UNCHANGED <<session, workerOpen>>
    /\ ended \subseteq ended' /\ clashed \subseteq clashed'
    /\ (dead => dead') /\ (doomed => doomed') /\ (frontOpen' => frontOpen)
    /\ \A c \in Call :
          /\ pc'[c] = "idle" => pc[c] = "idle"
          /\ pc'[c] = "reg" => pc[c] = "reg" \/ (Begins(c) /\ down' = down)
          /\ pc'[c] \in Written => pc[c] \in Written \/ down' = Append(down, Frame("req", c))
          /\ pc'[c] \notin {"idle", "reg", "end"} => pc[c] \notin {"idle", "end"}
          /\ pc'[c] = "end" => pc[c] \in {"end", "idle", "reg"} \/ Settles(c)
          /\ c \in table' => c \in table \/ pc[c] = "idle"
    /\ \A c, d \in Call : Begins(c) /\ Begins(d) => c = d
    /\ \/ down' = down
       \/ \E c \in Call : /\ down' = Append(down, Frame("req", c)) /\ frontOpen
                          /\ pc[c] = "reg" /\ pc'[c] = "wait"
       \/ \E c \in Request : /\ down' = Append(down, Frame("cancel", c)) /\ c \in ended
                             /\ pc[c] \in {"stop", "cancel"} /\ ~dead /\ frontOpen /\ workerOpen
    /\ \/ up' = up
       \/ up' = <<>> /\ ~frontOpen'
       \/ /\ up # <<>> /\ up' = Tail(up)
          /\ IsTerminal(Head(up)) => Head(up).call \notin table'

LEMMA FrontSame ==
    ASSUME FrontMoves
    PROVE  /\ UNCHANGED <<h, jobs, cancelled, bye, result, loop, alive, workerOpen>> /\ InFlight' = InFlight
           /\ \A c \in Call : pc[c] \notin {"idle", "reg"} => pc'[c] \notin {"idle", "reg"}
BY DEF FrontMoves, session, InFlight, Begins

LEMMA FrontFarewell == ASSUME CallsInv, FrontMoves, Farewell PROVE Farewell'
<1>1. ASSUME NEW c \in Request, h[c] = "done" PROVE c \notin table'
  <2>1. c \notin table /\ pc[c] # "idle"
    BY <1>1, Known DEF Farewell
  <2> QED
    BY <2>1, Calls DEF FrontMoves
<1> QED
  BY <1>1, FrontSame DEF Farewell

LEMMA FrontUps == ASSUME CallsInv, FrontMoves PROVE UpShape'
<1>0. up \in Seq(UpFrame) /\ DOMAIN up = 1 .. Len(up) /\ Len(up) \in Nat
  BY Types DEF CallsInv
<1>1. ASSUME NEW f, UpFits(f) PROVE UpFits(f)'
  BY <1>1, FrontSame, Calls DEF UpFits
<1>2. ASSUME NEW c \in Request, h[c] = "done", c \in table' PROVE c \in table
  BY <1>2, Known, Calls DEF FrontMoves
<1>3. CASE up' = up
  <2>1. SUFFICES ASSUME NEW i \in DOMAIN up, NEW f, f = up[i]
                 PROVE  /\ UpFits(f)'
                        /\ f.kind = "bye" =>
                              \A c \in Request : h[c] = "done" /\ c \in table' => Answered(c, i - 1)'
    BY <1>3, FrontSame DEF UpShape
  <2>2. UpFits(f)
    BY <2>1 DEF CallsInv, UpShape
  <2>3. ASSUME f.kind = "bye", NEW c \in Request, h[c] = "done", c \in table' PROVE Answered(c, i - 1)'
    <3>1. Answered(c, i - 1)
      BY <1>2, <2>1, <2>3 DEF CallsInv, UpShape
    <3> QED
      BY <1>3, <3>1 DEF Answered
  <2> QED
    BY <1>1, <2>2, <2>3
<1>4. CASE up' = <<>>
  BY <1>4 DEF UpShape
<1>5. CASE up # <<>> /\ up' = Tail(up) /\ (IsTerminal(Head(up)) => Head(up).call \notin table')
  <2>0. /\ DOMAIN up' = 1 .. Len(up) - 1 /\ Head(up) = up[1]
        /\ \A i \in 1 .. Len(up) - 1 : up'[i] = up[i + 1]
    BY <1>0, <1>5, Headed
  <2>1. SUFFICES ASSUME NEW i \in DOMAIN up', NEW f, f = up'[i]
                 PROVE  /\ UpFits(f)'
                        /\ f.kind = "bye" =>
                              \A c \in Request : h[c] = "done" /\ c \in table' => Answered(c, i - 1)'
    BY FrontSame DEF UpShape
  <2>2. i + 1 \in DOMAIN up /\ f = up[i + 1] /\ (i + 1) - 1 = i
    BY <1>0, <2>0, <2>1
  <2>3. UpFits(f)
    BY <2>2 DEF CallsInv, UpShape
  <2>4. ASSUME f.kind = "bye", NEW c \in Request, h[c] = "done", c \in table' PROVE Answered(c, i - 1)'
    <3>1. Answered(c, i)
      BY <1>2, <2>2, <2>4 DEF CallsInv, UpShape
    <3>2. PICK j \in 1 .. i : j \in DOMAIN up /\ up[j].call = c /\ IsTerminal(up[j])
      BY <3>1 DEF Answered
    <3>3. j # 1
      BY <1>5, <2>0, <2>4, <3>2
    <3>4. j - 1 \in 1 .. i - 1 /\ j - 1 \in DOMAIN up' /\ up'[j - 1] = up[j]
      BY <1>0, <2>0, <2>1, <3>2, <3>3
    <3> QED
      BY <3>2, <3>4 DEF Answered, IsTerminal
  <2> QED
    BY <1>1, <2>3, <2>4
<1> QED
  BY <1>3, <1>4, <1>5 DEF FrontMoves

LEMMA FrontBacks == ASSUME CallsInv, FrontMoves PROVE SentBack'
<1>0. up \in Seq(UpFrame) /\ DOMAIN up = 1 .. Len(up) /\ Len(up) \in Nat
  BY Types DEF CallsInv
<1>1. SUFFICES ASSUME workerOpen, frontOpen', NEW c \in Request, h[c] \in {"left", "done"}, c \in table',
                      NEW n, n = Len(up')
               PROVE  Answered(c, n)'
  BY FrontSame DEF SentBack
<1>2. c \in table /\ frontOpen
  BY <1>1, Known, Calls DEF FrontMoves
<1>3. PICK j \in 1 .. Len(up) : j \in DOMAIN up /\ up[j].call = c /\ IsTerminal(up[j])
  BY <1>1, <1>2 DEF CallsInv, SentBack, Answered
<1>4. CASE up' = up
  BY <1>1, <1>3, <1>4 DEF Answered
<1>5. CASE up # <<>> /\ up' = Tail(up) /\ (IsTerminal(Head(up)) => Head(up).call \notin table')
  <2>1. /\ DOMAIN up' = 1 .. Len(up) - 1 /\ Head(up) = up[1] /\ n = Len(up) - 1
        /\ \A i \in 1 .. Len(up) - 1 : up'[i] = up[i + 1]
    BY <1>0, <1>1, <1>5, Headed
  <2>2. j # 1
    BY <1>1, <1>3, <1>5, <2>1
  <2>3. j - 1 \in 1 .. n /\ j - 1 \in DOMAIN up' /\ up'[j - 1] = up[j]
    BY <1>0, <1>3, <2>1, <2>2
  <2> QED
    BY <1>3, <2>3 DEF Answered, IsTerminal
<1> QED
  BY <1>1, <1>4, <1>5 DEF FrontMoves

\* The frames on their way to the worker stay where they are; one may follow them.
LEMMA Follows ==
    ASSUME CallsInv, FrontMoves
    PROVE  /\ DOMAIN down = 1 .. Len(down) /\ Len(down) \in Nat
           /\ \A i \in DOMAIN down : i \in DOMAIN down' /\ down'[i] = down[i]
           /\ \A i \in DOMAIN down' : i \notin DOMAIN down =>
                 /\ i = Len(down) + 1
                 /\ \/ \E c \in Call : /\ down'[i] = Frame("req", c) /\ frontOpen
                                       /\ pc[c] = "reg" /\ pc'[c] = "wait"
                    \/ \E c \in Request : /\ down'[i] = Frame("cancel", c) /\ c \in ended
                                          /\ pc[c] \in {"stop", "cancel"}
                                          /\ ~dead /\ frontOpen /\ workerOpen
<1>1. down \in Seq(DownFrame) /\ DOMAIN down = 1 .. Len(down) /\ Len(down) \in Nat
  BY Types DEF CallsInv
<1>2. CASE down' = down
  BY <1>1, <1>2
<1>3. ASSUME NEW f \in DownFrame, down' = Append(down, f)
      PROVE  /\ \A i \in DOMAIN down : i \in DOMAIN down' /\ down'[i] = down[i]
             /\ \A i \in DOMAIN down' : i \notin DOMAIN down => i = Len(down) + 1 /\ down'[i] = f
  BY <1>1, <1>3, Appended
<1>4. \A c \in Call : Frame("req", c) \in DownFrame
  BY DEF Frame, DownFrame
<1>5. \A c \in Request : Frame("cancel", c) \in DownFrame
  BY Calls DEF Frame, DownFrame
<1>6. CASE \E c \in Call : /\ down' = Append(down, Frame("req", c)) /\ frontOpen
                           /\ pc[c] = "reg" /\ pc'[c] = "wait"
  BY <1>1, <1>3, <1>4, <1>6
<1>7. CASE \E c \in Request : /\ down' = Append(down, Frame("cancel", c)) /\ c \in ended
                             /\ pc[c] \in {"stop", "cancel"} /\ ~dead /\ frontOpen /\ workerOpen
  BY <1>1, <1>3, <1>5, <1>7
<1> QED
  BY <1>2, <1>6, <1>7 DEF FrontMoves

\* What is new to the worker was written by a caller that had just registered.
LEMMA OnWorkerRises ==
    ASSUME CallsInv, FrontMoves, NEW c \in Request, OnWorker(c)'
    PROVE  OnWorker(c) \/ (pc[c] = "reg" /\ pc'[c] = "wait" /\ frontOpen)
<1>1. CASE h[c] \in {"work", "over"}
  BY <1>1 DEF OnWorker
<1>2. CASE Sent(c)'
  <2>1. PICK i \in DOMAIN down' : down'[i] = Frame("req", c)
    BY <1>2 DEF Sent
  <2>2. CASE i \in DOMAIN down
    BY <2>1, <2>2, Follows DEF Sent, OnWorker
  <2>3. CASE i \notin DOMAIN down
    <3>1. \A d, e : Frame("req", d) = Frame("req", e) => d = e
      BY DEF Frame
    <3>2. \A d : Frame("req", c) # Frame("cancel", d)
      BY DEF Frame
    <3> QED
      BY <2>1, <2>3, <3>1, <3>2, Follows
  <2> QED
    BY <2>2, <2>3
<1> QED
  BY <1>1, <1>2, FrontSame DEF OnWorker

LEMMA FrontDowns == ASSUME CallsInv, FrontMoves PROVE DownShape'
<1>0. ended \subseteq ended'
  BY DEF FrontMoves
<1>1. SUFFICES ASSUME NEW i \in DOMAIN down', NEW f, f = down'[i]
      PROVE  /\ f.kind = "req" =>
                   /\ pc'[f.call] \notin {"idle", "reg"}
                   /\ f.call \in Request => h[f.call] = "none"
                   /\ \A j \in DOMAIN down' : down'[j] = f => i = j
             /\ f.kind = "cancel" =>
                   /\ f.call \in Request /\ f.call \in ended'
                   /\ \/ h[f.call] # "none"
                      \/ \E j \in DOMAIN down' : j < i /\ down'[j] = Frame("req", f.call)
  BY FrontSame DEF DownShape
<1>2. CASE i \in DOMAIN down
  <2>1. f = down[i] /\ f \in DownFrame /\ f.call \in Call
    <3>1. f = down[i] /\ down \in Seq(DownFrame)
      BY <1>1, <1>2, Follows, Types DEF CallsInv
    <3>2. f \in DownFrame
      BY <1>2, <3>1
    <3> QED
      BY <3>1, <3>2 DEF DownFrame
  <2>2. ASSUME f.kind = "req"
        PROVE  /\ pc[f.call] \notin {"idle", "reg"}
               /\ f.call \in Request => h[f.call] = "none"
               /\ \A j \in DOMAIN down : down[j] = f => i = j
    BY <1>2, <2>1, <2>2 DEF CallsInv, DownShape
  <2>3. ASSUME f.kind = "req", NEW j \in DOMAIN down', down'[j] = f PROVE i = j
    <3>1. CASE j \in DOMAIN down
      BY <2>2, <2>3, <3>1, Follows
    <3>2. CASE j \notin DOMAIN down
      <4>1. \A c : Frame("req", c).call = c /\ Frame("cancel", c).kind # "req"
        BY DEF Frame
      <4>2. \E c \in Call : f = Frame("req", c) /\ pc[c] = "reg"
        BY <2>3, <3>2, <4>1, Follows
      <4> QED
        BY <2>2, <2>3, <4>1, <4>2
    <3> QED
      BY <3>1, <3>2
  <2>4. ASSUME f.kind = "cancel"
        PROVE  /\ f.call \in Request /\ f.call \in ended
               /\ \/ h[f.call] # "none"
                  \/ \E j \in DOMAIN down : j < i /\ down[j] = Frame("req", f.call)
    BY <1>2, <2>1, <2>4 DEF CallsInv, DownShape
  <2> QED
    BY <1>0, <2>1, <2>2, <2>3, <2>4, FrontSame, Follows
<1>3. CASE i \notin DOMAIN down
  <2>1. /\ i = Len(down) + 1 /\ Len(down) \in Nat /\ DOMAIN down = 1 .. Len(down)
        /\ \A j \in DOMAIN down' : j \notin DOMAIN down => j = i
    BY <1>1, <1>3, Follows
  <2>2. CASE \E c \in Call : f = Frame("req", c) /\ pc[c] = "reg" /\ pc'[c] = "wait"
    <3>1. PICK c \in Call : f = Frame("req", c) /\ pc[c] = "reg" /\ pc'[c] = "wait"
      BY <2>2
    <3>2. f.kind = "req" /\ f.call = c
      BY <3>1 DEF Frame
    <3>3. c \in Request => h[c] = "none"
      BY <3>1, Known
    <3>4. ASSUME NEW j \in DOMAIN down', down'[j] = f PROVE j = i
      <4>1. ASSUME j \in DOMAIN down PROVE FALSE
        <5>1. down[j] = f
          BY <3>4, <4>1, Follows
        <5> QED
          BY <3>1, <3>2, <4>1, <5>1 DEF CallsInv, DownShape
      <4> QED
        BY <2>1, <4>1
    <3> QED
      BY <3>1, <3>2, <3>3, <3>4
  <2>3. CASE \E c \in Request : /\ f = Frame("cancel", c) /\ c \in ended
                                /\ pc[c] \in {"stop", "cancel"} /\ workerOpen
    <3>1. PICK c \in Request : /\ f = Frame("cancel", c) /\ c \in ended
                               /\ pc[c] \in {"stop", "cancel"} /\ workerOpen
      BY <2>3
    <3>2. f.kind = "cancel" /\ f.call = c
      BY <3>1 DEF Frame
    <3>3. h[c] # "none" \/ Sent(c)
      BY <3>1 DEF CallsInv, Arrives, Written
    <3>4. \A j \in DOMAIN down : j < i /\ j \in DOMAIN down' /\ down'[j] = down[j]
      BY <2>1, Follows
    <3> QED
      BY <1>0, <3>1, <3>2, <3>3, <3>4 DEF Sent
  <2> QED
    BY <1>1, <1>3, <2>2, <2>3, Follows
<1> QED
  BY <1>2, <1>3

LEMMA FrontKnows == ASSUME CallsInv, FrontMoves PROVE WorkerShape' /\ ReuseIsSafe'
<1>1. WorkerKnows'
  BY FrontSame, Known, Calls DEF WorkerKnows
<1>2. Registered'
  BY FrontSame, Known DEF Registered
<1>3. ReuseIsSafe'
  BY FrontSame DEF CallsInv, ReuseIsSafe, FrontMoves
<1> QED
  BY <1>1, <1>2, <1>3, KnownNext

LEMMA FrontArrives == ASSUME CallsInv, FrontMoves PROVE Arrives'
<1>1. SUFFICES ASSUME NEW c \in Request, pc'[c] \in Written, workerOpen PROVE h[c] # "none" \/ Sent(c)'
  BY FrontSame DEF Arrives
<1>2. CASE pc[c] \in Written
  <2>1. h[c] # "none" \/ Sent(c)
    BY <1>1, <1>2 DEF CallsInv, Arrives
  <2> QED
    BY <2>1, Follows DEF Sent
<1>3. CASE down' = Append(down, Frame("req", c))
  <2>1. down \in Seq(DownFrame) /\ Frame("req", c) \in DownFrame
    BY Types, Calls DEF CallsInv, Frame, DownFrame
  <2>2. Len(down) + 1 \in DOMAIN down' /\ down'[Len(down) + 1] = Frame("req", c)
    BY <1>3, <2>1, Appended
  <2> QED
    BY <2>2 DEF Sent
<1> QED
  BY <1>1, <1>2, <1>3, Calls DEF FrontMoves

\* A call that is not written yet is nowhere on the worker, and an answered one not
\* there any more.
LEMMA NotThere ==
    ASSUME CallsInv, NEW c \in Request, pc[c] \in {"idle", "reg"} \/ h[c] \notin Before
    PROVE  ~OnWorker(c)
<1>1. pc[c] \in {"idle", "reg"} => h[c] = "none"
  BY Known
<1>2. ASSUME Sent(c) PROVE pc[c] \notin {"idle", "reg"} /\ h[c] = "none"
  BY <1>2 DEF Sent, CallsInv, DownShape, Frame
<1> QED
  BY <1>1, <1>2 DEF OnWorker, Before

LEMMA FrontLeaves == ASSUME CallsInv, FrontMoves PROVE Left'
<1>1. SUFFICES ASSUME NEW c \in Job, pc'[c] = "end", OnWorker(c)' PROVE dead' \/ ~frontOpen'
  BY DEF Left
<1>2. c \in Request /\ c \in Call
  BY Calls
<1>3. OnWorker(c)
  BY <1>1, <1>2, OnWorkerRises
<1>4. pc[c] \notin {"idle", "reg"} /\ h[c] \in Before
  BY <1>2, <1>3, NotThere
<1>5. pc[c] = "end" \/ Settles(c)
  BY <1>1, <1>2, <1>4 DEF FrontMoves
<1>6. CASE pc[c] = "end"
  <2>1. dead \/ ~frontOpen
    BY <1>3, <1>6 DEF CallsInv, Left
  <2> QED
    BY <2>1 DEF FrontMoves
<1> QED
  BY <1>4, <1>5, <1>6 DEF Settles

LEMMA FrontClash == ASSUME CallsInv, FrontMoves PROVE Clash'
<1>0. clashed \subseteq clashed' /\ (frontOpen' => frontOpen)
  BY DEF FrontMoves
<1>1. SUFFICES ASSUME NEW c \in Job, NEW d \in Job, SameName(c, d) PROVE Apart(c, d)'
  BY DEF Clash, SameName
<1>2. c \in Request /\ d \in Request /\ c \in Call /\ d \in Call /\ SameName(d, c) /\ c # d
  BY <1>1, Calls DEF SameName
<1>3. Apart(c, d) /\ Apart(d, c)
  BY <1>1, <1>2 DEF CallsInv, Clash
<1>4. \A e \in {c, d} : pc'[e] \notin {"idle", "end"} => pc[e] \notin {"idle", "end"} \/ Begins(e)
  BY <1>2 DEF FrontMoves
<1>5. Begins(c) /\ Begins(d) => FALSE
  BY <1>2 DEF FrontMoves
<1>6. Live(c)' /\ Live(d)' => {c, d} \subseteq clashed'
  <2>1. SUFFICES ASSUME pc'[c] \notin {"idle", "end"}, pc'[d] \notin {"idle", "end"}
                 PROVE  {c, d} \subseteq clashed'
    BY DEF Live
  <2>2. CASE Live(c) /\ Live(d)
    BY <1>0, <1>3, <2>2 DEF Apart
  <2>3. CASE Begins(c) /\ Live(d)
    BY <1>1, <2>3 DEF Begins
  <2>4. CASE Begins(d) /\ Live(c)
    BY <1>1, <1>2, <2>4 DEF Begins
  <2> QED
    BY <1>4, <1>5, <2>1, <2>2, <2>3, <2>4 DEF Live
<1>7. ASSUME pc'[d] = "reg", c \notin clashed' \/ d \notin clashed', OnWorker(c)', frontOpen' PROVE FALSE
  <2>1. ~Live(c)'
    BY <1>6, <1>7 DEF Live
  <2>2. OnWorker(c)
    BY <1>2, <1>7, <2>1, OnWorkerRises DEF Live
  <2>3. c \notin clashed \/ d \notin clashed
    BY <1>0, <1>7
  <2>4. CASE pc[d] = "reg"
    BY <1>0, <1>3, <1>7, <2>2, <2>3, <2>4 DEF Apart
  <2>5. CASE Begins(d)
    <3>1. ~Live(c)
      BY <1>1, <1>2, <1>7, <2>5 DEF Begins
    <3>2. pc[c] = "end"
      BY <1>2, <2>2, <3>1, NotThere DEF Live
    <3> QED
      BY <1>0, <1>7, <2>2, <2>5, <3>2 DEF CallsInv, Left, Begins
  <2> QED
    BY <1>2, <1>7, <2>4, <2>5 DEF FrontMoves
<1>8. ASSUME c \notin clashed', OnWorker(c)', OnWorker(d)' PROVE FALSE
  <2>0. c \notin clashed
    BY <1>0, <1>8
  <2>1. CASE OnWorker(c) /\ OnWorker(d)
    BY <1>3, <2>0, <2>1 DEF Apart
  <2>2. CASE OnWorker(c) /\ pc[d] = "reg" /\ frontOpen
    BY <1>3, <2>0, <2>2 DEF Apart
  <2>3. CASE OnWorker(d) /\ pc[c] = "reg" /\ frontOpen
    BY <1>3, <2>0, <2>3 DEF Apart
  <2>4. CASE pc[c] = "reg" /\ pc[d] = "reg"
    BY <1>3, <2>0, <2>4 DEF Apart, Live
  <2> QED
    BY <1>2, <1>8, <2>1, <2>2, <2>3, <2>4, OnWorkerRises
<1>9. ASSUME c \notin clashed', NEW i \in DOMAIN down', down'[i] = Frame("cancel", d)
      PROVE  h[c] \notin {"work", "over"} /\ \A j \in DOMAIN down' : down'[j] = Frame("req", c) => i < j
  <2>0. c \notin clashed
    BY <1>0, <1>9
  <2>1. CASE i \in DOMAIN down
    <3>1. /\ h[c] \notin {"work", "over"}
          /\ \A j \in DOMAIN down : down[j] = Frame("req", c) => i < j
      BY <1>3, <1>9, <2>0, <2>1, Follows DEF Apart
    <3> QED
      BY <2>1, <3>1, Follows
  <2>2. CASE i \notin DOMAIN down
    <3>1. Live(d) /\ ~dead /\ frontOpen
      <4>1. \A e, f : Frame("cancel", e) # Frame("req", f) /\ (Frame("cancel", e) = Frame("cancel", f) => e = f)
        BY DEF Frame
      <4> QED
        BY <1>9, <2>2, <4>1, Follows DEF Live
    <3>2. ~Live(c)
      BY <1>3, <2>0, <3>1 DEF Apart
    <3>3. ~OnWorker(c)
      BY <1>2, <3>1, <3>2, NotThere DEF Live, CallsInv, Left
    <3>4. ASSUME NEW j \in DOMAIN down', down'[j] = Frame("req", c) PROVE FALSE
      <4>1. j \notin DOMAIN down
        BY <3>3, <3>4, Follows DEF OnWorker, Sent
      <4>2. j = i
        BY <2>2, <4>1, Follows
      <4> QED
        BY <1>9, <3>4, <4>2 DEF Frame
    <3> QED
      BY <3>3, <3>4 DEF OnWorker
  <2> QED
    BY <2>1, <2>2
<1> QED
  BY <1>6, <1>7, <1>8, <1>9, FrontSame DEF Apart

-----------------------------------------------------------------------------
\* What a step of the daemon's end does to one call.
Honest(c) ==
    /\ c \in Job =>
          /\ outcome[c] \in Kinds \cup {"late"} => h[c] \notin Before
          /\ outcome[c] = "terminated" => doomed
          /\ outcome[c] = "gone" => dead
    /\ c = Bye /\ outcome[c] = "bye" => Farewell
Fits(c) == CallFits(c) /\ ChanFits(c) /\ Owned(c) /\ Honest(c)
CallsFit == \A c \in Call : Fits(c)

LEMMA AllFit ==
    ASSUME CallsInv, NEW c \in Call
    PROVE  Fits(c) /\ CallFits(c) /\ ChanFits(c) /\ Owned(c) /\ Honest(c)
BY DEF CallsInv, CallShape, ChanShape, OwnsFile, ByeShape, JobEndIsHonest, Fits, Honest, Before

LEMMA FitAll ==
    ASSUME CallsFit' PROVE CallShape' /\ ChanShape' /\ OwnsFile' /\ ByeShape' /\ JobEndIsHonest'
<1>1. Bye \in Call /\ \A c \in Job : c \in Call
  BY Calls
<1> QED
  BY <1>1 DEF CallsFit, CallShape, ChanShape, OwnsFile, ByeShape, JobEndIsHonest, Fits, Honest, Before

Same(d) == /\ pc'[d] = pc[d] /\ outcome'[d] = outcome[d]
           /\ (d \in opened' => d \in opened) /\ (d \in table' => d \in table)

LEMMA HonestKept == ASSUME CallsInv, FrontMoves, NEW d \in Call, outcome'[d] = outcome[d] PROVE Honest(d)'
<1>1. Honest(d)
  BY AllFit
<1>2. (dead => dead') /\ (doomed => doomed')
  BY DEF FrontMoves
<1> QED
  BY <1>1, <1>2, FrontFarewell, FrontSame DEF Honest

LEMMA Untouched ==
    ASSUME CallsInv, FrontMoves, NEW d \in Call, Same(d), chan'[d] = chan[d] PROVE Fits(d)'
<1>1. CallFits(d) /\ ChanFits(d) /\ Owned(d)
  BY AllFit
<1>2. (dead => dead') /\ ended \subseteq ended'
  BY DEF FrontMoves
<1>3. ChanFits(d)'
  BY <1>1, <1>2, FrontFarewell, FrontSame DEF ChanFits, Same
<1>4. CallFits(d)' /\ Owned(d)'
  BY <1>1, <1>2 DEF CallFits, Owned, Same
<1> QED
  BY <1>3, <1>4, HonestKept DEF Fits, Same

LEMMA CallMoves ==
    ASSUME CallsInv, FrontMoves, NEW c \in Call, \A d \in Call : d = c \/ (Same(d) /\ chan'[d] = chan[d]),
           Fits(c)'
    PROVE  CallsFit'
BY Untouched DEF CallsFit

LEMMA InSeq == ASSUME NEW S, NEW q \in Seq(S), NEW i \in DOMAIN q PROVE q[i] \in S
OBVIOUS

\* A frame in a channel, and the first one.
LEMMA InChan ==
    ASSUME CallsInv, NEW c \in Call, NEW i \in DOMAIN chan[c]
    PROVE  /\ chan[c][i].call = c
           /\ chan[c][i].kind \in Kinds \cup {"prog", "bye", "gone"}
           /\ chan[c][i].kind = "prog" => c \in Job
           /\ chan[c][i].kind \in Kinds => c \in Request /\ h[c] \notin Before
           /\ chan[c][i].kind = "gone" => dead
           /\ chan[c][i].kind = "bye" => c = Bye /\ Farewell
<1>1. chan[c] \in Seq([kind : Kinds \cup {"prog", "bye", "gone"}, call : Call])
  BY Types DEF CallsInv
<1>2. PICK f \in [kind : Kinds \cup {"prog", "bye", "gone"}, call : Call] : f = chan[c][i]
  BY <1>1, InSeq
<1>3. f.kind \in Kinds \cup {"prog", "bye", "gone"}
  OBVIOUS
<1> QED
  BY <1>2, <1>3, AllFit DEF ChanFits

LEMMA FirstInChan ==
    ASSUME CallsInv, NEW c \in Call, chan[c] # <<>>
    PROVE  1 \in DOMAIN chan[c] /\ Head(chan[c]) = chan[c][1]
<1>1. chan[c] \in Seq([kind : Kinds \cup {"prog", "bye", "gone"}, call : Call])
  BY Types DEF CallsInv
<1> QED
  BY <1>1, Headed

LEMMA PcTurns ==
    ASSUME CallsInv, NEW c \in Call, NEW p, pc' = [pc EXCEPT ![c] = p]
    PROVE  pc'[c] = p /\ \A d \in Call : d = c \/ pc'[d] = pc[d]
BY Types DEF CallsInv
LEMMA IsTold ==
    ASSUME CallsInv, NEW c \in Call, NEW o, Told(c, o)
    PROVE  outcome'[c] = o /\ \A d \in Call : d = c \/ outcome'[d] = outcome[d]
BY Types DEF CallsInv, Told
LEMMA Abandoned ==
    ASSUME CallsInv, NEW c \in Call, NEW p, Abandon(c, p)
    PROVE  /\ table' = table \ {c}
           /\ pc'[c] = (IF c \in Open THEN p ELSE "end")
           /\ chan'[c] = (IF c \in Open THEN chan[c] ELSE <<>>)
           /\ \A d \in Call : d = c \/ (pc'[d] = pc[d] /\ chan'[d] = chan[d])
BY Types DEF CallsInv, Abandon

Keeps == FrontMoves /\ CallsFit'

LEMMA BeginKeeps == ASSUME CallsInv, NEW c \in Call, BeginCall(c) PROVE Keeps
<1>0. CallFits(c) /\ ChanFits(c)
  BY AllFit
<1>1. CASE /\ At(c, "idle", "end") /\ (Told(c, "ctx") \/ (dead /\ Told(c, "gone")))
           /\ UNCHANGED <<wire, session, client, ended, opened, clashed>>
  <2>1. pc[c] = "idle" /\ pc'[c] = "end" /\ \A d \in Call : d = c \/ pc'[d] = pc[d]
    BY <1>1, PcTurns DEF At
  <2>2. /\ outcome'[c] = "ctx" \/ (dead /\ outcome'[c] = "gone")
        /\ \A d \in Call : d = c \/ outcome'[d] = outcome[d]
    BY <1>1, IsTold
  <2>3. UNCHANGED <<down, up, frontOpen, workerOpen, session, dead, table, chan, doomed, ended, opened, clashed>>
    BY <1>1 DEF wire, client
  <2>4. FrontMoves
    BY <2>1, <2>3 DEF FrontMoves, Begins, Written
  <2>5. CallFits(c)' /\ ChanFits(c)' /\ Owned(c)'
    BY <1>0, <2>1, <2>2, <2>3 DEF CallFits, ChanFits, Owned, Pending
  <2>6. Honest(c)'
    BY <2>2, <2>3 DEF Honest, Kinds
  <2> QED
    BY <2>1, <2>2, <2>3, <2>4, <2>5, <2>6, CallMoves DEF Fits, Same, Keeps
<1>2. CASE /\ ~dead /\ At(c, "idle", "reg") /\ table' = table \cup {c}
           /\ LET same == {d \in Job \ {c} : Live(d) /\ c \in Job /\ NameOf[d] = NameOf[c]}
              IN clashed' = IF same = {} THEN clashed ELSE clashed \cup same \cup {c}
           /\ UNCHANGED <<wire, session, dead, chan, doomed, term, outcome, ended, opened>>
  <2>1. pc[c] = "idle" /\ pc'[c] = "reg" /\ \A d \in Call : d = c \/ pc'[d] = pc[d]
    BY <1>2, PcTurns DEF At
  <2>2. UNCHANGED <<down, up, frontOpen, workerOpen, session, dead, chan, doomed, outcome, ended, opened>>
    BY <1>2 DEF wire
  <2>3. clashed \subseteq clashed' /\ Begins(c)
    BY <1>2, <2>1 DEF Begins, SameName
  <2>4. FrontMoves
    BY <1>2, <2>1, <2>2, <2>3 DEF FrontMoves, Begins, Written
  <2>5. CallFits(c)' /\ Owned(c)'
    BY <1>0, <1>2, <2>1, <2>2 DEF CallFits, Owned, Pending
  <2>6. ChanFits(c)'
    <3>1. chan'[c] = <<>>
      BY <1>0, <2>1, <2>2 DEF CallFits
    <3> QED
      BY <3>1 DEF ChanFits, Ends
  <2> QED
    BY <1>2, <2>1, <2>2, <2>4, <2>5, <2>6, HonestKept, CallMoves DEF Fits, Same, Keeps
<1> QED
  BY <1>1, <1>2 DEF BeginCall

LEMMA WriteKeeps == ASSUME CallsInv, NEW c \in Call, Write(c) PROVE Keeps
<1>0. CallFits(c) /\ ChanFits(c) /\ Owned(c)
  BY AllFit
<1>1. pc[c] = "reg" /\ pc'[c] = "wait" /\ \A d \in Call : d = c \/ pc'[d] = pc[d]
  BY PcTurns DEF Write, At
<1>2. /\ down' = Append(down, Frame("req", c)) /\ frontOpen
      /\ UNCHANGED <<up, frontOpen, workerOpen, session, dead, table, chan, doomed, outcome, ended, opened, clashed>>
  BY DEF Write, client
<1>3. FrontMoves
  BY <1>1, <1>2 DEF FrontMoves, Begins, Written
<1>4. CallFits(c)' /\ Owned(c)'
  BY <1>0, <1>1, <1>2 DEF CallFits, Owned, Pending
<1>5. ChanFits(c)'
  BY <1>0, <1>2, <1>3, FrontFarewell, FrontSame DEF ChanFits
<1> QED
  BY <1>1, <1>2, <1>3, <1>4, <1>5, HonestKept, CallMoves DEF Fits, Same, Keeps

LEMMA NotWrittenKeeps == ASSUME CallsInv, NEW c \in Call, NotWritten(c) PROVE Keeps
<1>0. CallFits(c) /\ ChanFits(c) /\ Owned(c)
  BY AllFit
<1>1. /\ pc[c] = "reg" /\ c \in ended /\ table' = table \ {c}
      /\ pc'[c] = (IF c \in Open THEN "drain" ELSE "end")
      /\ chan'[c] = (IF c \in Open THEN chan[c] ELSE <<>>)
      /\ \A d \in Call : d = c \/ (pc'[d] = pc[d] /\ chan'[d] = chan[d])
  BY Abandoned DEF NotWritten
<1>2. outcome'[c] = "ctx" /\ \A d \in Call : d = c \/ outcome'[d] = outcome[d]
  BY IsTold DEF NotWritten
<1>3. UNCHANGED <<down, up, frontOpen, workerOpen, session, dead, doomed, ended, opened, clashed>>
  BY DEF NotWritten, wire
<1>4. FrontMoves
  BY <1>1, <1>3 DEF FrontMoves, Begins, Written
<1>5. CallFits(c)' /\ Owned(c)'
  BY <1>0, <1>1, <1>3 DEF CallFits, Owned, Pending
<1>6. ChanFits(c)'
  BY <1>0, <1>1, <1>3, <1>4, FrontFarewell, FrontSame DEF ChanFits, Ends
<1>7. Honest(c)'
  BY <1>2 DEF Honest, Kinds
<1> QED
  BY <1>1, <1>2, <1>3, <1>4, <1>5, <1>6, <1>7, CallMoves DEF Fits, Same, Keeps

-----------------------------------------------------------------------------
\* fail: a call that is handed its end is no longer on the table.
LEMMA FailFits ==
    ASSUME CallsInv, FrontMoves, NEW tab \in SUBSET table, Fail(tab), NEW d \in Call,
           pc'[d] = pc[d], outcome'[d] = outcome[d], opened' = opened
    PROVE  Fits(d)'
<1>0. CallFits(d) /\ ChanFits(d) /\ Owned(d) /\ (d \in table' => d \in table)
  BY AllFit DEF Fail
<1>1. CASE chan'[d] = chan[d]
  BY <1>0, <1>1, Untouched DEF Same
<1>2. CASE ~dead /\ d \in tab /\ chan'[d] = Append(chan[d], Frame("gone", d))
  <2>1. d \in table /\ d \notin table' /\ d \notin opened /\ pc[d] \in Pending
    BY <1>0, <1>2 DEF Fail, CallFits
  <2>2. PICK S : chan[d] \in Seq(S) /\ Frame("gone", d) \in S
    <3>1. chan[d] \in Seq([kind : Kinds \cup {"prog", "bye", "gone"}, call : Call])
      BY Types DEF CallsInv
    <3> QED
      BY <3>1 DEF Frame
  <2>3. /\ DOMAIN chan'[d] = 1 .. Len(chan[d]) + 1 /\ Len(chan[d]) \in Nat /\ DOMAIN chan[d] = 1 .. Len(chan[d])
        /\ chan'[d][Len(chan[d]) + 1] = Frame("gone", d)
        /\ \A i \in DOMAIN chan[d] : chan'[d][i] = chan[d][i]
    BY <1>2, <2>2, Appended
  <2>4. \A i \in DOMAIN chan[d] : chan[d][i].kind = "prog" /\ chan[d][i].call = d
    BY <1>0, <2>1 DEF CallFits, ChanFits
  <2>5. \A i \in DOMAIN chan'[d] :
           \/ i \in DOMAIN chan[d] /\ chan'[d][i].kind = "prog" /\ chan'[d][i].call = d
           \/ i = Len(chan[d]) + 1 /\ chan'[d][i].kind = "gone" /\ chan'[d][i].call = d
    BY <2>3, <2>4 DEF Frame
  <2>6. pc[d] = "reg" => DOMAIN chan[d] = {}
    BY <1>0, <2>4 DEF CallFits
  <2>7. CallFits(d)' /\ Owned(d)'
    <3>1. pc'[d] = "reg" => \A i \in DOMAIN chan'[d] : chan'[d][i].kind = "gone"
      BY <2>5, <2>6
    <3> QED
      BY <1>0, <2>1, <3>1 DEF CallFits, Owned, Pending, FrontMoves
  <2>8. ChanFits(d)'
    <3>1. \A i, j \in Ends(chan'[d]) : i = j
      BY <2>5 DEF Ends, IsTerminal
    <3>2. d \in Job \/ DOMAIN chan[d] = {}
      BY <1>0, <2>4 DEF ChanFits
    <3>3. dead'
      BY DEF Fail
    <3> QED
      BY <2>5, <3>1, <3>2, <3>3 DEF ChanFits, Kinds
  <2> QED
    BY <2>7, <2>8, HonestKept DEF Fits
<1> QED
  BY <1>1, <1>2, Types DEF Fail, CallsInv

LEMMA WriteFailsKeeps == ASSUME CallsInv, NEW c \in Call, WriteFails(c) PROVE Keeps
<1>0. CallFits(c) /\ ChanFits(c) /\ Owned(c)
  BY AllFit
<1>1. pc[c] = "reg" /\ pc'[c] = "end" /\ \A d \in Call : d = c \/ pc'[d] = pc[d]
  BY PcTurns DEF WriteFails, At
<1>2. outcome'[c] = "gone" /\ \A d \in Call : d = c \/ outcome'[d] = outcome[d]
  BY IsTold DEF WriteFails
<1>3. /\ UNCHANGED <<down, workerOpen, session, ended, opened, clashed>>
      /\ frontOpen' = FALSE /\ up' = <<>> /\ (doomed => doomed')
      /\ Fail(table \ {c}) /\ dead' /\ table' \subseteq table \ {c} /\ chan'[c] = chan[c]
  BY DEF WriteFails, CloseFront, Fail
<1>4. FrontMoves
  BY <1>1, <1>3 DEF FrontMoves, Begins, Written
<1>5. ASSUME NEW d \in Call, d # c PROVE Fits(d)'
  <2>1. table \ {c} \in SUBSET table
    OBVIOUS
  <2> QED
    BY <1>1, <1>2, <1>3, <1>4, <1>5, <2>1, FailFits
<1>6. CallFits(c)' /\ Owned(c)'
  <2>1. c \notin opened' /\ c \notin table'
    BY <1>0, <1>1, <1>3 DEF CallFits
  <2> QED
    BY <1>0, <1>1, <2>1 DEF CallFits, Owned, Pending
<1>7. ChanFits(c)'
  BY <1>0, <1>3, <1>4, FrontFarewell, FrontSame DEF ChanFits
<1>8. Honest(c)'
  BY <1>2, <1>3 DEF Honest, Kinds
<1> QED
  BY <1>4, <1>5, <1>6, <1>7, <1>8 DEF Fits, CallsFit, Keeps

LEMMA FailKeeps ==
    ASSUME CallsInv, Fail(table), UNCHANGED <<down, workerOpen, session, doomed, caller>>,
           UNCHANGED <<up, frontOpen>> \/ CloseFront
    PROVE  Keeps
<1>1. UNCHANGED <<pc, outcome, ended, opened, clashed>> /\ table' \subseteq table /\ dead'
  BY DEF caller, Fail
<1>2. FrontMoves
  BY <1>1 DEF FrontMoves, Begins, CloseFront
<1>3. ASSUME NEW d \in Call PROVE Fits(d)'
  BY <1>1, <1>2, FailFits
<1> QED
  BY <1>2, <1>3 DEF CallsFit, Keeps

-----------------------------------------------------------------------------
\* deliver: the channel of a call on the table holds progress, and has room for one
\* frame once the oldest has gone.
ChanFrame == [kind : Kinds \cup {"prog", "bye", "gone"}, call : Call]
RoomIn(c) == IF Len(chan[c]) = Capacity(c) THEN Tail(chan[c]) ELSE chan[c]

LEMMA Capacities == ASSUME NEW c PROVE Capacity(c) \in Nat \ {0}
BY ChannelAssumption DEF Capacity

LEMMA Channels ==
    ASSUME CallsInv, NEW c \in Call
    PROVE  /\ chan[c] \in Seq(ChanFrame) /\ DOMAIN chan[c] = 1 .. Len(chan[c])
           /\ Len(chan[c]) \in Nat /\ Len(chan[c]) <= Capacity(c)
<1>1. chan[c] \in Seq(ChanFrame) /\ Len(chan[c]) <= Capacity(c)
  BY DEF CallsInv, TypeOK, ChanFrame
<1> QED
  BY <1>1

LEMMA RoomForOne ==
    ASSUME CallsInv, NEW c \in table, NEW q, q = RoomIn(c)
    PROVE  /\ q \in Seq(ChanFrame) /\ Len(q) < Capacity(c)
           /\ \A i \in DOMAIN q : q[i].kind = "prog" /\ q[i].call = c /\ c \in Job
<1>0. c \in Call
  BY Types DEF CallsInv
<1>1. /\ chan[c] \in Seq(ChanFrame) /\ DOMAIN chan[c] = 1 .. Len(chan[c])
      /\ Len(chan[c]) \in Nat /\ Len(chan[c]) <= Capacity(c)
  BY <1>0, Channels
<1>2. \A i \in DOMAIN chan[c] : chan[c][i].kind = "prog" /\ chan[c][i].call = c /\ c \in Job
  BY <1>0, AllFit DEF CallFits, ChanFits
<1>3. CASE Len(chan[c]) # Capacity(c)
  <2>1. Capacity(c) \in Nat
    BY Capacities
  <2> QED
    BY <1>1, <1>2, <1>3, <2>1 DEF RoomIn
<1>4. CASE Len(chan[c]) = Capacity(c)
  <2>1. Capacity(c) \in Nat \ {0}
    BY Capacities
  <2>2. chan[c] # <<>> /\ q = Tail(chan[c])
    BY <1>1, <1>4, <2>1 DEF RoomIn
  <2>3. /\ q \in Seq(ChanFrame) /\ Len(q) = Len(chan[c]) - 1 /\ DOMAIN q = 1 .. Len(chan[c]) - 1
        /\ \A i \in 1 .. Len(chan[c]) - 1 : q[i] = chan[c][i + 1]
    BY <1>1, <2>2, Headed
  <2>4. ASSUME NEW i \in DOMAIN q PROVE q[i].kind = "prog" /\ q[i].call = c /\ c \in Job
    <3>1. i + 1 \in DOMAIN chan[c] /\ q[i] = chan[c][i + 1]
      BY <1>1, <2>3, <2>4
    <3> QED
      BY <1>2, <3>1
  <2> QED
    BY <1>1, <1>4, <2>1, <2>3, <2>4
<1> QED
  BY <1>3, <1>4

LEMMA FirstUp ==
    ASSUME CallsInv, up # <<>>, NEW f, f = Head(up)
    PROVE  /\ f \in UpFrame /\ f.call \in Call /\ f \in ChanFrame /\ f.kind # "gone"
           /\ f.kind = "prog" => f.call \in Job /\ h[f.call] # "none"
           /\ f.kind \in Kinds => f.call \in Request /\ h[f.call] \notin Before
           /\ f.kind = "bye" => f.call = Bye /\ Farewell
           /\ pc[f.call] \notin {"idle", "reg"}
<1>1. up \in Seq(UpFrame)
  BY Types DEF CallsInv
<1>2. 1 \in DOMAIN up /\ f = up[1] /\ f \in UpFrame
  BY <1>1, Headed
<1>3. UpFits(f)
  BY <1>2 DEF CallsInv, UpShape
<1>4. f.call \in Call /\ f \in ChanFrame /\ f.kind \in Kinds \cup {"prog", "bye"}
  BY <1>2 DEF UpFrame, ChanFrame
<1>5. ASSUME f.kind = "bye" PROVE Farewell
  <2>1. \A c \in Request : h[c] = "done" /\ c \in table => Answered(c, 1 - 1)
    BY <1>2, <1>5 DEF CallsInv, UpShape
  <2>2. \A c : ~Answered(c, 1 - 1)
    BY DEF Answered
  <2> QED
    BY <1>3, <1>5, <2>1, <2>2 DEF UpFits, Farewell
<1>6. pc[f.call] \notin {"idle", "reg"}
  BY <1>3, <1>4, Known, Calls DEF UpFits, Before
<1> QED
  BY <1>2, <1>3, <1>4, <1>5, <1>6 DEF UpFits, Kinds

LEMMA DeliverKeeps == ASSUME CallsInv, Deliver PROVE Keeps
<1>1. PICK f, c : f = Head(up) /\ c = f.call
  OBVIOUS
<1>2. /\ f \in ChanFrame /\ c \in Call /\ f.kind # "gone" /\ pc[c] \notin {"idle", "reg"} /\ up # <<>>
      /\ f.kind = "prog" => c \in Job
      /\ f.kind \in Kinds => c \in Request /\ h[c] \notin Before
      /\ f.kind = "bye" => c = Bye /\ Farewell
  BY <1>1, FirstUp DEF Deliver
<1>3. /\ UNCHANGED <<down, frontOpen, workerOpen, session, dead, doomed, pc, outcome, ended, clashed>>
      /\ up' = Tail(up) /\ table' \subseteq table /\ (IsTerminal(f) => c \notin table')
  BY <1>1 DEF Deliver
<1>4. FrontMoves
  BY <1>1, <1>2, <1>3 DEF FrontMoves, Begins, Settles
<1>5. CASE UNCHANGED <<chan, opened>>
  BY <1>3, <1>4, <1>5, Untouched DEF Same, CallsFit, Keeps
<1>6. CASE /\ c \in table
           /\ chan' = [chan EXCEPT ![c] = Append(RoomIn(c), f)]
           /\ opened' = IF HasFile(f) THEN opened \cup {c} ELSE opened
  <2>1. chan'[c] = Append(RoomIn(c), f) /\ \A d \in Call : d = c \/ chan'[d] = chan[d]
    BY <1>2, <1>6, Types DEF CallsInv
  <2>2. CallFits(c) /\ pc[c] \in {"wait", "stop", "grace"} /\ c \notin opened
    BY <1>2, <1>6, AllFit DEF CallFits, Pending
  <2>3. PICK q : q = RoomIn(c)
    OBVIOUS
  <2>4. q \in Seq(ChanFrame) /\ \A i \in DOMAIN q : q[i].kind = "prog" /\ q[i].call = c /\ c \in Job
    BY <1>6, <2>3, RoomForOne
  <2>5. /\ DOMAIN chan'[c] = 1 .. Len(q) + 1 /\ DOMAIN q = 1 .. Len(q) /\ Len(q) \in Nat
        /\ chan'[c][Len(q) + 1] = f /\ \A i \in 1 .. Len(q) : chan'[c][i] = q[i]
    BY <1>2, <2>1, <2>3, <2>4, Appended
  <2>6. \A i \in DOMAIN chan'[c] :
           \/ i = Len(q) + 1 /\ chan'[c][i] = f
           \/ chan'[c][i].kind = "prog" /\ chan'[c][i].call = c /\ c \in Job
    BY <2>4, <2>5
  <2>7. CallFits(c)'
    <3>1. c \in table' => c \notin opened' /\ \A i \in DOMAIN chan'[c] : chan'[c][i].kind = "prog"
      BY <1>3, <1>6, <2>2, <2>6 DEF HasFile, IsTerminal
    <3> QED
      BY <1>3, <2>2, <3>1 DEF CallFits, Pending
  <2>8. ChanFits(c)'
    <3>1. \A i, j \in Ends(chan'[c]) : i = j
      BY <2>6 DEF Ends, IsTerminal
    <3>2. Farewell => Farewell'
      BY <1>4, FrontFarewell
    <3>3. \A i \in DOMAIN chan'[c] : chan'[c][i] = f \/ (chan'[c][i].kind = "prog" /\ chan'[c][i].call = c /\ c \in Job)
      BY <2>6
    <3>4. UNCHANGED h
      BY <1>3 DEF session
    <3> QED
      BY <1>1, <1>2, <3>1, <3>2, <3>3, <3>4 DEF ChanFits, Kinds
  <2>9. Owned(c)'
    <3>1. SUFFICES ASSUME c \in opened' PROVE pc[c] = "wait" /\ c \in FilesIn(chan'[c])
      BY <1>3 DEF Owned
    <3>2. HasFile(f) /\ c \in Open
      BY <1>1, <1>6, <2>2, <3>1 DEF HasFile
    <3>3. Len(q) + 1 \in DOMAIN chan'[c]
      BY <2>5
    <3> QED
      BY <1>1, <2>2, <2>5, <3>2, <3>3, Calls DEF FilesIn, CallFits
  <2>10. \A d \in Call : d = c \/ (Same(d) /\ chan'[d] = chan[d])
    BY <1>3, <1>6, <2>1 DEF Same
  <2> QED
    BY <1>2, <1>3, <1>4, <2>7, <2>8, <2>9, <2>10, HonestKept, CallMoves DEF Fits, Keeps
<1> QED
  <2>1. UNCHANGED <<chan, opened>>
        \/ (/\ c \in table
            /\ chan' = [chan EXCEPT ![c] = Append(RoomIn(c), f)]
            /\ opened' = IF HasFile(f) THEN opened \cup {c} ELSE opened)
    BY <1>1 DEF Deliver, RoomIn
  <2> QED
    BY <1>5, <1>6, <2>1

LEMMA ReaderEndsKeeps == ASSUME CallsInv, ReaderEnds PROVE Keeps
BY FailKeeps DEF ReaderEnds, wire
LEMMA RetireFailsKeeps == ASSUME CallsInv, RetireFails PROVE Keeps
BY FailKeeps DEF RetireFails, wire
LEMMA TerminateKillKeeps == ASSUME CallsInv, TerminateKill PROVE Keeps
BY FailKeeps DEF TerminateKill
LEMMA TerminateByeKeeps == ASSUME CallsInv, TerminateBye PROVE Keeps
<1>1. UNCHANGED <<wire, session, dead, table, chan, doomed, pc, outcome, ended, opened, clashed>>
  BY DEF TerminateBye, caller
<1>2. FrontMoves
  BY <1>1 DEF FrontMoves, Begins, wire
<1> QED
  BY <1>1, <1>2, Untouched DEF Same, CallsFit, Keeps

-----------------------------------------------------------------------------
\* The callers: what the arms of a select take and tell, and how a caller gives up.
LEMMA Parts ==
    ASSUME CallsInv, NEW c \in Call
    PROVE  /\ CallFits(c) /\ ChanFits(c) /\ Owned(c)
           /\ c \in Job => c \in Request /\ c \notin opened /\ c # Bye
           /\ c \in opened => c \in Open
BY AllFit, Calls, Types DEF CallsInv

LEMMA TakeReplyKeeps == ASSUME CallsInv, NEW c \in Call, TakeReply(c) PROVE Keeps
<1>0. CallFits(c) /\ ChanFits(c) /\ Owned(c) /\ c \notin Job /\ chan[c] # <<>>
  BY Parts DEF TakeReply
<1>1. pc[c] = "wait" /\ pc'[c] = "end" /\ \A d \in Call : d = c \/ pc'[d] = pc[d]
  BY PcTurns DEF TakeReply, At
<1>2. outcome'[c] = Head(chan[c]).kind /\ \A d \in Call : d = c \/ outcome'[d] = outcome[d]
  BY IsTold DEF TakeReply
<1>3. UNCHANGED <<down, up, frontOpen, workerOpen, session, dead, table, doomed, ended, opened, clashed>>
  BY DEF TakeReply, wire
<1>4. FrontMoves
  BY <1>0, <1>1, <1>3 DEF FrontMoves, Begins, Written, Settles
<1>5. /\ chan[c] \in Seq(ChanFrame) /\ DOMAIN chan[c] = 1 .. Len(chan[c])
      /\ Len(chan[c]) \in Nat /\ Len(chan[c]) <= 1
  BY <1>0, Channels DEF Capacity
<1>6. \A i \in DOMAIN chan[c] : i = 1
  BY <1>5
<1>7. 1 \in DOMAIN chan[c] /\ Head(chan[c]) = chan[c][1]
  BY <1>0, FirstInChan
<1>8. chan'[c] = <<>> /\ \A d \in Call : d = c \/ chan'[d] = chan[d]
  <2>1. Tail(chan[c]) = <<>>
    BY <1>0, <1>5
  <2>2. chan' = [chan EXCEPT ![c] = Tail(@)]
    BY DEF TakeReply
  <2> QED
    BY <2>1, <2>2, Types DEF CallsInv
<1>9. c \notin table
  BY <1>0, <1>7 DEF CallFits, ChanFits
<1>10. CallFits(c)'
  BY <1>1, <1>3, <1>9 DEF CallFits, Pending
<1>11. ChanFits(c)'
  BY <1>8 DEF ChanFits, Ends
<1>12. Owned(c)'
  <2>1. c \in opened => c \in FilesIn(chan[c])
    BY <1>0, <1>1 DEF Owned
  <2>2. c \in FilesIn(chan[c]) => chan[c][1].kind = "ok"
    BY <1>6 DEF FilesIn, HasFile
  <2> QED
    BY <1>1, <1>2, <1>3, <1>7, <2>1, <2>2 DEF Owned
<1>13. Honest(c)'
  <2>1. chan[c][1].kind = "bye" => Farewell
    BY <1>7, InChan
  <2> QED
    BY <1>0, <1>2, <1>4, <1>7, <2>1, FrontFarewell DEF Honest
<1> QED
  BY <1>1, <1>2, <1>3, <1>4, <1>8, <1>10, <1>11, <1>12, <1>13, CallMoves DEF Fits, Same, Keeps

LEMMA TakeFrameKeeps == ASSUME CallsInv, NEW c \in Call, TakeFrame(c) PROVE Keeps
<1>0. /\ CallFits(c) /\ ChanFits(c) /\ c \in Job /\ c \in Request /\ c \notin opened /\ c # Bye
      /\ pc[c] \in {"wait", "grace"} /\ chan[c] # <<>> /\ c \notin Open
  BY Parts, Calls DEF TakeFrame
<1>1. UNCHANGED <<down, up, frontOpen, workerOpen, session, dead, doomed, ended, opened, clashed>>
  BY DEF TakeFrame, wire
<1>2. 1 \in DOMAIN chan[c] /\ Head(chan[c]) = chan[c][1]
  BY <1>0, FirstInChan
<1>3. CASE chan' = [chan EXCEPT ![c] = Tail(@)] /\ UNCHANGED <<pc, outcome, table>>
  <2>1. chan'[c] = Tail(chan[c]) /\ \A d \in Call : d = c \/ chan'[d] = chan[d]
    BY <1>3, Types DEF CallsInv
  <2>2. chan[c] \in Seq(ChanFrame) /\ DOMAIN chan[c] = 1 .. Len(chan[c]) /\ Len(chan[c]) \in Nat
    BY Channels
  <2>3. /\ DOMAIN chan'[c] = 1 .. Len(chan[c]) - 1
        /\ \A i \in 1 .. Len(chan[c]) - 1 : chan'[c][i] = chan[c][i + 1]
    BY <1>0, <2>1, <2>2, Headed
  <2>4. \A i \in DOMAIN chan'[c] : i + 1 \in DOMAIN chan[c] /\ chan'[c][i] = chan[c][i + 1]
    BY <2>2, <2>3
  <2>5. FrontMoves
    BY <1>1, <1>3 DEF FrontMoves, Begins
  <2>6. CallFits(c)'
    BY <1>0, <1>1, <1>3, <2>4 DEF CallFits
  <2>7. ChanFits(c)'
    <3>1. ASSUME NEW i \in Ends(chan'[c]), NEW j \in Ends(chan'[c]) PROVE i = j
      <4>1. i + 1 \in Ends(chan[c]) /\ j + 1 \in Ends(chan[c])
        BY <2>4 DEF Ends
      <4>2. i + 1 = j + 1 /\ i \in Nat /\ j \in Nat
        BY <1>0, <2>2, <2>3, <4>1 DEF ChanFits, Ends
      <4> QED
        BY <4>2
    <3>2. ASSUME NEW i \in DOMAIN chan'[c], NEW f, f = chan'[c][i]
          PROVE  /\ f.call = c
                 /\ f.kind = "prog" => c \in Job
                 /\ f.kind \in Kinds => c \in Request /\ h[c] \notin Before
                 /\ f.kind = "gone" => dead
                 /\ f.kind # "bye"
      BY <1>0, <2>4, <3>2, InChan
    <3>3. UNCHANGED <<h, dead>>
      BY <1>1 DEF session
    <3> QED
      BY <3>1, <3>2, <3>3 DEF ChanFits
  <2> QED
    BY <1>0, <1>1, <1>3, <2>1, <2>5, <2>6, <2>7, HonestKept, CallMoves DEF Fits, Owned, Same, Keeps
<1>4. CASE /\ Head(chan[c]).kind # "prog"
           /\ Told(c, IF pc[c] = "grace" /\ Head(chan[c]).kind = "ok" THEN "late" ELSE Head(chan[c]).kind)
           /\ Abandon(c, "end")
  <2>1. PICK k, o : k = chan[c][1].kind /\ o = IF pc[c] = "grace" /\ k = "ok" THEN "late" ELSE k
    OBVIOUS
  <2>2. /\ k \in Kinds \cup {"gone"} /\ (k \in Kinds => h[c] \notin Before) /\ (k = "gone" => dead)
    BY <1>0, <1>2, <1>4, <2>1, InChan
  <2>3. outcome'[c] = o /\ \A d \in Call : d = c \/ outcome'[d] = outcome[d]
    BY <1>2, <1>4, <2>1, IsTold
  <2>4. /\ table' = table \ {c} /\ pc'[c] = "end" /\ chan'[c] = <<>>
        /\ \A d \in Call : d = c \/ (pc'[d] = pc[d] /\ chan'[d] = chan[d])
    BY <1>0, <1>4, Abandoned
  <2>5. FrontMoves
    BY <1>0, <1>1, <2>2, <2>4 DEF FrontMoves, Begins, Written, Settles
  <2>6. CallFits(c)' /\ ChanFits(c)' /\ Owned(c)'
    BY <1>0, <1>1, <2>4 DEF CallFits, ChanFits, Owned, Ends, Pending
  <2>7. Honest(c)'
    <3>1. UNCHANGED <<h, dead>>
      BY <1>1 DEF session
    <3> QED
      BY <1>0, <2>1, <2>2, <2>3, <3>1 DEF Honest, Kinds
  <2> QED
    BY <1>1, <2>3, <2>4, <2>5, <2>6, <2>7, CallMoves DEF Fits, Same, Keeps
<1> QED
  BY <1>3, <1>4 DEF TakeFrame

\* The frame jobWorkerGone finds is the end of its job.
LEMMA TheEnd ==
    ASSUME CallsInv, NEW c \in Call, Ends(chan[c]) # {},
           NEW first, first = CHOOSE i \in Ends(chan[c]) : \A j \in Ends(chan[c]) : i <= j
    PROVE  first \in DOMAIN chan[c] /\ chan[c][first].kind # "prog"
<1>1. \A i, j \in Ends(chan[c]) : i = j
  BY AllFit DEF ChanFits
<1>2. \A i \in Ends(chan[c]) : i \in Nat
  BY Channels DEF Ends
<1>3. \E i \in Ends(chan[c]) : \A j \in Ends(chan[c]) : i <= j
  BY <1>1, <1>2
<1>4. first \in Ends(chan[c])
  BY <1>3
<1> QED
  BY <1>4 DEF Ends, IsTerminal

LEMMA SeeGoneKeeps == ASSUME CallsInv, NEW c \in Call, SeeGone(c) PROVE Keeps
<1>0. /\ CallFits(c) /\ ChanFits(c) /\ Owned(c) /\ (c \in Job => c \in Request /\ c # Bye)
      /\ (c \in opened => c \in Open) /\ pc[c] \in {"wait", "grace"} /\ dead
  BY Parts DEF SeeGone
<1>1. UNCHANGED <<down, up, frontOpen, workerOpen, session, dead, doomed, ended, opened, clashed>>
  BY DEF SeeGone, wire
<1>2. /\ table' = table \ {c} /\ pc'[c] = (IF c \in Open THEN "drain" ELSE "end")
      /\ chan'[c] = (IF c \in Open THEN chan[c] ELSE <<>>)
      /\ \A d \in Call : d = c \/ (pc'[d] = pc[d] /\ chan'[d] = chan[d])
  BY Abandoned DEF SeeGone
<1>3. PICK first : first = CHOOSE i \in Ends(chan[c]) : \A j \in Ends(chan[c]) : i <= j
  OBVIOUS
<1>4. PICK o : o = IF c \in Job /\ Ends(chan[c]) # {} THEN chan[c][first].kind ELSE "gone"
  OBVIOUS
<1>5. outcome'[c] = o /\ \A d \in Call : d = c \/ outcome'[d] = outcome[d]
  BY <1>3, <1>4, IsTold DEF SeeGone
<1>6. o \in Kinds \cup {"gone"} /\ (c \in Job /\ o \in Kinds => h[c] \notin Before)
  <2>1. CASE c \in Job /\ Ends(chan[c]) # {}
    <3>1. first \in DOMAIN chan[c] /\ chan[c][first].kind # "prog"
      BY <1>3, <2>1, TheEnd
    <3> QED
      BY <1>0, <1>4, <2>1, <3>1, InChan
  <2>2. CASE ~(c \in Job /\ Ends(chan[c]) # {})
    BY <1>4, <2>2 DEF Kinds
  <2> QED
    BY <2>1, <2>2
<1>7. FrontMoves
  BY <1>0, <1>1, <1>2 DEF FrontMoves, Begins, Written, Settles
<1>8. CallFits(c)' /\ Owned(c)'
  BY <1>0, <1>1, <1>2, Calls DEF CallFits, Owned, Pending
<1>9. ChanFits(c)'
  BY <1>0, <1>1, <1>2, <1>7, FrontFarewell, FrontSame DEF ChanFits, Ends
<1>10. Honest(c)'
  <2>1. UNCHANGED <<h, dead>>
    BY <1>1 DEF session
  <2> QED
    BY <1>0, <1>5, <1>6, <2>1 DEF Honest, Kinds
<1> QED
  BY <1>1, <1>2, <1>5, <1>7, <1>8, <1>9, <1>10, CallMoves DEF Fits, Same, Keeps

LEMMA SeeCtxKeeps == ASSUME CallsInv, NEW c \in Call, SeeCtx(c) PROVE Keeps
<1>0. CallFits(c) /\ ChanFits(c) /\ Owned(c) /\ (c \in opened => c \in Open) /\ c \in ended
  BY Parts DEF SeeCtx
<1>1. UNCHANGED <<down, up, frontOpen, workerOpen, session, dead, doomed, ended, opened, clashed>>
  BY DEF SeeCtx, wire
<1>2. CASE c \in Job /\ At(c, "wait", "stop") /\ UNCHANGED <<outcome, table, chan>>
  <2>1. pc[c] = "wait" /\ pc'[c] = "stop" /\ \A d \in Call : d = c \/ pc'[d] = pc[d]
    BY <1>2, PcTurns DEF At
  <2>2. FrontMoves
    BY <1>1, <1>2, <2>1 DEF FrontMoves, Begins, Written
  <2>3. CallFits(c)' /\ Owned(c)'
    BY <1>0, <1>1, <1>2, <2>1, Calls DEF CallFits, Owned, Pending
  <2>4. ChanFits(c)'
    BY <1>0, <1>1, <1>2, <2>2, FrontFarewell, FrontSame DEF ChanFits
  <2> QED
    BY <1>1, <1>2, <2>1, <2>2, <2>3, <2>4, HonestKept, CallMoves DEF Fits, Same, Keeps
<1>3. CASE c \notin Job /\ pc[c] = "wait" /\ Told(c, "ctx") /\ Abandon(c, "drainc")
  <2>1. /\ table' = table \ {c} /\ pc'[c] = (IF c \in Open THEN "drainc" ELSE "end")
        /\ chan'[c] = (IF c \in Open THEN chan[c] ELSE <<>>)
        /\ \A d \in Call : d = c \/ (pc'[d] = pc[d] /\ chan'[d] = chan[d])
    BY <1>3, Abandoned
  <2>2. outcome'[c] = "ctx" /\ \A d \in Call : d = c \/ outcome'[d] = outcome[d]
    BY <1>3, IsTold
  <2>3. FrontMoves
    BY <1>1, <1>3, <2>1 DEF FrontMoves, Begins, Written, Settles
  <2>4. CallFits(c)' /\ Owned(c)'
    BY <1>0, <1>1, <1>3, <2>1 DEF CallFits, Owned, Pending
  <2>5. ChanFits(c)'
    BY <1>0, <1>1, <2>1, <2>3, FrontFarewell, FrontSame DEF ChanFits, Ends
  <2>6. Honest(c)'
    BY <1>3, <2>2 DEF Honest
  <2> QED
    BY <1>1, <2>1, <2>2, <2>3, <2>4, <2>5, <2>6, CallMoves DEF Fits, Same, Keeps
<1> QED
  BY <1>2, <1>3 DEF SeeCtx

LEMMA SendCancelKeeps == ASSUME CallsInv, NEW c \in Call, SendCancel(c) PROVE Keeps
<1>0. CallFits(c) /\ ChanFits(c) /\ Owned(c) /\ (c \in opened => c \in Open)
  BY Parts
<1>1. /\ pc[c] \in {"cancel", "stop"} /\ pc'[c] = (IF pc[c] = "cancel" THEN "end" ELSE "grace")
      /\ \A d \in Call : d = c \/ pc'[d] = pc[d]
  BY PcTurns DEF SendCancel, At
<1>2. UNCHANGED <<workerOpen, session, dead, table, chan, outcome, ended, opened, clashed>> /\ (doomed => doomed')
  BY DEF SendCancel
<1>3. /\ c \in ended /\ c \notin opened /\ c \in Request
      /\ pc[c] = "cancel" => c \in Open /\ c \notin Job /\ c \notin table
      /\ pc[c] = "stop" => c \in Job
  BY <1>0, <1>1, <1>2, Calls DEF CallFits, Owned, Pending
<1>4. \/ down' = down /\ up' = up /\ frontOpen' = frontOpen
      \/ down' = down /\ up' = <<>> /\ ~frontOpen'
      \/ ~dead /\ frontOpen /\ workerOpen /\ down' = Append(down, Frame("cancel", c)) /\ up' = up /\ frontOpen' = frontOpen
  BY DEF SendCancel, CloseFront
<1>5. FrontMoves
  BY <1>1, <1>2, <1>3, <1>4 DEF FrontMoves, Begins, Written, Settles
<1>6. CallFits(c)' /\ Owned(c)'
  BY <1>0, <1>1, <1>2, <1>3 DEF CallFits, Owned, Pending
<1>7. ChanFits(c)'
  BY <1>0, <1>2, <1>5, FrontFarewell, FrontSame DEF ChanFits
<1> QED
  BY <1>1, <1>2, <1>5, <1>6, <1>7, HonestKept, CallMoves DEF Fits, Same, Keeps

LEMMA GraceExpiresKeeps == ASSUME CallsInv, NEW c \in Job, GraceExpires(c) PROVE Keeps
<1>0. c \in Call /\ c \notin Open /\ c # Bye /\ CallFits(c) /\ c \notin opened /\ pc[c] = "grace"
  BY Calls, Parts DEF GraceExpires
<1>1. /\ UNCHANGED <<down, workerOpen, session, dead, ended, opened, clashed>>
      /\ up' = <<>> /\ frontOpen' = FALSE /\ doomed' = TRUE
  BY DEF GraceExpires, CloseFront
<1>2. /\ table' = table \ {c} /\ pc'[c] = "end" /\ chan'[c] = <<>>
      /\ \A d \in Call : d = c \/ (pc'[d] = pc[d] /\ chan'[d] = chan[d])
  BY <1>0, Abandoned DEF GraceExpires
<1>3. outcome'[c] = "terminated" /\ \A d \in Call : d = c \/ outcome'[d] = outcome[d]
  BY <1>0, IsTold DEF GraceExpires
<1>4. FrontMoves
  BY <1>0, <1>1, <1>2 DEF FrontMoves, Begins, Written, Settles
<1>5. CallFits(c)' /\ ChanFits(c)' /\ Owned(c)'
  BY <1>0, <1>1, <1>2 DEF CallFits, ChanFits, Owned, Ends, Pending
<1>6. Honest(c)'
  BY <1>0, <1>1, <1>3 DEF Honest, Kinds
<1> QED
  BY <1>0, <1>1, <1>2, <1>3, <1>4, <1>5, <1>6, CallMoves DEF Fits, Same, Keeps

LEMMA CallerEndsKeeps == ASSUME CallsInv, NEW c \in Call, CallerEnds(c) PROVE Keeps
<1>1. UNCHANGED <<wire, session, dead, table, chan, doomed, pc, outcome, opened, clashed>> /\ ended \subseteq ended'
  BY DEF CallerEnds, client
<1>2. FrontMoves
  BY <1>1 DEF FrontMoves, Begins, wire
<1> QED
  BY <1>1, <1>2, Untouched DEF Same, CallsFit, Keeps

LEMMA DrainKeeps == ASSUME CallsInv, NEW c \in Call, Drain(c) PROVE Keeps
<1>0. CallFits(c) /\ Owned(c)
  BY Parts
<1>1. /\ pc[c] \in {"drain", "drainc"} /\ pc'[c] = (IF pc[c] = "drain" THEN "end" ELSE "cancel")
      /\ \A d \in Call : d = c \/ pc'[d] = pc[d]
  BY PcTurns DEF Drain, At
<1>2. /\ UNCHANGED <<down, up, frontOpen, workerOpen, session, dead, table, doomed, outcome, ended, clashed>>
      /\ opened' = opened \ FilesIn(chan[c])
  BY DEF Drain, wire
<1>3. chan'[c] = <<>> /\ \A d \in Call : d = c \/ chan'[d] = chan[d]
  BY Types DEF CallsInv, Drain
<1>4. c \in Open /\ c \notin Job /\ c \notin table /\ c \notin opened'
  BY <1>0, <1>1, <1>2, Calls DEF CallFits, Owned, Pending
<1>5. FrontMoves
  BY <1>1, <1>2, <1>4 DEF FrontMoves, Begins, Written, Settles
<1>6. CallFits(c)' /\ ChanFits(c)' /\ Owned(c)'
  BY <1>0, <1>1, <1>2, <1>3, <1>4 DEF CallFits, ChanFits, Owned, Ends, Pending
<1> QED
  BY <1>1, <1>2, <1>3, <1>5, <1>6, HonestKept, CallMoves DEF Fits, Same, Keeps

\* Every step of the daemon's end.
ClientStep ==
    \/ \E c \in Call : Begin(c) \/ Caller(c) \/ CallerEnds(c)
    \/ \E c \in Job : GraceExpires(c)
    \/ ReadLoop
    \/ TerminateBye \/ SayBye \/ TerminateKill \/ RetireFails
WorkerStep == (SessionNext \/ Dies) /\ UNCHANGED <<client, caller>>

LEMMA NextSteps == ASSUME Next PROVE ClientStep \/ WorkerStep
BY DEF Next, ClientStep, WorkerStep, Terminator, Kill, Crash

LEMMA ClientKeeps == ASSUME CallsInv, ClientStep PROVE Keeps
<1>1. CASE \E c \in Call : Begin(c) \/ Caller(c) \/ CallerEnds(c)
  <2>1. PICK c \in Call : Begin(c) \/ Caller(c) \/ CallerEnds(c)
    BY <1>1
  <2>2. CASE Sends(c)
    BY <2>2, WriteKeeps, NotWrittenKeeps, WriteFailsKeeps, SendCancelKeeps DEF Sends
  <2>3. CASE Selects(c)
    BY <2>3, TakeReplyKeeps, TakeFrameKeeps, SeeGoneKeeps, SeeCtxKeeps DEF Selects
  <2>4. CASE Begin(c)
    BY <2>4, BeginKeeps DEF Begin
  <2> QED
    BY <2>1, <2>2, <2>3, <2>4, CallerEndsKeeps, DrainKeeps DEF Caller
<1>2. CASE \E c \in Job : GraceExpires(c)
  BY <1>2, GraceExpiresKeeps
<1>3. CASE SayBye
  BY <1>3, BeginKeeps, Calls DEF SayBye
<1> QED
  BY <1>1, <1>2, <1>3, DeliverKeeps, ReaderEndsKeeps, TerminateByeKeeps, TerminateKillKeeps, RetireFailsKeeps
     DEF ClientStep, ReadLoop

LEMMA ClientInv ==
    ASSUME CallsInv, ClientStep
    PROVE  /\ CallShape' /\ ChanShape' /\ UpShape' /\ DownShape' /\ WorkerShape'
           /\ Arrives' /\ SentBack' /\ Left' /\ Clash' /\ OwnsFile' /\ ByeShape'
           /\ JobEndIsHonest' /\ ReuseIsSafe'
<1>1. FrontMoves /\ CallsFit'
  BY ClientKeeps DEF Keeps
<1> QED
  BY <1>1, FitAll, FrontUps, FrontDowns, FrontKnows, FrontArrives, FrontBacks, FrontLeaves, FrontClash

LEMMA WorkerInv ==
    ASSUME CallsInv, WorkerStep
    PROVE  /\ CallShape' /\ ChanShape' /\ UpShape' /\ DownShape' /\ WorkerShape'
           /\ Arrives' /\ SentBack' /\ Left' /\ Clash' /\ OwnsFile' /\ ByeShape'
           /\ JobEndIsHonest' /\ ReuseIsSafe'
<1>1. WorkerMoves /\ (SessionNext \/ Dies) /\ UNCHANGED <<client, caller>>
  BY WorkerStepMoves DEF WorkerStep
<1> QED
  BY <1>1, WorkerChans, WorkerUps, WorkerDowns, WorkerArrives, WorkerBacks, WorkerLeaves, WorkerClash,
     WorkerKnowsNext, KnownNext, WorkerReuse

-----------------------------------------------------------------------------
\* Types.
FrontTypeOK ==
    /\ dead \in BOOLEAN /\ doomed \in BOOLEAN
    /\ table \subseteq Call
    /\ \A c \in Call : chan[c] \in Seq(ChanFrame) /\ Len(chan[c]) <= Capacity(c)
    /\ chan = [c \in Call |-> chan[c]]
    /\ term \in {"no", "bye", "kill"}
    /\ pc \in [Call -> CallState]
    /\ outcome \in [Call -> Outcome \cup {None}]
    /\ ended \subseteq Call
    /\ opened \subseteq Open
    /\ clashed \subseteq Job

LEMMA TypeParts == TypeOK <=> SessionTypeOK /\ FrontTypeOK
<1>1. ASSUME TypeOK PROVE FrontTypeOK
  BY <1>1 DEF TypeOK, FrontTypeOK, ChanFrame
<1>2. ASSUME FrontTypeOK PROVE chan \in [Call -> Seq(ChanFrame)]
  BY <1>2 DEF FrontTypeOK
<1> QED
  BY <1>1, <1>2 DEF TypeOK, FrontTypeOK, ChanFrame

LEMMA Wires ==
    ASSUME SessionTypeOK
    PROVE  /\ down \in Seq(DownFrame) /\ (down # <<>> => Tail(down) \in Seq(DownFrame))
           /\ up \in Seq(UpFrame) /\ (up # <<>> => Tail(up) \in Seq(UpFrame))
           /\ \A f \in DownFrame : Append(down, f) \in Seq(DownFrame)
           /\ \A f \in UpFrame : Append(up, f) \in Seq(UpFrame)
           /\ <<>> \in Seq(DownFrame) /\ <<>> \in Seq(UpFrame)
<1>1. down \in Seq(DownFrame) /\ up \in Seq(UpFrame)
  BY DEF SessionTypeOK
<1>2. down # <<>> => Tail(down) \in Seq(DownFrame)
  BY <1>1, Headed
<1>3. up # <<>> => Tail(up) \in Seq(UpFrame)
  BY <1>1, Headed
<1>4. \A f \in DownFrame : Append(down, f) \in Seq(DownFrame)
  BY <1>1, Appended
<1>5. \A f \in UpFrame : Append(up, f) \in Seq(UpFrame)
  BY <1>1, Appended
<1> QED
  BY <1>1, <1>2, <1>3, <1>4, <1>5

LEMMA ReplyTypes ==
    ASSUME SessionTypeOK, NEW f \in UpFrame, NEW rest \in Seq(DownFrame), Reply(f, rest), UNCHANGED frontOpen
    PROVE  /\ down' \in Seq(DownFrame) /\ up' \in Seq(UpFrame)
           /\ frontOpen' \in BOOLEAN /\ workerOpen' \in BOOLEAN /\ cancelled' \subseteq Request
BY Wires DEF Reply, SessionTypeOK, InFlight

\* The frames that are written.
LEMMA Frames ==
    /\ \A c \in Call : Frame("req", c) \in DownFrame
    /\ \A c \in Call : Frame("cancel", c) \in DownFrame
    /\ \A k \in Kinds, c \in Request : Frame(k, c) \in UpFrame
    /\ \A c \in Request : Frame("prog", c) \in UpFrame
    /\ Frame("bye", Bye) \in UpFrame
    /\ \A c \in Call : Frame("gone", c) \in ChanFrame
    /\ "refused" \in Kinds /\ "err" \in Kinds
BY Calls DEF Frame, DownFrame, UpFrame, ChanFrame, Kinds

LEMMA WorkerTypes == ASSUME CallsInv, WorkerStep PROVE TypeOK'
<1>0. SessionTypeOK /\ FrontTypeOK /\ (\A c \in Job : c \in Request)
  BY TypeParts, Calls DEF CallsInv
<1>1. FrontTypeOK'
  BY <1>0 DEF FrontTypeOK, WorkerStep, client, caller, Capacity
<1>2. ASSUME NEW c \in Request, Refuse(c) PROVE SessionTypeOK'
  <2>1. Tail(down) \in Seq(DownFrame) /\ Frame("refused", c) \in UpFrame /\ UNCHANGED frontOpen
        /\ Reply(Frame("refused", c), Tail(down))
    BY <1>0, <1>2, Wires, Frames DEF Refuse, Reads
  <2> QED
    BY <1>0, <1>2, <2>1, ReplyTypes DEF Refuse, SessionTypeOK, HandlerState
<1>3. ASSUME NEW c \in Job, RefuseConflict(c) PROVE SessionTypeOK'
  <2>1. Tail(down) \in Seq(DownFrame) /\ Frame("err", c) \in UpFrame /\ UNCHANGED frontOpen
        /\ Reply(Frame("err", c), Tail(down))
    BY <1>0, <1>3, Wires, Frames DEF RefuseConflict, Reads
  <2> QED
    BY <1>0, <1>3, <2>1, ReplyTypes DEF RefuseConflict, SessionTypeOK, HandlerState
<1>4. ASSUME NEW c \in Request, Accept(c) PROVE SessionTypeOK'
  <2>1. down' \in Seq(DownFrame)
    BY <1>0, <1>4, Wires DEF Accept, Reads
  <2>2. jobs' \in [JobID -> Job \cup {None}]
    BY <1>0, <1>4 DEF Accept, SessionTypeOK
  <2>3. h' \in [Request -> HandlerState]
    BY <1>0, <1>4 DEF Accept, SessionTypeOK, HandlerState
  <2> QED
    BY <1>0, <1>4, <2>1, <2>2, <2>3 DEF Accept, SessionTypeOK
<1>5. ASSUME NEW c \in Request, Cancel(c) PROVE SessionTypeOK'
  <2>1. down' \in Seq(DownFrame)
    BY <1>0, <1>5, Wires DEF Cancel, Reads
  <2>2. cancelled' \subseteq Request
    <3>1. c \in Job => {jobs[NameOf[c]]} \ {None} \subseteq Request
      BY <1>0, Calls DEF SessionTypeOK
    <3> QED
      BY <1>0, <1>5, <3>1 DEF Cancel, SessionTypeOK
  <2> QED
    BY <1>0, <1>5, <2>1, <2>2 DEF Cancel, SessionTypeOK
<1>6. ASSUME AcceptBye PROVE SessionTypeOK'
  BY <1>0, <1>6, Wires DEF AcceptBye, Reads, SessionTypeOK
<1>7. ASSUME ReadError PROVE SessionTypeOK'
  BY <1>0, <1>7 DEF ReadError, SessionTypeOK, wire, InFlight
<1>8. ASSUME NEW c \in Job, Progress(c) PROVE SessionTypeOK'
  BY <1>0, <1>8, ReplyTypes, Wires, Frames DEF Progress, SessionTypeOK
<1>9. ASSUME NEW c \in Request, FinishWork(c) PROVE SessionTypeOK'
  <2>1. h' \in [Request -> HandlerState] /\ result' \in [Request -> Kinds \cup {None}]
    BY <1>0, <1>9 DEF FinishWork, SessionTypeOK, HandlerState, Kinds
  <2> QED
    BY <1>0, <1>9, <2>1 DEF FinishWork, SessionTypeOK, wire
<1>10. ASSUME NEW c \in Request, Terminal(c) PROVE SessionTypeOK'
  <2>1. Said(c) \in Kinds
    BY <1>10 DEF Terminal, CallsInv, WorkerShape, Said, Kinds
  <2>2. Frame(Said(c), c) \in UpFrame /\ Reply(Frame(Said(c), c), down) /\ UNCHANGED frontOpen
    BY <1>10, <2>1, Frames DEF Terminal
  <2>3. h' \in [Request -> HandlerState] /\ result' \in [Request -> Kinds \cup {None}]
    BY <1>0, <1>10 DEF Terminal, SessionTypeOK, HandlerState
  <2> QED
    BY <1>0, <1>10, <2>2, <2>3, ReplyTypes, Wires DEF Terminal, SessionTypeOK
<1>11. ASSUME NEW c \in Request, Leave(c) PROVE SessionTypeOK'
  BY <1>0, <1>11 DEF Leave, SessionTypeOK, wire, HandlerState
<1>12. ASSUME NEW c \in Job, EndJob(c) PROVE SessionTypeOK'
  <2>1. jobs' \in [JobID -> Job \cup {None}]
    BY <1>0, <1>12 DEF EndJob, SessionTypeOK
  <2> QED
    BY <1>0, <1>12, <2>1 DEF EndJob, SessionTypeOK, wire, HandlerState
<1>13. ASSUME AnswerBye PROVE SessionTypeOK'
  BY <1>0, <1>13, Wires, Frames DEF AnswerBye, SessionTypeOK
<1>14. ASSUME Dies PROVE SessionTypeOK'
  <2>1. h' \in [Request -> HandlerState] /\ result' \in [Request -> Kinds \cup {None}]
        /\ jobs' \in [JobID -> Job \cup {None}]
    BY <1>0, <1>14 DEF Dies, SessionTypeOK, HandlerState
  <2> QED
    BY <1>0, <1>14, <2>1, Wires DEF Dies, SessionTypeOK
<1> QED
  <2>1. SessionTypeOK'
    BY <1>2, <1>3, <1>4, <1>5, <1>6, <1>7, <1>8, <1>9, <1>10, <1>11, <1>12, <1>13, <1>14
       DEF WorkerStep, SessionNext, Loop, Returns, Exit
  <2>2. TypeOK' <=> SessionTypeOK' /\ FrontTypeOK'
    BY TypeParts, PTL
  <2> QED
    BY <1>1, <2>1, <2>2

\* The channels of the calls, and what the daemon's end keeps of the rest.
ChanOK == (\A c \in Call : chan[c] \in Seq(ChanFrame) /\ Len(chan[c]) <= Capacity(c))
          /\ chan = [c \in Call |-> chan[c]]

LEMMA SessionKept ==
    ASSUME SessionTypeOK, UNCHANGED <<workerOpen, session>>, down' \in Seq(DownFrame), up' \in Seq(UpFrame),
           frontOpen' \in BOOLEAN
    PROVE  SessionTypeOK'
BY DEF SessionTypeOK, session

LEMMA OneChan ==
    ASSUME ChanOK, NEW c \in Call, NEW q \in Seq(ChanFrame), Len(q) <= Capacity(c), chan' = [chan EXCEPT ![c] = q]
    PROVE  ChanOK'
BY DEF ChanOK, Capacity

LEMMA AbandonTypes ==
    ASSUME FrontTypeOK, NEW c \in Call, NEW p \in CallState, Abandon(c, p)
    PROVE  table' \subseteq Call /\ pc' \in [Call -> CallState] /\ ChanOK'
<1>1. ChanOK /\ <<>> \in Seq(ChanFrame) /\ Len(<<>>) <= Capacity(c)
  BY Capacities DEF FrontTypeOK, ChanOK
<1>2. table' \subseteq Call /\ pc' \in [Call -> CallState]
  BY DEF Abandon, FrontTypeOK, CallState
<1>3. CASE c \in Open
  BY <1>1, <1>2, <1>3 DEF Abandon, ChanOK, Capacity
<1>4. CASE c \notin Open
  BY <1>1, <1>2, <1>4, OneChan DEF Abandon
<1> QED
  BY <1>3, <1>4

LEMMA FailTypes ==
    ASSUME FrontTypeOK, NEW tab \in SUBSET table, Fail(tab)
    PROVE  dead' \in BOOLEAN /\ table' \subseteq Call /\ ChanOK'
<1>1. ASSUME NEW c \in Call, Len(chan[c]) < Capacity(c)
      PROVE  /\ Append(chan[c], Frame("gone", c)) \in Seq(ChanFrame)
             /\ Len(Append(chan[c], Frame("gone", c))) <= Capacity(c)
  <2>1. chan[c] \in Seq(ChanFrame) /\ Frame("gone", c) \in ChanFrame
    BY Frames DEF FrontTypeOK
  <2>2. /\ Append(chan[c], Frame("gone", c)) \in Seq(ChanFrame)
        /\ Len(Append(chan[c], Frame("gone", c))) = Len(chan[c]) + 1 /\ Len(chan[c]) \in Nat
    BY <2>1, Appended
  <2> QED
    BY <1>1, <2>2, Capacities
<1>2. \A c \in Call : chan'[c] = chan[c]
         \/ (Len(chan[c]) < Capacity(c) /\ chan'[c] = Append(chan[c], Frame("gone", c)))
  BY DEF Fail
<1>3. chan' = [c \in Call |-> chan'[c]]
  BY DEF Fail
<1>4. \A c \in Call : chan'[c] \in Seq(ChanFrame) /\ Len(chan'[c]) <= Capacity(c)
  BY <1>1, <1>2 DEF FrontTypeOK
<1> QED
  BY <1>3, <1>4 DEF Fail, FrontTypeOK, ChanOK, Capacity

\* Each step keeps the types of the connection and of the tables.
LEMMA SendTypes == ASSUME CallsInv, NEW c \in Call, Sends(c) PROVE SessionTypeOK' /\ FrontTypeOK'
<1>0. SessionTypeOK /\ FrontTypeOK
  BY TypeParts DEF CallsInv
<1>1. CASE Write(c)
  <2>1. SessionTypeOK'
    BY <1>0, <1>1, Wires, Frames, SessionKept DEF Write, SessionTypeOK
  <2> QED
    BY <1>0, <1>1, <2>1 DEF Write, At, FrontTypeOK, client, CallState, Capacity
<1>2. CASE NotWritten(c)
  <2>1. table' \subseteq Call /\ pc' \in [Call -> CallState] /\ ChanOK'
    BY <1>0, <1>2, AbandonTypes DEF NotWritten, CallState
  <2>2. SessionTypeOK'
    BY <1>0, <1>2 DEF NotWritten, SessionTypeOK, wire, session
  <2> QED
    BY <1>0, <1>2, <2>1, <2>2 DEF NotWritten, Told, FrontTypeOK, ChanOK, Outcome
<1>3. CASE WriteFails(c)
  <2>1. table \ {c} \in SUBSET table
    OBVIOUS
  <2>2. dead' \in BOOLEAN /\ table' \subseteq Call /\ ChanOK'
    BY <1>0, <1>3, <2>1, FailTypes DEF WriteFails
  <2>3. SessionTypeOK'
    BY <1>0, <1>3, Wires, SessionKept DEF WriteFails, CloseFront, SessionTypeOK
  <2> QED
    BY <1>0, <1>3, <2>2, <2>3 DEF WriteFails, At, Told, FrontTypeOK, ChanOK, Outcome, CallState
<1>4. CASE SendCancel(c)
  <2>1. down' \in Seq(DownFrame) /\ up' \in Seq(UpFrame) /\ frontOpen' \in BOOLEAN
    BY <1>0, <1>4, Wires, Frames DEF SendCancel, CloseFront, SessionTypeOK
  <2>2. SessionTypeOK'
    BY <1>0, <1>4, <2>1, SessionKept DEF SendCancel
  <2> QED
    BY <1>0, <1>4, <2>2 DEF SendCancel, At, FrontTypeOK, CallState, Capacity
<1> QED
  BY <1>1, <1>2, <1>3, <1>4 DEF Sends

LEMMA SelectTypes == ASSUME CallsInv, NEW c \in Call, Selects(c) PROVE SessionTypeOK' /\ FrontTypeOK'
<1>0. SessionTypeOK /\ FrontTypeOK /\ ChanOK
  BY TypeParts DEF CallsInv, FrontTypeOK, ChanOK
<1>1. SessionTypeOK'
  BY <1>0 DEF Selects, TakeReply, TakeFrame, SeeGone, SeeCtx, SessionTypeOK, wire, session
<1>2. chan[c] # <<>> => /\ Tail(chan[c]) \in Seq(ChanFrame) /\ Len(Tail(chan[c])) <= Capacity(c)
                        /\ Head(chan[c]).kind \in Kinds \cup {"prog", "bye", "gone"}
  <2>1. chan[c] \in Seq(ChanFrame) /\ Len(chan[c]) <= Capacity(c) /\ Capacity(c) \in Nat
    BY <1>0, Capacities DEF ChanOK
  <2>2. chan[c] # <<>> => Len(Tail(chan[c])) = Len(chan[c]) - 1 /\ Tail(chan[c]) \in Seq(ChanFrame) /\ Len(chan[c]) \in Nat
    BY <2>1, Headed
  <2> QED
    BY <2>1, <2>2, FirstInChan, InChan
<1>3. CASE TakeReply(c)
  <2>1. ChanOK'
    BY <1>0, <1>2, <1>3, OneChan DEF TakeReply
  <2>2. Head(chan[c]).kind \in Outcome
    <3>1. 1 \in DOMAIN chan[c] /\ Head(chan[c]) = chan[c][1] /\ c \notin Job
      BY <1>3, FirstInChan DEF TakeReply
    <3> QED
      BY <1>2, <1>3, <3>1, InChan DEF Outcome
  <2> QED
    BY <1>0, <1>1, <1>3, <2>1, <2>2 DEF TakeReply, At, Told, FrontTypeOK, ChanOK, CallState
<1>4. CASE TakeFrame(c)
  <2>1. CASE Head(chan[c]).kind = "prog" /\ chan' = [chan EXCEPT ![c] = Tail(@)] /\ UNCHANGED <<pc, outcome, table>>
    <3>1. ChanOK'
      BY <1>0, <1>2, <1>4, <2>1, OneChan DEF TakeFrame
    <3> QED
      BY <1>0, <1>1, <1>4, <2>1, <3>1 DEF TakeFrame, FrontTypeOK, ChanOK
  <2>2. CASE /\ Head(chan[c]).kind # "prog"
             /\ Told(c, IF pc[c] = "grace" /\ Head(chan[c]).kind = "ok" THEN "late" ELSE Head(chan[c]).kind)
             /\ Abandon(c, "end")
    <3>1. table' \subseteq Call /\ pc' \in [Call -> CallState] /\ ChanOK'
      BY <1>0, <2>2, AbandonTypes DEF CallState
    <3>2. outcome' \in [Call -> Outcome \cup {None}]
      BY <1>0, <1>2, <1>4, <2>2 DEF TakeFrame, Told, FrontTypeOK, Outcome
    <3> QED
      BY <1>0, <1>1, <1>4, <3>1, <3>2 DEF TakeFrame, FrontTypeOK, ChanOK
  <2> QED
    BY <1>4, <2>1, <2>2 DEF TakeFrame
<1>5. CASE SeeGone(c)
  <2>1. table' \subseteq Call /\ pc' \in [Call -> CallState] /\ ChanOK'
    BY <1>0, <1>5, AbandonTypes DEF SeeGone, CallState
  <2>2. PICK first : first = CHOOSE i \in Ends(chan[c]) : \A j \in Ends(chan[c]) : i <= j
    OBVIOUS
  <2>3. ASSUME c \in Job, Ends(chan[c]) # {} PROVE chan[c][first].kind \in Outcome
    <3>1. first \in DOMAIN chan[c] /\ chan[c][first].kind # "prog"
      BY <2>2, <2>3, TheEnd
    <3>2. chan[c][first].kind \in Kinds \cup {"bye", "gone"}
      BY <3>1, InChan
    <3> QED
      BY <3>2 DEF Outcome
  <2>4. outcome' \in [Call -> Outcome \cup {None}]
    BY <1>0, <1>5, <2>2, <2>3 DEF SeeGone, Told, FrontTypeOK, Outcome
  <2> QED
    BY <1>0, <1>1, <1>5, <2>1, <2>4 DEF SeeGone, FrontTypeOK, ChanOK
<1>6. CASE SeeCtx(c)
  <2>1. CASE At(c, "wait", "stop") /\ UNCHANGED <<outcome, table, chan>>
    BY <1>0, <1>1, <1>6, <2>1 DEF SeeCtx, At, FrontTypeOK, CallState, Capacity
  <2>2. CASE Told(c, "ctx") /\ Abandon(c, "drainc")
    <3>1. table' \subseteq Call /\ pc' \in [Call -> CallState] /\ ChanOK'
      BY <1>0, <2>2, AbandonTypes DEF CallState
    <3> QED
      BY <1>0, <1>1, <1>6, <2>2, <3>1 DEF SeeCtx, Told, FrontTypeOK, ChanOK, Outcome
  <2> QED
    BY <1>6, <2>1, <2>2 DEF SeeCtx
<1> QED
  BY <1>3, <1>4, <1>5, <1>6 DEF Selects

LEMMA ClientTypes == ASSUME CallsInv, ClientStep PROVE TypeOK'
<1>0. SessionTypeOK /\ FrontTypeOK /\ ChanOK
  BY TypeParts DEF CallsInv, FrontTypeOK, ChanOK
<1>1. ASSUME NEW c \in Call, BeginCall(c) PROVE SessionTypeOK' /\ FrontTypeOK'
  <2>1. SessionTypeOK'
    BY <1>0, <1>1 DEF BeginCall, SessionTypeOK, wire, session
  <2>2. clashed' \subseteq Job
    BY <1>0, <1>1 DEF BeginCall, FrontTypeOK
  <2> QED
    BY <1>0, <1>1, <2>1, <2>2 DEF BeginCall, At, Told, FrontTypeOK, client, CallState, Outcome, Capacity
<1>2. ASSUME NEW c \in Call, CallerEnds(c) PROVE SessionTypeOK' /\ FrontTypeOK'
  BY <1>0, <1>2 DEF CallerEnds, SessionTypeOK, FrontTypeOK, wire, session, client, Capacity
<1>3. ASSUME NEW c \in Call, Drain(c) PROVE SessionTypeOK' /\ FrontTypeOK'
  <2>1. <<>> \in Seq(ChanFrame) /\ Len(<<>>) <= Capacity(c)
    BY Capacities
  <2>2. ChanOK'
    BY <1>0, <1>3, <2>1, OneChan DEF Drain
  <2> QED
    BY <1>0, <1>3, <2>2 DEF Drain, At, SessionTypeOK, FrontTypeOK, wire, session, ChanOK, CallState
<1>4. ASSUME NEW c \in Job, GraceExpires(c) PROVE SessionTypeOK' /\ FrontTypeOK'
  <2>1. table' \subseteq Call /\ pc' \in [Call -> CallState] /\ ChanOK'
    BY <1>0, <1>4, AbandonTypes, Calls DEF GraceExpires, CallState
  <2>2. SessionTypeOK'
    BY <1>0, <1>4, Wires, SessionKept DEF GraceExpires, CloseFront, SessionTypeOK
  <2>3. outcome' \in [Call -> Outcome \cup {None}]
    BY <1>0, <1>4 DEF GraceExpires, Told, FrontTypeOK, Outcome
  <2> QED
    BY <1>0, <1>4, <2>1, <2>2, <2>3 DEF GraceExpires, FrontTypeOK, ChanOK
<1>5. ASSUME ReaderEnds \/ RetireFails \/ TerminateKill PROVE SessionTypeOK' /\ FrontTypeOK'
  <2>1. dead' \in BOOLEAN /\ table' \subseteq Call /\ ChanOK'
    BY <1>0, <1>5, FailTypes DEF ReaderEnds, RetireFails, TerminateKill
  <2>2. SessionTypeOK'
    BY <1>0, <1>5, Wires, SessionKept
       DEF ReaderEnds, RetireFails, TerminateKill, CloseFront, SessionTypeOK, wire
  <2> QED
    BY <1>0, <1>5, <2>1, <2>2 DEF ReaderEnds, RetireFails, TerminateKill, FrontTypeOK, ChanOK, caller
<1>6. ASSUME TerminateBye PROVE SessionTypeOK' /\ FrontTypeOK'
  BY <1>0, <1>6 DEF TerminateBye, SessionTypeOK, FrontTypeOK, wire, session, caller, Capacity
<1>7. ASSUME Deliver PROVE SessionTypeOK' /\ FrontTypeOK'
  <2>1. PICK f, c : f = Head(up) /\ c = f.call
    OBVIOUS
  <2>2. f \in UpFrame /\ f \in ChanFrame /\ c \in Call
    BY <1>7, <2>1, FirstUp DEF Deliver
  <2>3. SessionTypeOK'
    BY <1>0, <1>7, Wires, SessionKept DEF Deliver, SessionTypeOK
  <2>4. ChanOK'
    <3>1. CASE chan' = chan
      BY <1>0, <3>1 DEF ChanOK, Capacity
    <3>2. CASE c \in table /\ chan' = [chan EXCEPT ![c] = Append(RoomIn(c), f)]
      <4>1. PICK q : q = RoomIn(c)
        OBVIOUS
      <4>2. q \in Seq(ChanFrame) /\ Len(q) < Capacity(c)
        BY <3>2, <4>1, RoomForOne
      <4>3. Append(q, f) \in Seq(ChanFrame) /\ Len(Append(q, f)) = Len(q) + 1 /\ Len(q) \in Nat
        BY <2>2, <4>2, Appended
      <4>4. Len(Append(q, f)) <= Capacity(c)
        BY <4>2, <4>3, Capacities
      <4> QED
        BY <1>0, <2>2, <3>2, <4>1, <4>3, <4>4, OneChan
    <3> QED
      BY <1>7, <2>1, <3>1, <3>2 DEF Deliver, RoomIn
  <2>5. opened' \subseteq Open
    BY <1>0, <1>7, <2>1 DEF Deliver, FrontTypeOK, HasFile
  <2> QED
    BY <1>0, <1>7, <2>1, <2>3, <2>4, <2>5 DEF Deliver, FrontTypeOK, ChanOK
<1>8. ASSUME NEW c \in Call, Caller(c) PROVE SessionTypeOK' /\ FrontTypeOK'
  BY <1>3, <1>8, SendTypes, SelectTypes DEF Caller
<1> QED
  <2>1. SessionTypeOK' /\ FrontTypeOK'
    BY <1>1, <1>2, <1>4, <1>5, <1>6, <1>7, <1>8, Calls DEF ClientStep, Begin, SayBye, ReadLoop
  <2>2. TypeOK' <=> SessionTypeOK' /\ FrontTypeOK'
    BY TypeParts, PTL
  <2> QED
    BY <2>1, <2>2

-----------------------------------------------------------------------------
LEMMA CallsStart == ASSUME Init PROVE CallsInv
<1>1. SessionTypeOK /\ FrontTypeOK
  <2>1. SessionTypeOK
    BY DEF Init, SessionInit, SessionTypeOK, HandlerState
  <2>2. \A c \in Call : chan[c] = <<>> /\ <<>> \in Seq(ChanFrame) /\ Len(<<>>) <= Capacity(c)
    BY Capacities DEF Init
  <2> QED
    BY <2>1, <2>2 DEF Init, FrontTypeOK, CallState
<1>2. /\ down = <<>> /\ up = <<>> /\ table = {} /\ opened = {} /\ bye = "no"
      /\ \A c \in Call : chan[c] = <<>> /\ pc[c] = "idle" /\ outcome[c] = None
      /\ \A c \in Request : h[c] = "none"
      /\ \A n \in JobID : jobs[n] = None
      /\ (\A c \in Request : c \in Call) /\ Bye \in Call /\ (\A c \in Job : c \in Request) /\ cancelled = {}
  BY Calls DEF Init, SessionInit
<1>3. CallShape /\ ChanShape /\ OwnsFile
  BY <1>2 DEF CallShape, CallFits, ChanShape, ChanFits, Ends, OwnsFile, Owned, Pending
<1>4. UpShape /\ DownShape
  BY <1>2 DEF UpShape, DownShape
<1>5. WorkerShape /\ Arrives /\ SentBack
  BY <1>2 DEF WorkerShape, Arrives, SentBack, Written
<1>6. \A c \in Request : ~OnWorker(c)
  BY <1>2 DEF OnWorker, Sent
<1>7. Left /\ Clash
  BY <1>2, <1>6 DEF Left, Clash, Apart, Live
<1>8. ByeShape /\ JobEndIsHonest /\ ReuseIsSafe
  <2>1. None \notin Kinds \cup {"late", "terminated", "gone", "bye"}
    BY Calls DEF Outcome
  <2> QED
    BY <1>2, <2>1 DEF ByeShape, JobEndIsHonest, ReuseIsSafe
<1> QED
  BY <1>1, <1>3, <1>4, <1>5, <1>7, <1>8, TypeParts DEF CallsInv

LEMMA CallsStutter == ASSUME CallsInv, UNCHANGED vars PROVE CallsInv'
<1>1. UNCHANGED <<client, caller>> /\ UNCHANGED <<wire, session>>
  BY DEF vars
<1>2. WorkerMoves /\ FrontMoves
  BY <1>1 DEF WorkerMoves, FrontMoves, Begins, wire, session, client, caller
<1>3. TypeOK'
  BY <1>1 DEF CallsInv, TypeOK, SessionTypeOK, wire, session, client, caller, Capacity
<1>4. ReuseIsSafe'
  BY <1>1 DEF CallsInv, ReuseIsSafe, wire, session, caller
<1>5. WorkerShape'
  BY <1>2, FrontKnows
<1> QED
  BY <1>2, <1>3, <1>4, <1>5, WorkerChans, WorkerUps, WorkerDowns, WorkerArrives, WorkerBacks, WorkerLeaves,
     WorkerClash DEF CallsInv

LEMMA CallsNext == ASSUME CallsInv, [Next]_vars PROVE CallsInv'
<1>1. CASE ClientStep
  BY <1>1, ClientInv, ClientTypes DEF CallsInv
<1>2. CASE WorkerStep
  BY <1>2, WorkerInv, WorkerTypes DEF CallsInv
<1> QED
  BY <1>1, <1>2, NextSteps, CallsStutter

\* The invariant holds in every behaviour of the connection and its callers.
THEOREM CallsInvariant == Spec => []CallsInv
<1>1. Init => CallsInv
  BY CallsStart
<1>2. CallsInv /\ [Next]_vars => CallsInv'
  BY CallsNext
<1> QED
  BY <1>1, <1>2, PTL DEF Spec

-----------------------------------------------------------------------------
\* A received descriptor is always somebody's: handed to its caller, or in the channel
\* of a caller that has still to look (pending and abandon, client.go).
THEOREM DescriptorsAreOwned == Spec => []NoDescriptorLeaks
<1>1. CallsInv => NoDescriptorLeaks
  <2>1. SUFFICES ASSUME CallsInv, NEW c \in opened
                 PROVE  outcome[c] = "ok" \/ (pc[c] # "end" /\ c \in FilesIn(chan[c]))
    BY DEF NoDescriptorLeaks
  <2>2. c \in Call
    BY <2>1, Types, Calls DEF CallsInv
  <2> QED
    BY <2>1, <2>2, AllFit DEF Owned
<1> QED
  BY <1>1, CallsInvariant, PTL

\* A JobID may be used again as soon as its first job ended: the new job is neither
\* refused nor stopped by the cancellation of the job before it (endJob, cancelAndDrain).
THEOREM NamesAreReusable == Spec => []ReuseIsSafe
<1>1. CallsInv => ReuseIsSafe
  BY DEF CallsInv
<1> QED
  BY <1>1, CallsInvariant, PTL

\* What a job's caller was told is what became of the job: runJob never reports a job
\* that may still change files, but from a worker that is dead or being terminated.
THEOREM JobsEndHonestly == Spec => []JobEndIsHonest
<1>1. CallsInv => JobEndIsHonest
  BY DEF CallsInv
<1> QED
  BY <1>1, CallsInvariant, PTL

\* A goodbye that was answered was an orderly end: nothing runs, nobody waits (serve).
THEOREM GoodbyeIsOrderly == Spec => []ByeIsOrderly
<1>1. CallsInv => ByeIsOrderly
  BY DEF CallsInv, ByeShape, Farewell, ByeIsOrderly
<1> QED
  BY <1>1, CallsInvariant, PTL

-----------------------------------------------------------------------------
\* The worker reads one frame at a time: the step that takes a cancellation off the
\* connection handles it, or ends the process, or cancels everybody.
LEMMA HeadRead ==
    ASSUME CallsInv, down # <<>>, down' = Tail(down)
    PROVE  down' # down /\ \A f \in DownFrame : down' # Append(down, f)
<1>1. down \in Seq(DownFrame)
  BY Types DEF CallsInv
<1>2. PICK rest : rest = Tail(down)
  OBVIOUS
<1>3. Len(down) \in Nat /\ Len(rest) = Len(down) - 1
  BY <1>1, <1>2, Headed
<1>4. \A f \in DownFrame : Len(Append(down, f)) = Len(down) + 1
  BY <1>1, Appended
<1>5. rest # down
  BY <1>3
<1>6. ASSUME NEW f \in DownFrame PROVE rest # Append(down, f)
  BY <1>3, <1>4
<1> QED
  BY <1>2, <1>5, <1>6

LEMMA CancelIsRead ==
    ASSUME CallsInv, Next, NEW c \in Request, down # <<>>, Head(down) = Frame("cancel", c), down' = Tail(down),
           h[c] \in {"none", "work"}
    PROVE  c \in cancelled' \/ ~alive'
<1>0. down' # down /\ \A f \in DownFrame : down' # Append(down, f)
  BY HeadRead
<1>1. h[c] = "work" /\ c \in InFlight
  <2>1. down \in Seq(DownFrame)
    BY Types DEF CallsInv
  <2>2. 1 \in DOMAIN down /\ down[1] = Frame("cancel", c) /\ DOMAIN down = 1 .. Len(down)
    BY <2>1, Headed
  <2>3. h[c] # "none" \/ \E j \in DOMAIN down : j < 1 /\ down[j] = Frame("req", c)
    BY <2>2 DEF CallsInv, DownShape, Frame
  <2> QED
    BY <2>2, <2>3 DEF InFlight
<1>2. ~ClientStep
  <2>1. ClientStep => FrontMoves
    BY ClientKeeps DEF Keeps
  <2>2. \A d \in Call : Frame("req", d) \in DownFrame /\ Frame("cancel", d) \in DownFrame
    BY Frames
  <2>3. \A d \in Request : d \in Call
    BY Calls
  <2> QED
    BY <1>0, <2>1, <2>2, <2>3 DEF FrontMoves
<1>3. ASSUME NEW d, Reads("req", d) PROVE FALSE
  BY <1>3 DEF Reads, Frame
<1>4. ASSUME NEW d \in Request, Cancel(d) PROVE c \in cancelled'
  <2>1. d = c
    BY <1>4 DEF Cancel, Reads, Frame
  <2>2. CASE c \in Job
    <3>1. jobs[NameOf[c]] = c /\ c # None
      BY <1>1, <2>2, Known, Calls
    <3> QED
      BY <1>4, <2>1, <2>2, <3>1 DEF Cancel
  <2>3. CASE c \notin Job
    BY <1>1, <1>4, <2>1, <2>3 DEF Cancel
  <2> QED
    BY <2>2, <2>3
<1>5. ASSUME NEW f, Reply(f, down) PROVE c \in cancelled'
  BY <1>0, <1>1, <1>5 DEF Reply
<1>6. ASSUME UNCHANGED wire PROVE FALSE
  BY <1>0, <1>6 DEF wire
<1>7. CASE Loop
  BY <1>3, <1>4, <1>6, <1>7 DEF Loop, Refuse, RefuseConflict, Accept, AcceptBye, ReadError
<1>8. CASE (\E d \in Job : Progress(d)) \/ \E d \in Request : Terminal(d)
  BY <1>5, <1>8 DEF Progress, Terminal
<1>9. CASE \E d \in Request : FinishWork(d) \/ Leave(d) \/ EndJob(d)
  BY <1>6, <1>9 DEF FinishWork, Leave, EndJob
<1>10. CASE AnswerBye
  BY <1>1, <1>10 DEF AnswerBye
<1>11. CASE Dies
  BY <1>11 DEF Dies
<1> QED
  BY <1>2, <1>7, <1>8, <1>9, <1>10, <1>11, NextSteps DEF WorkerStep, SessionNext, Returns, Exit

\* Once the worker has handled a cancellation, the request it named is not running
\* under a context nobody cancelled (the order of cancelRemote's frames, OpCancel).
THEOREM CancellationsReach == Spec => CancelReaches
<1> DEFINE Reached == \A c \in Request : down # <<>> /\ Head(down) = Frame("cancel", c) /\ down' = Tail(down) =>
                          c \in cancelled' \/ h[c] \notin {"none", "work"} \/ ~alive'
<1>1. CallsInv /\ [Next]_vars => [Reached]_vars
  BY CancelIsRead
<1>2. Spec => [][Reached]_vars
  BY <1>1, CallsInvariant, PTL DEF Spec
<1> QED
  BY <1>2 DEF CancelReaches

\* The ways a job's caller learns that its worker is gone.
LEMMA GoneIsTold ==
    ASSUME CallsInv, Next, NEW c \in Job, outcome[c] = None, outcome'[c] = "gone", NEW i \in Ends(chan[c])
    PROVE  chan[c][i].kind = "gone"
<1>0. c \in Call /\ CallFits(c) /\ ChanFits(c) /\ outcome'[c] # outcome[c] /\ i \in DOMAIN chan[c]
  BY Calls, Parts DEF Ends, Outcome
<1>1. ASSUME NEW d \in Call, NEW o, Told(d, o) PROVE d = c /\ o = "gone"
  BY <1>0, <1>1, IsTold
<1>2. outcome' # outcome
  BY <1>0
<1>3. CASE WorkerStep
  BY <1>2, <1>3 DEF WorkerStep, caller
<1>4. CASE \E d \in Call : BeginCall(d)
  <2>1. PICK d \in Call : BeginCall(d)
    BY <1>4
  <2>2. pc[d] = "idle" /\ d = c
    BY <1>1, <1>2, <2>1 DEF BeginCall, At
  <2> QED
    BY <1>0, <2>2 DEF CallFits
<1>5. CASE \E d \in Call : Sends(d)
  <2>1. PICK d \in Call : WriteFails(d)
    BY <1>1, <1>2, <1>5 DEF Sends, Write, NotWritten, SendCancel
  <2>2. d = c /\ pc[c] = "reg"
    BY <1>1, <2>1 DEF WriteFails, At
  <2> QED
    BY <1>0, <2>2 DEF CallFits
<1>6. CASE \E d \in Call : TakeFrame(d)
  <2>1. PICK d \in Call : TakeFrame(d)
    BY <1>6
  <2>2. /\ Head(chan[d]).kind # "prog" /\ chan[d] # <<>>
        /\ Told(d, IF pc[d] = "grace" /\ Head(chan[d]).kind = "ok" THEN "late" ELSE Head(chan[d]).kind)
    BY <1>2, <2>1 DEF TakeFrame
  <2>3. d = c /\ Head(chan[c]).kind = "gone"
    BY <1>1, <2>2
  <2>4. 1 \in Ends(chan[c]) /\ chan[c][1].kind = "gone"
    BY <1>0, <2>2, <2>3, FirstInChan DEF Ends, IsTerminal
  <2> QED
    BY <1>0, <2>4 DEF ChanFits
<1>7. CASE \E d \in Call : SeeGone(d)
  <2>1. PICK d \in Call : SeeGone(d)
    BY <1>7
  <2>2. PICK first : first = CHOOSE j \in Ends(chan[d]) : \A k \in Ends(chan[d]) : j <= k
    OBVIOUS
  <2>3. Told(d, IF d \in Job /\ Ends(chan[d]) # {} THEN chan[d][first].kind ELSE "gone")
    BY <2>1, <2>2 DEF SeeGone
  <2>4. d = c /\ (Ends(chan[c]) # {} => chan[c][first].kind = "gone")
    BY <1>1, <2>3
  <2>5. first \in Ends(chan[c])
    BY <1>0, <2>2, <2>4, TheEnd DEF Ends, IsTerminal
  <2> QED
    BY <1>0, <2>4, <2>5 DEF ChanFits
<1>8. CASE \E d \in Call : TakeReply(d) \/ SeeCtx(d)
  <2>1. PICK d \in Call : TakeReply(d) \/ SeeCtx(d)
    BY <1>8
  <2> QED
    BY <1>1, <1>2, <2>1 DEF TakeReply, SeeCtx
<1>9. CASE \E d \in Job : GraceExpires(d)
  BY <1>1, <1>9, Calls DEF GraceExpires
<1>10. CASE ClientStep
  BY <1>2, <1>4, <1>5, <1>6, <1>7, <1>8, <1>9, <1>10, Calls
     DEF ClientStep, Begin, Caller, Selects, CallerEnds, Drain, ReadLoop, Deliver, ReaderEnds, TerminateBye, SayBye,
         TerminateKill, RetireFails, caller
<1> QED
  BY <1>3, <1>10, NextSteps

\* A job whose result was delivered before the worker went is not reported as lost
\* with it (jobWorkerGone).
THEOREM ResultsAreNotLost == Spec => FinishedIsNotLost
<1> DEFINE Kept == \A c \in Job : outcome[c] = None /\ outcome'[c] = "gone" =>
                       \A i \in Ends(chan[c]) : chan[c][i].kind = "gone"
<1>1. CallsInv /\ [Next]_vars => [Kept]_vars
  BY GoneIsTold
<1>2. Spec => [][Kept]_vars
  BY <1>1, CallsInvariant, PTL DEF Spec
<1> QED
  BY <1>2 DEF FinishedIsNotLost
=============================================================================
