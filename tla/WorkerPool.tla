----------------------------- MODULE WorkerPool -----------------------------
(***************************************************************************)
(* The pool of per-user worker processes (internal/workerpool).  A request *)
(* goroutine acquires the worker of its principal, starting one when there *)
(* is none, talks to it and releases it.  A worker leaves the table when   *)
(* it is idle, evicted, superseded by a credential change or broken, but   *)
(* keeps its slot until its process is gone.  Uploads pin the worker that  *)
(* holds their inode; Shutdown takes the whole pool down once.             *)
(*                                                                         *)
(* Every critical section of p.mu is one action.  A client is one incar-   *)
(* nation of a worker process together with the pool's struct for it.      *)
(* Time is a choice: an idle worker may or may not have reached a timeout, *)
(* a bounded wait may give up at any moment, a context may end whenever    *)
(* the code looks at it.                                                   *)
(***************************************************************************)
EXTENDS Naturals, FiniteSets

CONSTANTS
    Key,      \* Principal.Key(): one worker slot per user
    Cred,     \* of a key, what credsOf may say: uid, gid and groups, as one value
    Client,   \* the worker processes this behaviour may fork
    Call,     \* request goroutines
    Handle,   \* upload handles a worker may hand out
    Max,      \* Options.Max
    Envs,     \* what may happen, to choose from: sets of "upload", "archive",
              \* "job", "crash", "broken" (a transport), "shutdown"
    None      \* nil

ASSUME MaxAssumption == Max \in Nat \ {0}
ASSUME NoneAssumption ==
    /\ None \notin Key
    /\ \A k \in Key : None \notin Cred[k]
    /\ None \notin Client
    /\ None \notin Call
    /\ None \notin Handle
ASSUME FiniteAssumption == IsFiniteSet(Key) /\ IsFiniteSet(Client) /\ IsFiniteSet(Call)

VARIABLES
    workers,      \* p.workers: the current worker of a key
    spawning,     \* p.spawning: the request that is starting a worker for a key
    retiring,     \* p.retiring
    budgets,      \* the keys with an entry in p.budgets (RestartBudget has the clock)
    pins,         \* p.pins: the client an upload handle keeps held
    sd,           \* where the one shutdown operation is
    sdAll,        \* the clients it is terminating and waiting for
    sdStart,      \* the startups it is waiting for
    proc,         \* the process: "none" not forked, "up", "gone" (c.exited closed)
    owner,        \* c.key and c.cred
    dead,         \* c.dead
    terminating,  \* c.terminating
    superseded,   \* c.retiring
    inflight,     \* c.inflight
    stopping,     \* clients with a stopRetired goroutine
    retireQ,      \* clients with a pending `go p.retire(c)`
    inode,        \* the client whose process holds the inode of a handle
    pc,           \* where a request is
    who,          \* its principal
    cl,           \* the client it has in its hands
    hd,           \* the handle it is finalising
    last,         \* TRUE on acquire's second and last attempt
    charged,      \* history: how often a client was charged to the restart budget
    graceful,     \* history: clients stopped because nobody was using them
    told,         \* history: handles a caller has been given
    env,          \* what may happen in this behaviour
    declaredOver  \* history: jobs CancelJob said there was nothing left of

table   == <<workers, spawning, retiring, budgets>>
process == <<proc, owner, dead, terminating, superseded>>
stop    == <<stopping, retireQ>>
down    == <<sd, sdAll, sdStart>>
upload  == <<pins, inode, told, env>>
request == <<pc, who, cl, hd, last>>
history == <<charged, graceful, declaredOver>>
vars    == <<table, process, stop, down, upload, request, history, inflight>>

Principal == UNION {{k} \X Cred[k] : k \in Key}
Holding   == {"ping", "rpc", "stream", "job", "cancel", "fin", "leave", "lost"}
Starting  == {"spawn", "hello", "ready", "failed"}
CallState == {"idle", "get", "mark", "wait", "drop"} \cup Holding \cup Starting

closed == sd # "open"
KeyOf(x) == who[x][1]
Current  == {workers[k] : k \in Key} \ {None}
Reserved == {k \in Key : spawning[k] # None}
Running  == {c \in Client : proc[c] = "up"}

TypeOK ==
    /\ workers \in [Key -> Client \cup {None}]
    /\ spawning \in [Key -> Call \cup {None}]
    /\ retiring \subseteq Client
    /\ budgets \subseteq Key
    /\ pins \in [Handle -> Client \cup {None}]
    /\ sd \in {"open", "closed", "sweep", "await", "last", "done"}
    /\ sdAll \subseteq Client
    /\ sdStart \subseteq Call
    /\ proc \in [Client -> {"none", "up", "gone"}]
    /\ owner \in [Client -> Principal \cup {None}]
    /\ dead \subseteq Client
    /\ terminating \subseteq Client
    /\ superseded \subseteq Client
    /\ inflight \in [Client -> Nat]
    /\ stopping \subseteq Client
    /\ retireQ \subseteq Client
    /\ inode \in [Handle -> Client \cup {None}]
    /\ pc \in [Call -> CallState]
    /\ who \in [Call -> Principal \cup {None}]
    /\ cl \in [Call -> Client \cup {None}]
    /\ hd \in [Call -> Handle \cup {None}]
    /\ last \in [Call -> BOOLEAN]
    /\ charged \in [Client -> Nat]
    /\ graceful \subseteq Client
    /\ told \subseteq Handle
    /\ env \in Envs
    /\ declaredOver \subseteq Call

Init ==
    /\ workers = [k \in Key |-> None]
    /\ spawning = [k \in Key |-> None]
    /\ retiring = {} /\ budgets = {}
    /\ pins = [h \in Handle |-> None]
    /\ sd = "open" /\ sdAll = {} /\ sdStart = {}
    /\ proc = [c \in Client |-> "none"]
    /\ owner = [c \in Client |-> None]
    /\ dead = {} /\ terminating = {} /\ superseded = {}
    /\ inflight = [c \in Client |-> 0]
    /\ stopping = {} /\ retireQ = {}
    /\ inode = [h \in Handle |-> None]
    /\ pc = [x \in Call |-> "idle"]
    /\ who = [x \in Call |-> None]
    /\ cl = [x \in Call |-> None]
    /\ hd = [x \in Call |-> None]
    /\ last = [x \in Call |-> FALSE]
    /\ charged = [c \in Client |-> 0]
    /\ graceful = {} /\ told = {} /\ declaredOver = {}
    /\ env \in Envs

-----------------------------------------------------------------------------
(* A request's own state. *)

Goto(x, s) == pc' = [pc EXCEPT ![x] = s]

\* The request is over; its goroutine can serve another one.
Return(x) ==
    /\ Goto(x, "idle")
    /\ who' = [who EXCEPT ![x] = None]
    /\ cl' = [cl EXCEPT ![x] = None]
    /\ hd' = [hd EXCEPT ![x] = None]
    /\ last' = [last EXCEPT ![x] = FALSE]

Take(x, c, s) ==
    /\ Goto(x, s)
    /\ cl' = [cl EXCEPT ![x] = c]
    /\ UNCHANGED <<who, hd, last>>

-----------------------------------------------------------------------------
(* The helpers the handlers are built from. *)

Hold(c) == inflight' = [inflight EXCEPT ![c] = @ + 1]

\* client.done: the last hold on a superseded worker ends it.
LastOut(c, n) == c \in superseded /\ inflight[c] = n /\ c \notin terminating

\* Pool.release.
Release(c) ==
    /\ inflight' = [inflight EXCEPT ![c] = @ - 1]
    /\ stopping' = IF LastOut(c, 1) THEN stopping \cup {c} ELSE stopping
    /\ graceful' = IF LastOut(c, 1) THEN graceful \cup {c} ELSE graceful

\* noteRestartLocked, as far as the pool sees it.
Charge(k, c) ==
    /\ budgets' = budgets \cup {k}
    /\ charged' = [charged EXCEPT ![c] = @ + 1]

IsCurrent(c) == c \in Current

Detach_AlwaysCharges(c) ==
    /\ workers' = [k \in Key |-> IF workers[k] = c THEN None ELSE workers[k]]
    /\ retiring' = retiring \cup {c}
    /\ Charge(owner[c][1], c)
    /\ UNCHANGED spawning

\* Pool.detach: out of the table if it is still the current worker, and
\* retiring in any case.
Detach(c) ==
    /\ workers' = [k \in Key |-> IF workers[k] = c THEN None ELSE workers[k]]
    /\ retiring' = retiring \cup {c}
    /\ IF IsCurrent(c) THEN Charge(owner[c][1], c) ELSE UNCHANGED <<budgets, charged>>
    /\ UNCHANGED spawning

\* Pool.retire: detach, fail, and a stopRetired goroutine that is waited for.
Retire(c) ==
    /\ Detach(c)
    /\ dead' = dead \cup {c}
    /\ stopping' = stopping \cup {c}

\* What makeRoomLocked counts: registered, starting and stopping workers.
SlotsInUse == Cardinality(Current) + Cardinality(Reserved) + Cardinality(retiring)
Idle(c) == inflight[c] = 0
HasRoom_IgnoresRetiring == Cardinality(Current) + Cardinality(Reserved) < Max

HasRoom == SlotsInUse < Max

-----------------------------------------------------------------------------
(* acquire and get. *)

Begin(x, p) ==
    /\ pc[x] = "idle"
    /\ Goto(x, "get")
    /\ who' = [who EXCEPT ![x] = p]
    /\ UNCHANGED <<table, process, stop, down, upload, cl, hd, last, history, inflight>>

\* The context has ended, or the pool is shut down.
GetGivesUp(x) ==
    /\ pc[x] \in {"get", "wait"}
    /\ Return(x)
    /\ UNCHANGED <<table, process, stop, down, upload, history, inflight>>

AtTable(x) == pc[x] = "get" /\ ~closed

GetWorker_AnyGroups(x) ==
    /\ AtTable(x)
    /\ LET c == workers[KeyOf(x)] IN
        /\ c # None
        /\ c \notin dead
        /\ Hold(c)
        /\ Take(x, c, "rpc")
    /\ UNCHANGED <<table, process, stop, down, upload, history>>

\* A live worker with the right credentials.  One that was idle may have to
\* answer a ping first (pingAfterIdle).
GetWorker(x) ==
    /\ AtTable(x)
    /\ LET c == workers[KeyOf(x)] IN
        /\ c # None
        /\ c \notin dead
        /\ owner[c] = who[x]
        /\ Hold(c)
        /\ \/ Take(x, c, "rpc")
           \/ Idle(c) /\ Take(x, c, "ping")
    /\ UNCHANGED <<table, process, stop, down, upload, history>>

\* A live worker whose credentials are no longer the user's.
GetSupersedes(x) ==
    /\ AtTable(x)
    /\ LET c == workers[KeyOf(x)] IN
        /\ c # None
        /\ c \notin dead
        /\ owner[c] # who[x]
        /\ workers' = [workers EXCEPT ![KeyOf(x)] = None]
        /\ retiring' = retiring \cup {c}
        /\ Take(x, c, "mark")
    /\ UNCHANGED <<spawning, budgets, process, stop, down, upload, history, inflight>>

MarkRetired_StopsAtOnce(x) ==
    /\ pc[x] = "mark"
    /\ superseded' = superseded \cup {cl[x]}
    /\ stopping' = stopping \cup {cl[x]}
    /\ graceful' = graceful \cup {cl[x]}
    /\ Take(x, None, "get")
    /\ UNCHANGED <<table, proc, owner, dead, terminating, retireQ, down, upload,
                   charged, declaredOver, inflight>>

MarkRetired_OnlyIfIdle(x) ==
    /\ pc[x] = "mark"
    /\ IF Idle(cl[x]) THEN stopping' = stopping \cup {cl[x]} ELSE UNCHANGED stopping
    /\ Take(x, None, "get")
    /\ UNCHANGED <<table, process, retireQ, down, upload, history, inflight>>

\* markRetired, after the pool lock was let go; the wait for the process is
\* bounded and leads back to the loop whatever came of it.
MarkRetired(x) ==
    /\ pc[x] = "mark"
    /\ superseded' = superseded \cup {cl[x]}
    /\ IF Idle(cl[x]) /\ cl[x] \notin terminating
         THEN /\ stopping' = stopping \cup {cl[x]}
              /\ graceful' = graceful \cup {cl[x]}
         ELSE UNCHANGED <<stopping, graceful>>
    /\ Take(x, None, "get")
    /\ UNCHANGED <<table, proc, owner, dead, terminating, retireQ, down, upload,
                   charged, declaredOver, inflight>>

\* The worker crashed: charge it, stop tracking it as current, look again.
GetFindsCorpse(x) ==
    /\ AtTable(x)
    /\ LET c == workers[KeyOf(x)] IN
        /\ c # None
        /\ c \in dead
        /\ workers' = [workers EXCEPT ![KeyOf(x)] = None]
        /\ retiring' = retiring \cup {c}
        /\ Charge(KeyOf(x), c)
        /\ stopping' = stopping \cup {c}
    /\ UNCHANGED <<spawning, process, retireQ, down, upload, request, graceful,
                   declaredOver, inflight>>

NoWorker(x) == AtTable(x) /\ workers[KeyOf(x)] = None

\* Single flight: wait for the startup somebody else has under way.
GetJoins(x) ==
    /\ NoWorker(x)
    /\ spawning[KeyOf(x)] # None
    /\ Goto(x, "wait")
    /\ UNCHANGED <<table, process, stop, down, upload, who, cl, hd, last, history, inflight>>

MustStart_NoSingleFlight(x) == NoWorker(x)

MustStart(x) == NoWorker(x) /\ spawning[KeyOf(x)] = None

\* The restart budget may have blocked a key it was charged to.
GetIsBlocked(x) ==
    /\ MustStart(x)
    /\ KeyOf(x) \in budgets
    /\ Return(x)
    /\ UNCHANGED <<table, process, stop, down, upload, history, inflight>>

\* makeRoomLocked found no idle worker: ErrWorkerBusy.
GetFindsNoRoom(x) ==
    /\ MustStart(x)
    /\ ~HasRoom
    /\ \A c \in Current : ~Idle(c)
    /\ Return(x)
    /\ UNCHANGED <<table, process, stop, down, upload, history, inflight>>

\* makeRoomLocked evicts the least recently used idle worker; the request
\* waits for its process, not for ever, and looks again.
GetEvicts(x) ==
    /\ MustStart(x)
    /\ ~HasRoom
    /\ \E k \in Key :
        /\ workers[k] # None
        /\ Idle(workers[k])
        /\ workers' = [workers EXCEPT ![k] = None]
        /\ retiring' = retiring \cup {workers[k]}
        /\ stopping' = stopping \cup {workers[k]}
        /\ graceful' = graceful \cup {workers[k]}
    /\ UNCHANGED <<spawning, budgets, process, retireQ, down, upload, request,
                   charged, declaredOver, inflight>>

\* There is room: reserve the slot, then spawn outside the lock.
GetReserves(x) ==
    /\ MustStart(x)
    /\ HasRoom
    /\ spawning' = [spawning EXCEPT ![KeyOf(x)] = x]
    /\ Goto(x, "spawn")
    /\ UNCHANGED <<workers, retiring, budgets, process, stop, down, upload,
                   who, cl, hd, last, history, inflight>>

-----------------------------------------------------------------------------
(* spawn, and the section of get that follows it. *)

Fork(x, c) ==
    /\ pc[x] = "spawn"
    /\ proc[c] = "none"
    /\ proc' = [proc EXCEPT ![c] = "up"]
    /\ owner' = [owner EXCEPT ![c] = who[x]]
    /\ Take(x, c, "hello")
    /\ UNCHANGED <<table, dead, terminating, superseded, stop, down, upload, history, inflight>>

ForkFails(x) ==
    /\ pc[x] = "spawn"
    /\ Goto(x, "failed")
    /\ UNCHANGED <<table, process, stop, down, upload, who, cl, hd, last, history, inflight>>

HelloAnswered(x) ==
    /\ pc[x] = "hello"
    /\ proc[cl[x]] = "up"
    /\ cl[x] \notin dead
    /\ Goto(x, "ready")
    /\ UNCHANGED <<table, process, stop, down, upload, who, cl, hd, last, history, inflight>>

\* No answer, a wrong uid, a cancelled startup; or a frame the transport did
\* not take, which fails the client and sends a retire of its own.
HelloFails(x) ==
    /\ pc[x] = "hello"
    /\ Goto(x, "failed")
    /\ \/ UNCHANGED <<dead, retireQ>>
       \/ /\ "broken" \in env
          /\ dead' = dead \cup {cl[x]}
          /\ retireQ' = retireQ \cup {cl[x]}
    /\ UNCHANGED <<table, proc, owner, terminating, superseded, stopping, down, upload,
                   who, cl, hd, last, history, inflight>>

EndStartup_DoneNotClosed(x, s) ==
    /\ spawning' = [spawning EXCEPT ![KeyOf(x)] = None]
    /\ pc' = [pc EXCEPT ![x] = s]
    /\ UNCHANGED down

\* close(s.done): the waiters for this startup look again, and so does Shutdown.
EndStartup(x, s) ==
    /\ spawning' = [spawning EXCEPT ![KeyOf(x)] = None]
    /\ sdStart' = sdStart \ {x}
    /\ pc' = [y \in Call |-> IF y = x THEN s
                             ELSE IF pc[y] = "wait" /\ KeyOf(y) = KeyOf(x) THEN "get"
                             ELSE pc[y]]
    /\ UNCHANGED <<sd, sdAll>>

Register(x) ==
    /\ pc[x] = "ready"
    /\ ~closed
    /\ workers' = [workers EXCEPT ![KeyOf(x)] = cl[x]]
    /\ Hold(cl[x])
    /\ EndStartup(x, "rpc")
    /\ UNCHANGED <<retiring, budgets, process, stop, upload, who, cl, hd, last, history>>

\* The startup produced nothing the pool may use, but whatever it forked is a
\* process until it is gone.  A process that was paid for is charged; a fork
\* that never happened is charged only to a caller that is still there.
StartupFails(x) ==
    /\ \/ pc[x] = "failed"
       \/ pc[x] = "ready" /\ closed
    /\ EndStartup(x, "idle")
    /\ who' = [who EXCEPT ![x] = None]
    /\ cl' = [cl EXCEPT ![x] = None]
    /\ last' = [last EXCEPT ![x] = FALSE]
    /\ IF cl[x] = None
         THEN /\ budgets' \in {budgets, budgets \cup {KeyOf(x)}}
              /\ UNCHANGED <<retiring, stopping, charged>>
         ELSE /\ retiring' = retiring \cup {cl[x]}
              /\ stopping' = stopping \cup {cl[x]}
              /\ IF pc[x] = "failed" THEN Charge(KeyOf(x), cl[x])
                                     ELSE UNCHANGED <<budgets, charged>>
    /\ UNCHANGED <<workers, process, retireQ, upload, hd, graceful, declaredOver, inflight>>

-----------------------------------------------------------------------------
(* The liveness check of acquire. *)

PingAnswered(x) ==
    /\ pc[x] = "ping"
    /\ cl[x] \notin dead
    /\ Goto(x, "rpc")
    /\ UNCHANGED <<table, process, stop, down, upload, who, cl, hd, last, history, inflight>>

PingFails(x) ==
    /\ pc[x] = "ping"
    /\ Release(cl[x])
    /\ Goto(x, "drop")
    /\ UNCHANGED <<table, process, retireQ, down, upload, who, cl, hd, last,
                   charged, declaredOver>>

\* retire, and one more attempt.
DropWorker(x) ==
    /\ pc[x] = "drop"
    /\ Retire(cl[x])
    /\ IF last[x] THEN Return(x)
       ELSE /\ Goto(x, "get")
            /\ cl' = [cl EXCEPT ![x] = None]
            /\ last' = [last EXCEPT ![x] = TRUE]
            /\ UNCHANGED <<who, hd>>
    /\ UNCHANGED <<proc, owner, terminating, superseded, retireQ, down, upload,
                   graceful, declaredOver, inflight>>

-----------------------------------------------------------------------------
(* What a request does with its worker. *)

\* A reply, an error, or a caller that gave up; an archive's reader is closed;
\* a job ended.  The request is over and the hold goes.
Done(x) ==
    /\ pc[x] \in {"rpc", "stream", "job", "cancel", "leave"}
    /\ Release(cl[x])
    /\ Return(x)
    /\ declaredOver' = declaredOver \ {x}
    /\ UNCHANGED <<table, process, retireQ, down, upload, charged>>

\* A frame (or a cancellation) the worker did not take: the transport goes,
\* the client is failed and a retire is on its way.
Broken(x) ==
    /\ "broken" \in env
    /\ pc[x] \in {"ping", "rpc", "job", "cancel", "fin"}
    /\ dead' = dead \cup {cl[x]}
    /\ retireQ' = retireQ \cup {cl[x]}
    /\ Goto(x, IF pc[x] = "fin" THEN "lost" ELSE IF pc[x] = "ping" THEN "ping" ELSE "leave")
    /\ UNCHANGED <<table, proc, owner, terminating, superseded, stopping, down, upload,
                   who, cl, hd, last, history, inflight>>

\* Archive: the reply is only the beginning; the hold stays with the reader.
OpenStream(x) ==
    /\ "archive" \in env
    /\ pc[x] = "rpc"
    /\ cl[x] \notin dead
    /\ Goto(x, "stream")
    /\ UNCHANGED <<table, process, stop, down, upload, who, cl, hd, last, history, inflight>>

\* Job: submitted to the worker, which runs it until it ends.
StartJob(x) ==
    /\ "job" \in env
    /\ pc[x] = "rpc"
    /\ cl[x] \notin dead
    /\ Goto(x, "job")
    /\ UNCHANGED <<table, process, stop, down, upload, who, cl, hd, last, history, inflight>>

\* cancelAndDrain after the grace: detach first, then close and retire.
JobOutlivesGrace(x) ==
    /\ pc[x] = "job"
    /\ Detach(cl[x])
    /\ retireQ' = retireQ \cup {cl[x]}
    /\ Goto(x, "leave")
    /\ UNCHANGED <<process, stopping, down, upload, who, cl, hd, last, graceful,
                   declaredOver, inflight>>

\* CancelJob for a running job: the live worker of the key, held while the
\* cancellation is written, or nothing at all.
CancelJob(y, x) ==
    /\ pc[y] = "idle"
    /\ pc[x] = "job"
    /\ LET c == workers[KeyOf(x)] IN
        IF closed \/ c = None \/ c \in dead
          THEN /\ declaredOver' = declaredOver \cup {x}
               /\ UNCHANGED <<inflight, request>>
          ELSE /\ Hold(c)
               /\ Goto(y, "cancel")
               /\ cl' = [cl EXCEPT ![y] = c]
               /\ who' = [who EXCEPT ![y] = who[x]]
               /\ UNCHANGED <<hd, last, declaredOver>>
    /\ UNCHANGED <<table, process, stop, down, upload, charged, graceful>>

-----------------------------------------------------------------------------
(* Uploads: OpenWrite, Finalize and the pins. *)

\* OpenWrite's reply names the handle; the hold now belongs to the pin.
OpenWrite(x, h) ==
    /\ "upload" \in env
    /\ pc[x] = "rpc"
    /\ cl[x] \notin dead
    /\ h \notin told
    /\ inode' = [inode EXCEPT ![h] = cl[x]]
    /\ pins' = [pins EXCEPT ![h] = cl[x]]
    /\ told' = told \cup {h}
    /\ Return(x)
    /\ UNCHANGED <<table, process, stop, down, env, history, inflight>>

ClaimUpload_LosesHold(x, p, h) ==
    /\ pc[x] = "idle"
    /\ pins[h] # None
    /\ owner[pins[h]][1] = p[1]
    /\ pins[h] \in dead
    /\ pins' = [pins EXCEPT ![h] = None]
    /\ UNCHANGED <<table, process, stop, down, inode, told, env, request, history, inflight>>

\* claimUpload by the user who opened it: the hold passes to the claimant, or
\* goes at once when the worker is known to be dead.
ClaimUpload(x, p, h) ==
    /\ pc[x] = "idle"
    /\ pins[h] # None
    /\ owner[pins[h]][1] = p[1]
    /\ pins' = [pins EXCEPT ![h] = None]
    /\ IF pins[h] \in dead
         THEN Release(pins[h]) /\ UNCHANGED request
         ELSE /\ Goto(x, "fin")
              /\ who' = [who EXCEPT ![x] = p]
              /\ cl' = [cl EXCEPT ![x] = pins[h]]
              /\ hd' = [hd EXCEPT ![x] = h]
              /\ UNCHANGED <<last, inflight, stopping, graceful>>
    /\ UNCHANGED <<table, process, retireQ, down, inode, told, env, charged, declaredOver>>

\* The worker ran the finaliser.
Finalized(x) ==
    /\ pc[x] = "fin"
    /\ cl[x] \notin dead
    /\ inode' = [inode EXCEPT ![hd[x]] = None]
    /\ Release(cl[x])
    /\ Return(x)
    /\ UNCHANGED <<table, process, retireQ, down, pins, told, env, charged, declaredOver>>

\* The worker is gone, and the handle with it.
FinalizeLost(x) ==
    /\ \/ pc[x] = "lost"
       \/ pc[x] = "fin" /\ cl[x] \in dead
    /\ Release(cl[x])
    /\ Return(x)
    /\ UNCHANGED <<table, process, retireQ, down, upload, charged, declaredOver>>

FinalizeRefused_Unpinned(x) ==
    /\ pc[x] \in {"fin", "lost"}
    /\ Release(cl[x])
    /\ Return(x)
    /\ UNCHANGED <<table, process, retireQ, down, upload, charged, declaredOver>>

FinalizeRefused_ReleasesToo(x) ==
    /\ pc[x] \in {"fin", "lost"}
    /\ pins' = [pins EXCEPT ![hd[x]] = cl[x]]
    /\ Release(cl[x])
    /\ Return(x)
    /\ UNCHANGED <<table, process, retireQ, down, inode, told, env, charged, declaredOver>>

\* keptTheHandle: queue_full, or the caller's context ended.  In the second
\* case the worker may have run the finaliser all the same.
FinalizeRefused(x) ==
    /\ pc[x] \in {"fin", "lost"}
    /\ pins' = [pins EXCEPT ![hd[x]] = cl[x]]
    /\ \/ UNCHANGED inode
       \/ cl[x] \notin dead /\ inode' = [inode EXCEPT ![hd[x]] = None]
    /\ Return(x)
    /\ UNCHANGED <<table, process, stop, down, told, env, history, inflight>>

\* The worker's own timeout (ten minutes) throws an unfinished upload away.
WorkerDropsUpload(h) ==
    /\ inode[h] # None
    /\ inode' = [inode EXCEPT ![h] = None]
    /\ UNCHANGED <<table, process, stop, down, pins, told, env, request, history, inflight>>

\* sweepUploadPins, five minutes after the worker's own timeout.
SweepPin(h) ==
    /\ sd \in {"open", "closed"}
    /\ pins[h] # None
    /\ inode[h] \notin Running
    /\ pins' = [pins EXCEPT ![h] = None]
    /\ Release(pins[h])
    /\ UNCHANGED <<table, process, retireQ, down, inode, told, env, request, charged, declaredOver>>

-----------------------------------------------------------------------------
(* The ends of a worker. *)

\* reapIdle.
ReapIdle(k) ==
    /\ sd \in {"open", "closed"}
    /\ workers[k] # None
    /\ Idle(workers[k])
    /\ workers' = [workers EXCEPT ![k] = None]
    /\ retiring' = retiring \cup {workers[k]}
    /\ stopping' = stopping \cup {workers[k]}
    /\ graceful' = graceful \cup {workers[k]}
    /\ UNCHANGED <<spawning, budgets, process, retireQ, down, upload, request,
                   charged, declaredOver, inflight>>

\* go p.retire(c)
RetireBroken(c) ==
    /\ c \in retireQ
    /\ retireQ' = retireQ \ {c}
    /\ Retire(c)
    /\ UNCHANGED <<proc, owner, terminating, superseded, down, upload, request,
                   graceful, declaredOver, inflight>>

\* terminate: bye, fail, close and the signals, once.
Terminate(c) ==
    /\ c \in stopping \cup sdAll
    /\ c \notin terminating
    /\ terminating' = terminating \cup {c}
    /\ dead' = dead \cup {c}
    /\ UNCHANGED <<table, proc, owner, superseded, stop, down, upload, request, history, inflight>>

\* The process is gone, killed or crashed.
Exit(c) ==
    /\ proc[c] = "up"
    /\ c \in terminating \/ "crash" \in env
    /\ proc' = [proc EXCEPT ![c] = "gone"]
    /\ UNCHANGED <<table, owner, dead, terminating, superseded, stop, down, upload,
                   request, history, inflight>>

\* readLoop reads the end of the stream.
ReadEnd(c) ==
    /\ proc[c] = "gone"
    /\ c \notin dead
    /\ dead' = dead \cup {c}
    /\ UNCHANGED <<table, proc, owner, terminating, superseded, stop, down, upload,
                   request, history, inflight>>

\* stopRetired gives the slot back, once the process is really gone.
SlotFreed(c) ==
    /\ c \in stopping \cap terminating
    /\ proc[c] = "gone"
    /\ stopping' = stopping \ {c}
    /\ retiring' = retiring \ {c}
    /\ UNCHANGED <<workers, spawning, budgets, process, retireQ, down, upload, request,
                   history, inflight>>

-----------------------------------------------------------------------------
(* Shutdown. *)

Shutdown ==
    /\ "shutdown" \in env
    /\ sd = "open"
    /\ sd' = "closed"
    /\ UNCHANGED <<table, process, stop, sdAll, sdStart, upload, request, history, inflight>>

PinsOn(c) == {h \in Handle : pins[h] = c}

\* The janitor is gone; dropUploadPins lets go of every pin.
DropPins ==
    /\ sd = "closed"
    /\ sd' = "sweep"
    /\ LET freed == {c \in Client : PinsOn(c) # {} /\ LastOut(c, Cardinality(PinsOn(c)))} IN
        /\ stopping' = stopping \cup freed
        /\ graceful' = graceful \cup freed
    /\ inflight' = [c \in Client |-> inflight[c] - Cardinality(PinsOn(c))]
    /\ pins' = [h \in Handle |-> None]
    /\ UNCHANGED <<table, process, retireQ, sdAll, sdStart, inode, told, env, request,
                   charged, declaredOver>>

Sweep_ForgetsStartups ==
    /\ sd = "sweep"
    /\ sdAll' = sdAll \cup Current \cup retiring
    /\ sdStart' = {}
    /\ workers' = [k \in Key |-> None]
    /\ retiring' = {}
    /\ sd' = IF Current \cup retiring = {} THEN "last" ELSE "await"
    /\ UNCHANGED <<spawning, budgets, process, stop, upload, request, history, inflight>>

\* One turn of the loop: collect everything there is, or find nothing left.
Sweep ==
    /\ sd = "sweep"
    /\ sdAll' = sdAll \cup Current \cup retiring
    /\ sdStart' = {spawning[k] : k \in Reserved}
    /\ workers' = [k \in Key |-> None]
    /\ retiring' = {}
    /\ sd' = IF Current \cup retiring = {} /\ Reserved = {} THEN "last" ELSE "await"
    /\ UNCHANGED <<spawning, budgets, process, stop, upload, request, history, inflight>>

StartupsSettled ==
    /\ sd = "await"
    /\ sdStart = {}
    /\ sd' = "sweep"
    /\ UNCHANGED <<table, process, stop, sdAll, sdStart, upload, request, history, inflight>>

\* wg.Wait, and the pool is down.
ShutdownDone ==
    /\ sd = "last"
    /\ \A c \in sdAll : c \in terminating /\ proc[c] = "gone"
    /\ sd' = "done"
    /\ UNCHANGED <<table, process, stop, sdAll, sdStart, upload, request, history, inflight>>

-----------------------------------------------------------------------------
Acquire(x) ==
    \/ GetGivesUp(x) \/ GetWorker(x) \/ GetSupersedes(x) \/ MarkRetired(x)
    \/ GetFindsCorpse(x) \/ GetJoins(x) \/ GetIsBlocked(x) \/ GetFindsNoRoom(x)
    \/ GetEvicts(x) \/ GetReserves(x)
    \/ PingAnswered(x) \/ PingFails(x) \/ DropWorker(x)

Startup(x) ==
    \/ \E c \in Client : Fork(x, c)
    \/ ForkFails(x) \/ HelloAnswered(x) \/ HelloFails(x)
    \/ Register(x) \/ StartupFails(x)

Use(x) ==
    \/ Done(x) \/ Broken(x) \/ OpenStream(x) \/ StartJob(x)
    \/ JobOutlivesGrace(x)
    \/ \E y \in Call : CancelJob(y, x)
    \/ \E h \in Handle : OpenWrite(x, h)
    \/ Finalized(x) \/ FinalizeLost(x) \/ FinalizeRefused(x)

Worker(c) ==
    RetireBroken(c) \/ Terminate(c) \/ Exit(c) \/ ReadEnd(c) \/ SlotFreed(c)

ShutdownStep == DropPins \/ Sweep \/ StartupsSettled \/ ShutdownDone

Next ==
    \/ \E x \in Call : Acquire(x) \/ Startup(x) \/ Use(x)
    \/ \E x \in Call, p \in Principal : Begin(x, p)
    \/ \E x \in Call, p \in Principal, h \in Handle : ClaimUpload(x, p, h)
    \/ \E h \in Handle : WorkerDropsUpload(h) \/ SweepPin(h)
    \/ \E k \in Key : ReapIdle(k)
    \/ \E c \in Client : Worker(c)
    \/ Shutdown
    \/ ShutdownStep

Spec == Init /\ [][Next]_vars

-----------------------------------------------------------------------------
(* Safety. *)

Holders(c) == {x \in Call : pc[x] \in Holding /\ cl[x] = c}

\* Max bounds the worker processes alive on the NAS, not entries in a map
\* (makeRoomLocked): whatever is starting, serving, superseded, evicted or
\* refusing to die.
MaxIsACeiling == Cardinality(Running) <= Max

\* Single flight and the hand-overs between the maps lose nothing: a live
\* process is the current worker of its key, on its way out, being collected
\* by Shutdown, or in the hands of the one request that is starting it.
Owned(c) ==
    \/ IsCurrent(c) /\ workers[owner[c][1]] = c
    \/ c \in retiring \cup sdAll
    \/ \E k \in Reserved : cl[spawning[k]] = c
EveryProcessIsTracked == \A c \in Running : Owned(c)
PoolIsBounded == MaxIsACeiling /\ EveryProcessIsTracked

\* A request is served by a process of its own user, forked with the groups
\* the request was admitted with; a Finalize, by the user's own process.
OwnIdentity ==
    \A x \in Call :
        /\ pc[x] \in {"rpc", "stream", "job"} => owner[cl[x]] = who[x]
        /\ pc[x] \in {"fin", "lost"} => owner[cl[x]][1] = KeyOf(x)

\* c.inflight is the number of requests and pins that hold the worker: no
\* hold is lost between OpenWrite, the pin, Finalize and the sweeps, and none
\* is given back twice.  So a worker stopped because nobody was using it (reaped,
\* evicted, superseded) is in nobody's hands any more, nor kept for an upload.
HoldsBalance ==
    \A c \in Client : inflight[c] = Cardinality(Holders(c)) + Cardinality(PinsOn(c))
NobodyIsInterrupted ==
    \A c \in graceful : Holders(c) = {} /\ PinsOn(c) = {}
HoldsProtect == HoldsBalance /\ NobodyIsInterrupted

\* A crash, a failed ping and a failed write of one worker are one restart.
ChargedOnce == \A c \in Client : charged[c] <= 1

\* While a live worker still holds the inode of a handle it has given out,
\* somebody can still finish or discard the upload: the handle is pinned or a
\* Finalize is under way.  Only the end of the pool takes that away.
HandleStaysReachable ==
    \A h \in told :
        inode[h] \in Running \ dead /\ ~closed
            => \/ pins[h] = inode[h]
               \/ \E x \in Call : pc[x] \in {"fin", "lost"} /\ hd[x] = h /\ cl[x] = inode[h]

\* When Shutdown has reported completion no worker process is left and none
\* can appear.
ShutdownLeavesNothing == sd = "done" => Running = {} /\ Reserved = {}

\* CancelJob's comment: with no live worker there is nothing to cancel.
NothingLeftToCancel ==
    \A x \in declaredOver : ~(pc[x] = "job" /\ proc[cl[x]] = "up" /\ cl[x] \notin dead)

-----------------------------------------------------------------------------
(* Liveness.  Goroutines are scheduled, calls and grace periods are bounded by
   timeouts, a killed process eventually exits (without that no bound on
   Shutdown exists, as awaitExit says), and a pin outlives neither the
   worker's nor the pool's own timeout. *)

Killed(c) == c \in terminating /\ Exit(c)

FairSpec ==
    /\ Spec
    /\ \A x \in Call : WF_vars(Acquire(x) \/ Startup(x)) /\ WF_vars(Use(x))
    /\ \A c \in Client : /\ WF_vars(RetireBroken(c)) /\ WF_vars(Terminate(c))
                         /\ WF_vars(Killed(c)) /\ WF_vars(ReadEnd(c)) /\ WF_vars(SlotFreed(c))
    /\ \A h \in Handle : WF_vars(WorkerDropsUpload(h)) /\ WF_vars(SweepPin(h))
    /\ WF_vars(ShutdownStep)

\* A slot taken by a worker on its way out is given back once no request and
\* no upload holds that worker: however it left the table, and whoever let go
\* of it last, its process is stopped.
SlotsComeBack ==
    \A c \in Client :
        c \in retiring /\ Holders(c) = {} /\ PinsOn(c) = {} ~> c \notin retiring

\* Shutdown ends, whatever was starting, running or stuck in a call, and leaves
\* no process and no reservation from which one could appear.
ShutdownCompletes == (closed ~> sd = "done") /\ []ShutdownLeavesNothing
=============================================================================
