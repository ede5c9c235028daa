# Taproot: a TLA+ model of the QNAP file manager

Taproot is a file manager for a QNAP NAS. One root daemon serves the browser,
authenticates users against QTS, keeps an audit log and runs jobs; it never
touches a user's files itself. For every user it forks a worker process with
that user's credentials and talks to it over a socket pair. This directory
models the parts of the program where goroutines, processes, timeouts and
crashes meet, checks them with TLC and proves the central properties with
TLAPS.

## 1. The system

| part | source | state it keeps | operations |
|---|---|---|---|
| job manager | `internal/jobs` | jobs by id, queue counters, slot semaphores, `closed`, a wait group | Submit, Admit, Cancel, ReplaceResult, Reap, Close, one goroutine per job |
| worker pool | `internal/workerpool` | workers by user, startups, retiring workers, restart budgets, upload pins | acquire/get, release, call, Archive, OpenWrite/Finalize, Job, CancelJob, janitor, Shutdown |
| worker | `internal/worker` | running requests and jobs, open uploads, archive outcomes | the serve loop: req, cancel, bye |
| wire protocol | `internal/wproto` | none (framing, descriptors) | frames req/ok/err/prog/warn |
| file operations | `internal/fsops` | the file system | list, open, upload, copy, move, trash, delete, chmod trees, search, archive |
| trash roots | `internal/trashroot` | trash directories per share | choose, create, verify |
| QTS authentication | `internal/qtsauth` | a cache of verified sessions, flights in progress | Verify, Invalidate |
| web sessions | `internal/web/session.go`, `auth_limits.go` | sessions, outage grace, admission slots | login, revalidate, logout |
| web routes | `internal/web/routes_*.go` | search results, confirmations, uploads in progress | the HTTP interface |
| break-glass door | `internal/breakglass`, `internal/web/breakglass.go`, `cmd/taproot/breakglass.go` | failed attempts per source, lockouts, sessions, the listener | admit, verify, lock out, arm and disarm the listener |
| guard | `internal/guard` | confirmation tokens | confirm, redeem |
| audit log | `internal/audit` | a bounded buffer, a file, a mirror queue | Write, WriteSync, Hold, Close |
| identity map, platform, perm | `internal/idmap`, `platform`, `perm` | cached tables | lookups, probes, mode arithmetic |
| configuration | `internal/config`, `jsonfile`, `durable` | one file and its lock | load, update, durable replace |
| daemon | `cmd/taproot` | the order of start and stop | arm listeners, reap jobs every minute, Close jobs then Shutdown the pool |

How they interact. A route authenticates the session, checks the guard, writes
an audit intent and either calls the pool directly or submits a job whose work
function calls `Pool.Job`. A job may hold its class's slot while it waits for a
worker; a worker may be superseded or stopped while it runs somebody's job; the
daemon closes the job manager (15 s) before it shuts the pool down. Descriptors
travel from worker to daemon with the reply that names them.

What is hard. Every one of these parts is a Go object behind a mutex that it
must not hold while it waits: the pool forks, pings and stops processes
unlocked, a job waits for its slot in a select together with its cancellation,
the gate hashes a password unlocked. Between the unlock and the next lock the
world changes: a user's groups change, a worker crashes, the pool is shut
down, a job is cancelled. Failures are partial: a startup may fail after the
fork, a Finalize may have run although its caller gave up, a cancelled job may
not stop. Ends must happen once: a slot is returned once, a hook runs once, a
crash is charged once. And everything must end: Close, Shutdown, the slot of a
worker nobody can kill in time.

Correctness, part by part.

| part | what must hold |
|---|---|
| job manager | a slot per job at work, exact queue counters, one reported end per job, nothing cancelled in the queue runs, Close leaves nothing behind |
| worker pool | at most Max processes, none lost, a request is served under its own identity, nobody's worker is stopped while held, uploads stay reachable, Shutdown is complete |
| calls and worker | no descriptor without an owner, results survive the worker's death, a cancellation reaches its request, a cancelled job stops, the goodbye is orderly and ends |
| break-glass gate and door | attempts bounded per source and in total whatever interleaves with the hash, lockout monotone until it expires, a disarmed door admits nobody |
| QTS authentication, sessions | one upstream verification per key in flight, a session outlives its credential by no more than the grace period, logout is final |
| file jobs | a failed or crashed copy, move, trash or upload leaves the old file or the new one, never a half-written name; a source is deleted only when its copy is whole |
| audit | what is dropped is counted, an intent is on disk before its mutation, Close is bounded |
| configuration | readers see the old or the new file; two writers are serialised |

## 2. Modules

| module | what it is | code |
|---|---|---|
| `JobManager` | the job manager, one action per critical section | `internal/jobs/jobs.go` |
| `JobLifecycle` | what it promises: an abstract life of a job | the same |
| `JobManagerProofs` | theorems about it, for every value of the constants | |
| `WorkerPool` | the pool of worker processes | `internal/workerpool/{workerpool,client,stream,job}.go` |
| `WorkerPoolProofs` | theorems about it, for every value of the constants | |
| `WorkerSession` | one worker process: read loop, handlers, goodbye | `internal/worker/{worker,job}.go` |
| `WorkerCalls` | the daemon's end of that worker's connection, composed with `WorkerSession` | `internal/workerpool/{client,job}.go` |
| `WorkerCallsProofs` | theorems about the two composed, for every value of the constants | |
| `BreakGlassGate` | the bounds of the emergency door: buckets, lockouts, slots | `internal/breakglass/gate.go` |
| `DoorSession` | the door around that gate: logins, sessions, requests, and the command line that changes the password | `internal/web/breakglass.go`, `cmd/taproot/breakglass.go` |
| `DoorProofs` | theorems about the gate and the door, for every value of their constants | |
| `FileTree` | what one file job sees of a share, and the others who change it | the system calls of `internal/fsops/{open,mutate,copy}_linux.go` |
| `CopyMove` | one copy or move job on that tree | `internal/fsops/{copy,walk_linux}.go` |
| `CopyMoveProofs` | theorems about it, for every value of the constants | |
| `TrashRoot` | the publication of a volume's trash directory | `internal/trashroot` |
| `TrashBin` | one user's entries in it: delete, restore, empty | `internal/fsops/trash.go` |
| `Trash` | the two composed, and what must hold of both | the same |
| `TrashProofs` | theorems about the publication and about the entries, for every value of the constants | |
| `WebRequest` | the requests the next four speak of | |
| `Guard` | the switch, verdicts and confirmation tokens | `internal/guard` |
| `AuditLog` | the log: queue, durable writes, mirror, Close | `internal/audit`, `internal/logfile` |
| `SignIn` | sessions and the verification of their QTS credential | `internal/web/{session,auth_limits}.go`, `internal/qtsauth` |
| `Requests` | the mutating routes over these three, and the jobs they submit | `internal/web/{server,routes_*}.go`, `internal/config` |
| `SignInProofs` | the invariant of the sign-in, and that its steps keep it | |
| `RequestsProofs` | theorems about the routes with log, guard and sign-in, for every value of the constants | |
| `MC...` | the finite constants, scenes and symmetries TLC needs | |

`WorkerPool` and `WorkerCalls` meet at `retire`, `detach` and `terminate`: the
pool sees a call as one step that is answered or breaks the worker; the calls
module opens that step up and sees the pool only as somebody who may terminate
the worker. `Requests` meets the job manager where a route submits: a job in it
is the steps submit, start, run and result, and the manager may refuse, queue or
drop it. `CopyMove` and `TrashBin` are what such a job does inside a worker.

### JobManager

An entry is one accepted `Submit`, named by the sequence number it drew. Its
fields are functions over entries (`state`, `class`, `id`, `cancelRequested`,
`partial`, `result`, `notified`), and `pc[e]` says where its `run` goroutine
stands. The manager's fields keep their names (`jobs`, `queued`, `seq`,
`closed`, `wg`, `sem`).

| in the model | in jobs.go |
|---|---|
| one action | one critical section of `m.mu` or `e.mu`, or one channel operation |
| `pc = "select"`, `"won"`, `"withdraw"` | the select between `sem <-` and `ctx.Done()`, and its two arms |
| `"check"`, `"start"`, `"refused"` | `isClosed`, `start` and its refusal |
| `"fn"`, `"finish"`, `"release"` | the work function, `finish`, the deferred receive from `sem` |
| `"notify"`, `"hook"`, `"gone"` | the once-only latch, `OnFinish`, the end of the goroutine |
| `admit` | the class whose slot a request holds through `Admit` |
| `closer`, `toCancel` | where `Close` stands and the snapshot it cancels from |

The work function is an environment: it returns done, failed or cancelled, and
may ignore its cancellation. Retention time is a small clock (`now`).
`hookRuns`, `ran`, `wonLate` and `stoppedQueued` are history variables: no
guard reads them.

### WorkerPool

A client is one incarnation of a worker process with the pool's struct for it.
`workers`, `spawning`, `retiring`, `budgets` and `pins` are the pool's maps;
`proc`, `owner`, `dead`, `terminating`, `superseded` and `inflight` belong to
the client. A request goroutine walks `acquire -> get -> (fork, hello, register)
-> ping -> use -> release`. One action is one critical section of `p.mu`, so
that everything another goroutine can do between an unlock and the next lock is
an interleaving of the model. `env` is what a behaviour may meet besides
plain calls: uploads, archives, jobs, crashes, broken transports, Shutdown.

Abstracted: time (an idle worker may or may not have reached its timeout, a
bounded wait may end at any moment); which idle worker is evicted (the code
takes the least recently used, the model any idle one, so every safety property
covers the code's choice); the clock of the restart budget (a startup may be
refused whenever the user has an entry); what a call carries.

### WorkerSession and WorkerCalls

The socket pair is two FIFO queues (`down`, `up`) and two ends that may be
closed. Closing the daemon's end drops what it had not read; the worker's death
leaves what it had sent. The worker's read loop takes every accept decision in
frame order; a request it accepts has a handler state `h[c]`: working, over
(work returned), reply (its job name is free again), left (terminal frame sent),
done. `jobs` is the worker's table of JobIDs, `cancelled` the requests whose
context is over, `bye` the goodbye that waits for the handlers.

On the daemon's side `table` is the pending map, `chan` the channel of each
call, `pc[c]` where its caller stands: registered, waiting in its select,
draining, cancelling, in the grace period of a cancelled job. `opened` holds the
descriptors received and not yet closed by anybody. `p.abandoned` is set exactly
where the entry leaves the table and has no variable of its own.

Left out: the acknowledgements of cancellations (registered only so that the
reader can drop them), the hello of a fresh worker (in `WorkerPool`), malformed
frames, and what operations do. Two merges are made, both of steps between which
nothing else can be observed: `fail` marks the client dead and hands out the
errors in one step (who gives up in between finds an error frame without a
descriptor), and a cancellation looks at `c.dead` and writes in one step. A job
that is reported late, with its whole result but after its caller's context
ended, is the outcome `"late"`.

### BreakGlassGate

`sources` and `lru` are the gate's table and its list; an entry has the tokens
of its bucket, the consecutive failures, the lock and whether the lockout was
reported. `admit` and `verify` count the slots taken of the two channels. An
attempt is `out`, `charged` (the bucket let it in), `queued` (it holds an
admission slot and waits for the turn), in its `turn` (bcrypt runs, `g.mu` is
free) or `judged` (the handler has the verdict and still holds its admission
slot). `SourceLocked` is the code's function with its eviction; every action
that touches an address goes through it.

* Time is relative. An entry holds the ticks that remain of its lock and the
  ticks since its bucket was charged, so that the clock needs no bound; a lock
  that ran out and has not been noticed is 0, one that was never set or was
  cleared is -1.
* A `Duration` wraps at `HalfRange`; `Shifted` and `Rung` are the shift and the
  clamp of `failedLocked`.
* `AllowSource` reads the clock before it takes `g.mu`: `ClockLag` is how stale
  that reading may be when it is stored. Two calls that lock in the other order
  credit the interval between their readings twice; the model has the step, no
  property is stated of an excess that small.
* `hist` is a history variable that no guard reads: for every address, how many
  wrong passwords in a row it has given, how long nothing it offers may be looked
  at by the documented ladder, and the lockouts reported entered less those
  reported left. An address that is evicted is owed nothing: the table is bounded
  on purpose.
* The lock of an address is read and the turn begun in one step, as in the code,
  under `g.mu`; the outcome is committed by another, `TurnEnds`.

### DoorSession

It extends the gate: each step of a login is a step of `BreakGlassGate` and what
the door does with it. `file` is `auth.local` in the configuration file, `cred`
the copy the daemon last loaded; `sessions` is the store, each session with those before it in
the list.
A login reads the credential at the beginning of its turn and issues its session
after the turn with the `updated` stamp it has read; a request reads the
credential before it takes `d.mu`. The command line rewrites the file between any
two of these, changing the password, disabling it, or for another key.

Where a peer stands (this machine, the local network, elsewhere) is an input of
each step that asks, because the code asks the kernel anew each time. The branch
of `issue` for a full store cannot be reached, since the loop before it makes
room, and has no action. The credential's stat or load may fail at any read.

Not in it: arming and disarming the listener, the late bind and its watcher, the
list of local addresses and its refreshes, and the throttle of refusals.

### FileTree and CopyMove

A node is an inode; a place is a directory and a name in it. The worker holds
the directories it works in open, so a place names its directory by node: a
directory renamed under the job stays the one it holds. The others may rewrite,
remove, create, replace and rename entries between any two steps of the job
(`OthersStep`), and change times are ticks of a clock in which two changes may
fall into one.

A job (`sc`) has its tree, whether it moves, its conflict policy, how files are
built in the destination (`build`: an unnamed file, a staging directory, in
place, or refused), whether source and destination are on one file system, and
how many calls may fail. `pc` and `item` walk one entry through the engine:

| in the model | in copy.go |
|---|---|
| `TakeRoot`, `PlaceRoot`, `TryRename`, `NoSpace`, `BeginCopy` | `one`, `placeRoot`, `tryRename`, `ensureSpace` |
| `OpenDir`, `Enter`, `MakeDir`, `PinDir`, `Opened`, `WalkEntry`, `Persist`, `Unwind` | `copyTree`, the visits of the walk, `makeDir` and its proofs |
| `OpenSource`, `Settle`, `Build`, `ReadFirst`, `ReadLast`, `Verify`, `LinkUnnamed`, `Publish`, `CloseCopy` | `copyFile` from `open` to `publish` |
| `CopyLink` | `copyLink` |
| `FinishRoot`, `DeleteNext`, `Look`, `CompareFirst`, `CompareLast`, `UnlinkEntry`, `RemoveDir` | the second pass of a move over `ledger`: `finishMove`, `deleteRecorded`, `copyStillThere`, `contentMatches` |

A file is read in two halves, so that a rewrite in between gives `Torn` content,
and holds `Partial` while it is written. Contents are only compared: what a node held
from the start, what the others wrote (never the same twice), and what the job left
half written or put together, each marked with its node. `ledger` is what a move recorded,
`tracked` and `above` the directories it would not enter (`made`, `ancestry`).
The pairs of calls the kernel has no single call for (the last look at a name and
the unlink or rename of it) are one step: the source names those windows as its
residual. `made`, `copied`, `held`, `synced` and `flushed` are history: what the
job created, read, had standing whole, and flushed. A directory is counted in `made`
once `makeDir` has pinned it and proved that it is the one it created: before that
the name may show somebody else's, and the job says so itself. Left out: modes, owners and
times once they are set, hard links, special files, quotas, and the wording and
counting of warnings beyond whether there was one (`grumbled`).

### TrashRoot, TrashBin and Trash

`TrashRoot` follows `trashroot.Ensure` call by call: look, make a temporary
directory, open it, prove it, open it to all through its descriptor, publish it by a
rename that replaces nothing, verify; and behind a publication that failed, look at
the name again and remove what stands there. Several requests at once, while others
between any two calls rename what stands at the mount root or plant directories no
publisher made there. Those are of every kind `provenance` tells apart: root's,
private and empty, sticky, or none of that; and of the private ones some are fresh
(`recent`: made by another process of root's within `tempMaxAge`). Every call may
fail, the sticky bit be dropped, a fresh directory look stale, a race be lost.
`held` is the open descriptor, `made` what the cleanup may remove, `after` what
`Ensure` does behind it. Two windows the source concedes are in the model, and so
in the property: the removal is by name, of what stands there by then
(`trashroot.go:444`), and a private directory refused as stale is taken away although
it may be somebody else's (`trashroot.go:489`). So is the residue PLAN.md (2.7)
accepts, that a fresh, empty directory of another process of root's becomes the
trash. The kernel is one that has `RENAME_NOREPLACE`: the check before a plain
rename that older ones get is left out.

`TrashBin` has for every item where it is (`where`), and for every entry
directory its sidecar in memory and on disk (`meta`, `disk`). Delete is scan,
make the entry, write the sidecar, move in, verify the payload; restore is read,
put back, drop the sidecar; empty goes over the entries it listed: give up the
stated size durably, take the payload apart through its descriptor, clear litter,
drop the sidecar, remove the entry. Jobs of one user run side by side; another
program may swap what stands at the selected name; a worker is killed (a rewrite
leaves its temporary behind) and the power cut (unflushed sidecars fall back).

`Trash` composes them. No later step of a job reads the root, so a behaviour
looks either at the requests that publish it or at the jobs in a published one.

### Guard, AuditLog, SignIn

`Guard` knows places by class (normal, warn, protected); which path is which is
string matching and stays out. A token is named after the request it was handed
to, and binds its parts and an expiry; `seen` are the spent tokens that are
remembered and swept, `costs` the measured costs `Peek` reports.

`AuditLog`: a caller's `WriteSync` waits for admission, then for its line's
worker, and both waits end by the clock; `work` and `out` are that worker and its
report; `ch`, `drain` and `mirrorq` the queue, its reader and the mirror. `file`
is what a reader of the log sees, `safe` what a power cut leaves. `log` follows
`Close`: joining the writers, flushing the mirror, closed or left open.

`SignIn` is one credential. A request looks its cookie up, boots or creates a
session (one creator at a time, `leader`), takes the session's lock, is admitted,
invalidates what is cached when it is unsafe, and verifies: from the cache, by
joining the flight, or by leading one. An answer records which requests had
arrived when QTS gave it (`after`), which is what an unsafe request must rest
on, and whether it was asked for in the name of a session that was already gone
(`stray`).

### Requests

A handler is the sequence of steps ahead of it (`at`), named after the source:
`look` (check and resolve), `confirm`, `record` (the durable intent), `call` (the
worker), `result`, and for jobs `submit`, `start`, `run`; a batch has an intent
and a result per item; uploads have slots, a body and a Finalize; settings lock
`cfgMu`, save, apply, report and undo. `dispatch` gives each route its sequence:
mkdir, rename, delete, batch, chmod, chown, upload, the delete, transfer,
chmod, chown, restore and empty jobs, and settings. Two things a request may ask
that are external to it, the ACL of the item and the mode of its dataset, change
while it is under way (`acl`, `aclmode`). One exit is left out: `json.Marshal` of a
job's request failing behind its intent (`routes_jobs.go:767`), which it has no reason
to do for paths, numbers and flags.

A *scene* (`MCRequests`) names two or three requests, what places they are about,
whose token each shows, and bounds on what else happens: ticks, saves that fail,
a changing ACL, sign-outs, removals, expiries, a `Close` of the log. The sink
finishes what it was given before anybody moves (`Settled`), except in the scenes
about a slow one, which have one or two requests and let it hang at every step.

`stored` is the switch in the configuration file and `blind` says that the file
could not be read back after a failed save. `handed`, `twice`, `recorded`, `ran`,
`bound` and `wiped` are history variables: lines handed to the log, intents it
acknowledged, items whose work began, items that read-only mode must stop, and
requests whose chmod met an ACL it destroys.

## 3. Runs

| run | question |
|---|---|
| `jobs_end` | two jobs and a borrower, one slot, a queue of one, a clock, Reap, ids used again, Cancel and Close: is every end reached one way, told once and truthfully, and is every step one of the abstract lifecycle? |
| `jobs_live` | a borrower and two jobs, under fairness: are the counters exact, do Close and Cancel end whatever they meet, and does nobody starve while borrowers keep coming? |
| `pool_serve` | one user whose credentials change, two requests, with room for the old worker beside the new one; either an upload and broken transports, or archives, jobs, crashes and broken transports: identity, holds, charges, reachable handles |
| `pool_shutdown` | two users, one of them with changing groups, compete for one slot: the bound and the evictions; Shutdown against a startup, a retirement, an upload in every phase; and, without it, slots that come back |
| `pool_cancel` | the claim in the comment of `CancelJob`, which the code does not keep (section 6) |
| `calls_end` | a download and a job, then the goodbye, on a worker that may crash or be stopped at any step: descriptors, results, and does every call end? |
| `calls_reuse` | two jobs with one JobID, submitted, cancelled and terminated in every order, on a worker whose writes may jam |
| `door` | logins, requests and logouts while the password is changed, disabled or unreadable, through the gate and its table of one address, two attempts behind one another, up a ladder that overflows: slots, pacing, milestones, and is a session ever honoured under another password? |
| `copy` | one copy or move of a file, a link, a folder or a tree, in every policy and way of building, with others, a failing call or a cancellation: is anything lost, half shown or silently skipped, does the job meet what it writes, and does a step wait or try again for ever? |
| `trash` | two publishers of a trash root against others: what root opens to everybody, and what it removes; two jobs deleting, restoring and emptying with a failing call and either a swap or a kill or power cut |
| `trash_race` | the order `TrashEmpty`'s documentation promises, which a delete beside an emptying does not keep (section 6) |
| `requests` | scenes on every mutating route: trail, switch, consents, sign-ins, the log's word, and that all of it ends |

Bounds and why they are enough.

* Jobs: two accepted jobs, or one and a borrower, make one hold the slot and one wait;
  a third is refused. `Slots = 1` makes every race for a slot happen. `RetainCount = 0`
  lets the second job take over the id of the first; that a positive count keeps the
  newer ones is shown by the theorem `EndsAreFinal`, and so is a second class.
  Sequence numbers and ticks are bounded (`MaxSeq`, `MaxNow`).
* Pool: the number of clients bounds the forks of a behaviour; two are enough for a
  worker and its successor, or for one worker of each of two users. `Max = 2` in
  `pool_serve` lets a superseded worker and the new one run side by side; `Max = 1` in
  `pool_shutdown` makes everybody compete for the same slot, the retiring included.
  A behaviour draws what it may meet from `Envs`, which holds what the run's question
  needs; that a broken upload and a crashed job do not meet in one behaviour of
  `pool_serve` is made good by the proofs, which know no such bound.
* Calls: one download and one job meet every kind of frame; the goodbye is the
  third call. `MaxLive = 1` in `calls_end` bounds the calls waiting in the daemon,
  not the handlers in the worker: an abandoned handler still runs while the next
  call is made. A job's channel has capacity 1 instead of 64, which is the case where
  progress outruns the reader at once; `MaxUp` bounds the frames that may wait for the
  daemon when a job reports progress: in `calls_end` a job does so only while nothing
  else waits. That run has crashes and a pool that stops the worker; `calls_reuse` has
  that pool and writes that jam, and no progress frames (`MaxUp = 0`): they do not touch
  JobIDs. A jam that meets a crash, and more calls, frames and names, are made good by
  `WorkerCallsProofs`, which know no such bound.
* Door and gate: two attempts, both admitted, so that one queues behind the turn of the
  other, from two addresses of which one is tracked, so that every arrival of the other
  evicts its entry; a store of one session makes every login evict the session before
  it. The lockout begins at the first wrong password, and `MaxFailures = 5` lets a guess
  follow each of four rungs: the base, its double, which is the cap, a shift above
  the cap, and one that overflows (`HalfRange = 8`) to a negative duration. One write
  of the file is a change of the password, its end, or another key's. Requests with a
  cookie and a ladder above its first rung are looked at apart (`Apart`), since a
  request reads neither the ladder nor the slots.
* Copy: a tree has a directory with a file in it, a second file beside it and an
  optional entry in the way, which meets every branch of the walk; `Plans` crosses
  policies, ways of building and move or copy. Three moves of a file let the others act
  twice (rewrite and replace), the other jobs once; failures and cancellations are
  explored without the others. `room` is 3 instead of the ledger's and table's limits,
  and 1 in the jobs about a full one.
* Trash: two entries and two jobs make every pair of delete, restore and empty meet;
  a folder of one part is half emptied. Two publications of two requests include the
  lost race, the retry and a temporary directory in the other's place; two moves take
  what stands under a name away and put something else there, the one directory no
  publisher made, which is of each kind in turn (`MCInit` leaves the bin at rest
  meanwhile). One failure, with either a swap or a crash (`Mishaps`).
* Requests: two requests on one route and the switch, or one token shown by three, are
  enough for every pair of interleaved steps; scenes combine only things that touch
  each other. `Depth`, `SyncWriters`, `MirrorDepth`, `MaxUploads` and `Ttl` are 1, so
  that every queue is full at its second user and every token expires within a step.
* Deadlock is checked only for `pool_serve`, `pool_shutdown` and `pool_cancel`: in the
  other runs all jobs, requests and bounded events may be over.

Every property of a passing run is also broken on purpose: the modules hold a
faulty variant of an operation next to the true one (named after it, and marked as
such), and the property must fail when the variant replaces it. `TypeOK` of the
modules that have no theorem of it documents the types of their variables.

## 4. Fairness

Liveness is checked only where the code's scheduling justifies it.

* A goroutine that can take a step takes one: weak fairness per goroutine.
* A job waits in a channel send to the semaphore. Go's channels serve waiting
  senders in order, so a job that finds the slot free again and again gets it:
  strong fairness of `TakeSlot`. A borrower gives its slot back.
* A work function whose context is cancelled returns. That it returns otherwise
  is assumed only by `NoJobStarves`, through `Patience`.
* A select does not prefer one ready arm for ever: the runtime picks at random,
  so a caller whose context is over notices it although progress keeps coming.
* Every call but a job's has a deadline; a job has none, and only the grace
  timer of a cancelled one is assumed to fire.
* A process that is being killed goes. Without that `Shutdown` has no end, as
  `awaitExit` says itself. Nothing is assumed of an operation inside a worker:
  it may sit in a system call for ever, which is what `MutationStops` is about.
* An upload's pin outlives neither the worker's nor the pool's timeout.
* A copy job takes its next step: weak fairness of the job as a whole, which is one
  goroutine. Nothing is assumed of the others, nor of the clock: the waits for it are
  bounded by polls.
* Of the requests only one fairness is assumed, of `GoesOn`: that not everything
  stops at once. The handlers and the waits of the log go on; QTS answers or the
  verification's context ends. No request and no wait can take steps for ever, so this
  says no more than that each goroutine runs on. In the scenes about a slow sink the
  disk and `log_tool` are not assumed to answer: only what the clock ends, ends.

## 5. What is proved

`JobManagerProofs` proves about `JobManager`, for every set of classes, ids and
(finitely many) borrowers, every slot count, queue depth and retention, and every
number of jobs:

| theorem | property |
|---|---|
| `TypeCorrect` | `TypeOK` |
| `SlotsAreExact` | `SlotsExact` |
| `QueueIsExact` | `QueueExact` |
| `CountersAreExact` | `CountersExact`, the two together |
| `HookRunsOnce` | `HookOnceAtTheEnd` |
| `StoppedJobsNeverRun` | `StoppedNeverRuns` |
| `PartialIsHonest` | `HonestPartial` |
| `CancellationIsHonest` | `CancelIsHonest`, the two together |
| `LiveJobsStayReachable` | `LiveIsReachable` |
| `CloseIsComplete` | `CloseLeavesNothing` |
| `EndsAreFinal` | `FinalIsFinal` |
| `ManagerImplementsLifecycle` | `ImplementsLifecycle`, the refinement of `JobLifecycle` |

The assumptions are the named ones of `JobManager`: limits are natural numbers,
slots and queue depth at least one, finitely many borrowers, `None` is no class.

None of the manager's properties is inductive alone. That a token is returned once rests
on a goroutine standing where its job's state says it stands; that Close leaves
nothing rests on every live job being asked to stop or still in the snapshot.
`IndInv` says all of it at once: `EntryShape` ties `pc` to state and hook,
`HistShape` ties the history to both, `Counted` makes each counter the size of
the set it stands for, `Reachable` keeps live jobs under their ids and
`CloseShape` follows Close. `IndNext` proves that each action preserves it
(one lemma per action, one step per conjunct the action can disturb), and the
theorems follow from `Inductive`. The refinement is proved step by step from
the same invariant: an action that changes a state, a class or `hookRuns` is a
step of `JobLifecycle`, every other one a stutter; that no job begins beyond
`Slots` follows from `Counted`. `EndsAreFinal` needs one fact more, `EndShape`: a job
is kept under its own id, and a result the ledger has dropped is that of a final job.

`WorkerPoolProofs` proves about `WorkerPool`, for every set of users and credentials,
every `Max`, and any finite number of requests and forks, with everything a behaviour
may meet at once:

| theorem | property |
|---|---|
| `PoolInvariant` | the inductive invariant `PoolInv` |
| `ServedAsOneself` | `OwnIdentity` |
| `HoldsAreExact` | `HoldsProtect` |
| `OneDeathOneCharge` | `ChargedOnce` |
| `HandlesAreKept` | `HandleStaysReachable` |
| `PoolStaysBounded` | `PoolIsBounded` |
| `NothingSurvivesShutdown` | the safety half of `ShutdownCompletes`: when Shutdown has returned nothing runs |

The assumptions are `MaxAssumption` (at least one), `NoneAssumption` (`None` is nobody)
and `FiniteAssumption` (finitely many users, clients and requests, since they are
counted). What is not inductive alone here rests on who holds a client. `RequestShape`,
`OwnShape` and `HandleShape` say what a request at each of its steps has in its hands;
`SlotShape`, `TableShape` and `StarteeShape` that a reservation is the startup of one
request, whose client is nobody else's until it is registered; `LeftShape` that what was
superseded, retired or charged is out of the table for good, which is why one death is
charged once; `HoldShape` that `inflight` counts the holders and the pins, each counted
over a finite set; `SlotsBound` that the workers that are up and settled and the
reservations together stay within `Max`, from which the ceiling follows; `TrackShape` and
`ShutdownShape` that Shutdown's snapshot holds every process there is, which is what its
last wait relies on.

`WorkerCallsProofs` proves about `WorkerCalls` with `WorkerSession`, for every set of
calls, jobs and names, every channel capacity and every failure (writes that jam,
crashes, a pool that stops the worker, in any combination):

| theorem | property |
|---|---|
| `CallsInvariant` | the inductive invariant `CallsInv` |
| `DescriptorsAreOwned` | `NoDescriptorLeaks` |
| `NamesAreReusable` | `ReuseIsSafe` |
| `JobsEndHonestly` | `JobEndIsHonest` |
| `CancellationsReach` | `CancelReaches` |
| `ResultsAreNotLost` | `FinishedIsNotLost` |
| `GoodbyeIsOrderly` | `ByeIsOrderly`: when the goodbye is answered, every request has finished and every answer was read |

The assumptions: opens and jobs are different calls and the goodbye is no request
(`CallAssumption`), every job has a name (`NameAssumption`), `Sem` and the capacity are
positive and `None` is no outcome (`SemAssumption`, `ChannelAssumption`). A step belongs
to the worker or to the daemon's end, and the proof follows that: `WorkerMoves` and
`FrontMoves` say what a step of either may do to what the other relies on, and each
conjunct is kept by both. The conjuncts carry a fact from one end to the other:
`CallShape`, `ChanShape`, `UpShape` and `DownShape` say what a call, its channel and the
frames on their way mean; `WorkerShape` that the table of JobIDs is the jobs that run;
`Arrives` and `SentBack` that, while the worker can be heard, a request that was written
is on its way or accepted, and a finished one is answered or its answer is on its way;
`Left` that nobody leaves a job behind that may still run except on a lost connection;
`Clash` that of two jobs of one name only one reaches the worker, or both were alive
together; `OwnsFile` and `ByeShape` follow a descriptor and the goodbye home.

`DoorProofs` proves about `BreakGlassGate`, for all addresses, finitely
many attempts, and all sizes of the table, the bucket and the channels:

| theorem | property |
|---|---|
| `GateInvariant` | the inductive invariant `GInv` |
| `SlotsAreBalanced` | `SlotsBalance` |
| `MilestonesArePaired` | `MilestonesPair` |
| `GuessesPaced` | `GuessesArePaced` |

The assumptions on the gate are `GateAssumption` (sizes are positive, attempts
finite, `Nobody` no address) and `RungAssumption`: where the shift overflows, the
clamp yields a rung no shorter than the ladder's. That is a fact about numbers, which
TLC evaluates for the constants of the `door` run. It holds for the program's own as
well, 60 s shifted in 64 bits under a cap of 30 minutes: 60e9 << n is above the cap
from n = 5 on and does not overflow before n = 28; every later value is a multiple of
2^39, negative at n = 28 and 29, and from n = 30 on a multiple of 2^41, which as a
positive number is above the cap and otherwise is clamped.

No property of the gate is inductive alone either. That a password is not judged
during a lockout rests on three facts: an entry's lock is never shorter than what
its address is owed (`Settled`); an attempt found its address clear when its turn
began; and there is one turn (`SlotsBalance`), so that nobody can have locked the
address since (`Clear`). An eviction in between replaces entry and history together
by fresh ones, which are clear (`Update`, `LedgerUpdate`). That a lockout is
reported left once rests on `announced` being true exactly while a lock is set, run
out or not. `GuessesPaced` needs one more invariant, `Unjudged`: a verdict appears
only in the step that ends a turn.

It proves about `DoorSession`, for any number of sessions, requests with a cookie, passwords
and writes of the file:

| theorem | property |
|---|---|
| `DoorImplementsGate` | every step of the door is a step of the gate, or leaves it alone |
| `DoorKeepsTheGate` | `SlotsBalance`, `MilestonesPair` and `GuessesArePaced` of the door |
| `DoorInvariant` | the inductive invariant `DoorInv` |
| `SessionsEndWithTheirPassword` | `NoSessionOutlivesItsPassword` |

`DoorAssumption` says that a session may live and that the store holds one. The
refinement is what carries the gate's theorems over: what the door adds to a login, a
cookie, a session and the file touches none of the gate's variables. What the property
rests on is the date. A request is served when the `updated` stamp it read is the
session's, and `Dated` says why that means the password: no two copies of the
credential, in the file, in the cache, in the hands of a login or a request, carry one
date and different passwords, since a command that sets a password dates it anew
(`Copies` lists them, `Truthful` says so of all of them, `Spreads` that a step which leaves
the file alone makes no new one). `Granted` says that a login that succeeded holds, until
its session is issued, the password it was judged by, so that a session's date and the
password it was opened with are such a copy too; `Unique` that an identifier names one
session.

`CopyMoveProofs` proves about `CopyMove` with `FileTree`, for any number of nodes, names
and roots, every tree to start with, every scenario, and any number of steps of the
others, failing calls and ticks:

| theorem | property |
|---|---|
| `BaseInvariant` | the invariant `Base`: where the tree and the job stand |
| `JobNeverCopiesItself` | `NeverCopiesItself` |
| `NamesAlwaysShowWholeFiles` | `NamesShowWholeFiles` |
| `MoveInvariant` | the inductive invariant `Base /\ OwnOK /\ WriteOK /\ MoveOK` |
| `JobLosesNothing` | `NothingIsLost` |
| `QuietInvariant` | the inductive invariant `QuietOK`, over those above |
| `QuietEndsMeanWhole` | `QuietMeansWhole` |
| `TypeInvariant` | `TypeOK` |

The assumptions: the marks for nothing and for the staging directory are no nodes
(`NodeAssumption`), the temporary name is no entry's and there are finitely many names to
keep both under (`NameAssumption`); a scenario is a choice of what `CopyOptions` and the
file systems may be (`ScenarioAssumption`); and a tree has one entry under a name, knows
what stands there, keeps entries in directories, and has a directory for its destination,
and `src` names the selected entries and everything below them (`LayoutAssumption`). One
part of it bounds the model: no selected entry lies deeper than the eight levels
`Ancestors` sees. The tree is one when the job starts; that the others leave it one is not
assumed: they may rename a directory into itself as far as the model's places go.

None of these properties is inductive, and each part of the invariant rests on the ones
before it:

* `Base` is where everything stands: an entry under a name is one node (`WellPlaced`),
  and what the job holds at each of its steps exists and has the kind it was taken for.
* `OwnOK`: what the job made it knows. A directory that was pinned is in `tracked`,
  unless the table was full, in which case the job is past copying, or it is gone; and
  what is taken up is neither known nor the destination. `NeverCopiesItself` follows.
* `WriteOK`: `MarksOK` says whose a half written or torn content is, `SettledOK` that a
  move which finds its source's change time unmoved, and older than the clock, has read one
  version of it, `HomeOK` where the file being written stands, and `WholeOK` that every
  other file the job made is whole wherever it shows.
* `MoveOK` follows a copy from its bytes to its name. A recorded entry's copy is the
  job's and was flushed, and while its source shows no change, and the two are equal,
  that content stood whole (`Backed`); the name of every recorded copy is on the disk or
  in a directory that is still to be flushed, unless the job spoiled its report
  (`FiledOK`); so when the second pass begins all of them are (`DoneOK`), and what is
  about to be unlinked was compared and still has that content (`LookOK`).

`JobLosesNothing` then goes through the steps that take a name away. What a rename over a
name takes away is what the policy said to overwrite, and what takes its place is whole by
`WriteOK`; what an unlink takes away is recorded, and saved by `MoveOK`; every other step
takes only what the job made. The others may do anything between any two steps, which is
why each conjunct says what holds of a node whatever was done to it: a change shows in its
stamp, and what the others write is never what was there before (`FreshOK`).

`QuietEndsMeanWhole` needs to know, at every step of an undisturbed job (`Calm`), where
every entry of the selected trees is. The parts of `QuietOK`:

* `SourceOK` and `RootOK`: the selected entries keep their kinds and are none of the job's
  own; an entry at work keeps the name of its root, and a removal begins in `Top`.
* `TreesOK`: an entry stands where it stood or was reproduced (`StandsOK`), with a
  directory everything in it was (`FamilyOK`), and no directory that still holds
  selected entries is one the job writes over (`OutsideOK`). So a merge or an overwrite
  takes nothing from a tree that is still to be read. What was passed over or kept was
  complained of (`SilentOK`).
* `MovedOK`, for a move: each root is to come, at work, or gone, and while it is removed
  its entry is still listed or its directory still open. `RemoveDir` takes only an empty
  directory, so with a root that is gone so is everything below it.
* `CopiedOK`, for a copy: each root is to come, at work, or reproduced, and so is each
  entry of a directory that was read, or it is still on a frame's list; what has been
  written of a file is what the file holds, and nobody wrote to it meanwhile.
* `WayOK` and `Spared`: when the destination lies in the selected trees, the directories
  above it stay where they are, because the kernel refuses to rename a directory into
  itself and none of them is empty; so the root it lies under is refused with a
  complaint, and a job that said nothing has not come to its end.

From the roots the result goes down to every entry by climbing the other way: a selected
entry for which it failed would stand below another one, and so on up to `Top`
(`SourceInduction`), which is no selected entry. This takes no induction over data,
because the climb is the one `Ancestors` makes, in as many steps.

`TrashProofs` proves `OnlyProvedDirectories` (`RootTouchesOnlyWhatItProved`), for any
number of publishers, directories of others and moves. The invariant `RootInv` adds
why. A descriptor that reaches the fchmod is of a fresh directory, wherever that was
renamed (`Descriptors`), so a directory that was there before keeps its mode for ever
and stays what `provenance` saw (`ProvedStays`). What stood under a publisher's name
when it was looked at again stands there at the removal, unless others moved it:
no other publisher works on that name (`StandsProved`, `OthersStand`; `Rounds` says
that each works on one of its own). `RootAssumption` says that there is a publisher
and that it may try once.

It also proves about the entries, in `Trash`, for any number of entries, items,
folders and jobs, any number of failing calls, swaps and crashes:

| theorem | property |
|---|---|
| `BinInvariant` | the inductive invariant `BinInv` |
| `ItemsStayRestorable` | `RestorableUntilEmptied` |
| `SizesStayTrue` | `SizeSpeaksOfItsItem` |

`BinAssumption` says that folders are items and that the marks for no item, no
sidecar and no size are none of them. That an item keeps its sidecar rests on which job
works on its entry and how far it has come: `JobsFit` says at each step of a delete, a
restore and an emptying what its entry holds; `OneEach` and `OneDelete` that an entry
holds one item and belongs to one delete; `Flushed` that a power cut takes no sidecar
back; `SizesShape` and `ReducedShape` that a size, once a delete has settled, is its own
item's or was given up before the item was touched. An entry where a delete and an
emptying crossed (section 6) is excepted in each conjunct by the history variable
`crossed`, as it is in the properties.

`RequestsProofs`, over `SignInProofs`, proves about `Requests` with `SignIn`, `AuditLog`
and `Guard`, for any number of requests and sessions on every mutating route, every
scene, every size of the log's queues, and a disk that hangs and fails at any step:

| theorem | property |
|---|---|
| `UnsafeRequestsSignInAfresh` | `FreshSignIn` |
| `TheLogKeepsItsWord` | `LogKeepsItsWord` |
| `TheTrailIsWhole` | `TrailIsWhole` |
| `TheGuardMatchesItsFile` | `GuardMatchesFile` |
| `TheSwitchBinds` | `ReadOnlyBinds` |
| `ConsentIsGiven` | `ConsentHolds` |

A batch has the two items of the model there too. The assumptions say what the scenes
and the constants are: `SceneAssumption` (a scene names a handler for each request, of
which those with a safe method have none that changes anything; a token shown is one a
request was handed), `LineAssumption` (every unsafe request may write to the log),
`RequestAssumption`, `SignInAssumption`, `LogAssumption` and `GuardAssumption` (`None`
is no request, sizes are positive, the lifetime of a token is a natural number).

The invariant has five parts, each inductive with those before it:

* `SignInv`: which answer a request's word is and what it knew of, who leads the flight,
  and which session it may keep alive. A cached answer, or one in flight, that an unsafe
  request may still take was asked for after it had come, or is stray.
* `LogInv`: a line handed in goes one way, the queue's or a worker's (`LineShape`); what
  a waiting caller may be told follows from how far its line has come (`CallShape`); the
  drain and the workers are gone before the log is closed (`CloseShape`).
* `TrailInv`: `Plan` says what the steps ahead of a request look like at any time (an
  item's steps follow one another in the order of `Rank`, what is recorded has its answer
  ahead, the settings go one way under their lock) and `Fit` how these agree with the
  lines handed in, the intents acknowledged and the work done. That each route's sequence
  of steps is such a plan is proved from `dispatch`, route by route (`Handlers`); a step
  of a handler takes the first step off, or puts another in front of what is left.
* `LockShape` and `BoundShape`: who holds the settings lock stands under it, and between
  a save and its `apply` alone may switch and file differ; what read-only mode stops
  still has a check before it.
* `ConsentInv`: what was spent is remembered until it has expired (`SpentShape`); a
  request without a confirmation ahead of its work has paid for what it was told, if it
  had to be asked at all (`Agrees`); and who is to destroy an ACL was told so
  (`Warned`).

`ConsentIsGiven` and `TheSwitchBinds` rest on the order of the steps in a handler: a
confirmation before the work, and a check before the work, for every route at once.

Only model-checked: the liveness properties (`CloseEndsEveryJob`, `EveryJobEnds`,
`SlotsComeBack`, `ShutdownCompletes`, `CallsEnd`, `CopyEnds`, `RequestsEnd`), which are
out of the prover's reach; every other property of a passing run is stated by a theorem.
The exact bounds of the door's type invariant are not stated by one: the gate's list is
filtered by a recursive library operator, and what the proofs need of the types is in
`Shapes` and `DoorShapes`. No run carries that invariant (it holds on the instance of run
`door` when named in its configuration).

## 6. Where code and comment disagree

`CancelJob` (`internal/workerpool/job.go:367`) says that without a live worker
there is nothing to cancel, since the job cannot have survived its worker. It
looks only at the user's current worker. After a change of the user's groups the
old worker leaves that table and finishes the calls it accepted; a job on it is
running while `CancelJob` reports success. Run `pool_cancel` shows it. Jobs
cancelled through the job manager do stop: it ends the job's context and
`cancelAndDrain` talks to the worker the job is on.

`TrashEmpty` (`internal/fsops/trash.go:1517`) says of its order that an entry can no
longer be "still on disk, still holding the user's data, and no longer listable or
restorable". Jobs of one user run side by side. An emptying that meets an entry
between the sidecar and the rename of a delete finds no payload, takes the sidecar
(1714), and the rename then moves the item in: the delete reports success, and the
item stands in an entry that is listed by nobody and destroyed by the next emptying.
Run `trash_race` shows it; `RestorableUntilEmptied` says that it is the only way.

Observations that are no disagreement:

* The select of a plain call may prefer the death of the worker to a reply that was
  already delivered, so a mutation that succeeded may be reported as lost. Only jobs
  look first, as their comment promises.
* A restore may move a folder out of the trash while an emptying holds its
  descriptor; the emptying then goes on inside the restored folder.
* The result line of a settings change may reach the disk after its caller's wait has
  timed out and the change was undone. The handler concedes that the narrative may lag
  the live state; the intent is always there.
* A verification asked for in the name of a session that was removed meanwhile may
  still be in flight when the next session's unsafe request comes, and be joined by
  it, so that this one request rests on an answer older than itself.
* A token may pay for two requests when it expires between being verified and being
  spent by the second, because the sweep has then forgotten it.

## 7. Plan

The order was by what a mistake would cost. Done: job manager, pool, calls and
worker, the gate and the door's sessions, copy and move, the trash, and the mutating
routes with guard, audit log and sign-in; the proofs of manager, pool, calls, gate,
door, copy and move, trash and routes. Left:

1. The rest of the door: arming and disarming the listener, the late bind and its
   watcher, the local addresses (`bgLocalAddrs`) with their refreshes, the throttle
   of refusals.
2. Uploads and archives inside the worker (`internal/worker/{upload,archive}.go`,
   `internal/fsops/{upload,archive}.go`): handles, publication, the outcome of an
   archive.
3. Delete, chmod, size and search trees (`internal/fsops/{walk,delete_tree,mode_job}.go`)
   over `FileTree`.
4. Durable files and the configuration's cross-process lock (`internal/jsonfile`,
   `durable`, `config`); start and stop of the daemon; the identity map's snapshot.
5. Pure algorithms as functions against reference definitions: `internal/perm`,
   canonical paths, conflict names.

Not modelled, and staying so: certificate generation and password hashing
(cryptography), parsing of `/proc` and of command output, the browser front end,
packaging, the Windows and test-only variants, the kernel's own path
resolution behind `internal/fsx`, which is taken as given, and of the web server the
routes that only read (browse, search, archive, bulk reads and their limiters), the
counts of failed sign-ins, of admission slots and of sessions, more credentials than
one, and of the log `Hold`, tail and export.
