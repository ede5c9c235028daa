------------------------------ MODULE Requests -----------------------------
(***************************************************************************)
(* The routes that change something (internal/web routes_*.go): the common *)
(* spine of check, confirmation, durable intent, work and result, the      *)
(* jobs that wait in a queue in between, and the read-only switch itself.  *)
(*                                                                         *)
(* A handler is the sequence of its steps; an item of a batch has its own. *)
(* What it asks of the rest of the system is the rest of the system:       *)
(* AuditLog, Guard and SignIn.                                             *)
(***************************************************************************)
EXTENDS Guard, AuditLog, SignIn

CONSTANTS
    Scenes,     \* the requests to try, and the bounds on what else happens
    MaxUploads  \* maxUploadsTotal

VARIABLES
    scene,      \* which of them
    left,       \* the bounds not used up yet
    at,         \* of a request: the steps ahead of it
    mem,        \* what it remembers
    cfgMu, prev, \* whose the settings lock is, and the switch as it found it
    stored,     \* the switch in the configuration file
    blind,      \* the file could not be read back
    acl, aclmode, \* of the item a chmod is about, and of the dataset it is on
    handed, twice, \* history: the lines handed to the log; those handed in again
    recorded,   \* history: the intents the log acknowledged
    ran,        \* history: the items whose work began
    bound,      \* history: those that read-only mode must stop
    wiped       \* history: the requests whose chmod met an ACL it destroys

webVars == <<scene, left, at, mem, cfgMu, prev, stored, blind, acl, aclmode,
             handed, twice, recorded, ran, bound, wiped>>
vars == <<guardVars, logVars, signVars, webVars>>

Blank == [parts |-> None, asks |-> FALSE, cost |-> "unmeasured", big |-> FALSE,
          paid |-> None, late |-> FALSE, expect |-> "anything", mode |-> "unread", was |-> "unread"]

-----------------------------------------------------------------------------
(* The handlers.                                                           *)

Steps(names) == [i \in DOMAIN names |-> <<names[i], 1>>]
Sync == Steps(<<"look", "confirm", "record", "call", "result">>)
Queued == Steps(<<"submit", "start", "run", "result">>)
Job(checks) == Steps(checks) \o Queued

\* What sets one handler apart: its steps, the result worth a milestone, whether
\* what lies beneath counts, and whether it asks even where the guard does not.
Handler(steps, asks, big, deep) == [steps |-> steps, asks |-> asks, big |-> big, deep |-> deep]

mkdir == Handler(Sync, {FALSE}, {FALSE}, FALSE)
rename == Handler(Sync, {FALSE}, {FALSE}, FALSE)
deleteSingle == Handler(Sync, {TRUE}, BOOLEAN, FALSE)

Item(n) == <<<<"each", n>>, <<"entry", n>>, <<"call", n>>, <<"note", n>>>>
deleteBatch == Handler(<<<<"seal", 0>>, <<"confirm", 0>>>> \o Item(1) \o Item(2) \o <<<<"sum", 0>>>>,
                       {TRUE}, BOOLEAN, FALSE)

chmod == Handler(Sync, {FALSE}, BOOLEAN, FALSE)
chown == Handler(Sync, {TRUE}, {TRUE}, FALSE)
\* An overwriting upload always asks.
upload == Handler(Steps(<<"slot", "look", "confirm", "bind", "record", "open", "body", "land", "result">>),
                  BOOLEAN, {FALSE}, TRUE)

jobDelete(permanent) ==
    Handler(Job(<<"look", "confirm">> \o (IF permanent THEN <<>> ELSE <<"root">>) \o <<"record">>),
            {TRUE}, IF permanent THEN {TRUE} ELSE BOOLEAN, FALSE)
\* The measured size, the overwriting policy and a second file system all ask.
jobTransfer == Handler(Job(<<"look", "confirm", "record">>), BOOLEAN, BOOLEAN, TRUE)
jobChmod == Handler(Job(<<"look", "confirm", "record">>), {FALSE}, BOOLEAN, TRUE)
jobChown == Handler(Job(<<"look", "confirm", "record">>), {TRUE}, {TRUE}, TRUE)
trashRestore == Handler(Job(<<"seal", "clear", "record">>), {FALSE}, {FALSE}, FALSE)
trashEmpty == Handler(Job(<<"seal", "confirm", "record">>), {TRUE}, {TRUE}, FALSE)
postSettings == Handler(Steps(<<"lock", "intent", "save", "apply", "report">>), {FALSE}, {TRUE}, FALSE)

dispatch == [mkdir |-> mkdir, rename |-> rename, delete |-> deleteSingle, batch |-> deleteBatch,
             chmod |-> chmod, chown |-> chown, upload |-> upload,
             jobDelete |-> jobDelete(TRUE), jobTrash |-> jobDelete(FALSE), jobTransfer |-> jobTransfer,
             jobChmod |-> jobChmod, jobChown |-> jobChown,
             restore |-> trashRestore, empty |-> trashEmpty, settings |-> postSettings,
             plain |-> Handler(<<>>, {FALSE}, {FALSE}, FALSE)]

\* Requests with a safe method change nothing; the log takes every other's lines.
ASSUME SceneAssumption == \A s \in Scenes :
    /\ s.handler \in [Request -> DOMAIN dispatch \cup {"none"}]
    /\ \A r \in Safe : s.handler[r] \in {"none", "plain"}
    /\ s.shows \in [Request -> Request \cup {None}] /\ s.want \in [Request -> BOOLEAN]
    /\ s.acl \subseteq {"trivial", "acl"} /\ s.aclmode \subseteq {"keeps", "discards"}
ASSUME LineAssumption ==
    /\ Request \subseteq Caller
    /\ (Request \ Safe) \X (0 .. 2) \X {"intent", "result", "denied"} \subseteq Line

What(r) == scene.handler[r]
Of(r) == dispatch[What(r)]
Uses == {r \in Request : What(r) # "none"}
Rests(r) == sign[r] \in {"served", "refused"} /\ at[r] = <<>>

-----------------------------------------------------------------------------
(* Steps, and what they share.                                             *)

At(r, step) == at[r] # <<>> /\ Head(at[r])[1] = step
N(r) == Head(at[r])[2]
Goes(r, steps) == at' = [at EXCEPT ![r] = steps]
Onward(r) == Goes(r, Tail(at[r]))
Over(r) == Goes(r, <<>>)
Turns(r, step) == Goes(r, <<<<step, N(r)>>>>)
Learns(r, field, value) == mem' = [mem EXCEPT ![r] = [@ EXCEPT ![field] = value]]

history == <<handed, twice, recorded, ran, bound, wiped>>
config == <<cfgMu, prev, stored, blind>>
world == <<scene, left, acl, aclmode>>

Hands(l) == handed' = handed \cup {l} /\ twice' = twice \cup ({l} \cap handed)

\* writeAudit: a line of the durable kind, and of the other.
Asks(r, phase) ==
    /\ WriteSync(r, <<r, N(r), phase>>) /\ Hands(<<r, N(r), phase>>)
    /\ UNCHANGED <<guardVars, signVars, world, config, at, mem, recorded, ran, bound, wiped>>
Told(r) == call[r].st = "back" /\ Returns(r)
Writes(r, phase) == Write(<<r, N(r), phase>>) /\ Hands(<<r, N(r), phase>>)

\* The sink is slow only in the scenes about it; elsewhere it is done with
\* everything before anybody moves.
Settled == scene.slow \/ (Held = {} /\ ch = <<>> /\ drain # "mirror" /\ mirrorq = 0 /\
                          \A r \in Request : call[r].st \notin {"admit", "wait"})

Spend(what) == left[what] > 0 /\ left' = [left EXCEPT ![what] = @ - 1]

-----------------------------------------------------------------------------
(* Arriving.                                                               *)

\* A client shows a token only once it has been handed one.
Arrives(r) ==
    /\ r \in Uses /\ sign[r] = "new"
    /\ scene.shows[r] # None => tokens[scene.shows[r]] # NoToken
    /\ IF r \in scene.signed THEN Lookup(r)
       ELSE To(r, "in") /\ UNCHANGED <<qts, cache, flight, leader, live, born, owner, sess, word>>
    /\ UNCHANGED <<guardVars, logVars, webVars>>

\* dispatch; a body that cannot be decoded is the end of it. An unsafe request
\* without a session is recorded as denied.
Dispatch(r) ==
    /\ \/ sign[r] = "in" /\ To(r, "served") /\ (Goes(r, Of(r).steps) \/ Over(r))
       \/ sign[r] = "outside" /\ To(r, "refused") /\ Goes(r, IF r \in Safe THEN <<>> ELSE <<<<"deny", 0>>>>)
    /\ Parts(r) /\ UNCHANGED <<qts, cache, flight, leader, live, born, owner>>
    /\ UNCHANGED <<guardVars, logVars, world, config, history, mem>>

-----------------------------------------------------------------------------
(* Looking.                                                                *)

Verdict(r) ==
    worstGuard({Check(scene.place[r].self)} \cup
               (IF Of(r).deep THEN {Contains(scene.place[r].below)} ELSE {}))

\* mountFacts and entryACLFacts: what is known of the dataset and of the entry.
\* Both sides must name the mode, or none is known (worstAclmode).
Modes == {aclmode, "unknown"}
States(h) == IF h = "chmod" THEN {acl, "unknown"} ELSE {"unknown"}

\* Mutant: an entry nobody could describe has nothing to lose.
aclVerdict_Hopeful(state, mode) == IF state \in {"trivial", "unknown"} THEN "none" ELSE mode

\* chmodACLNotice: what the ACL half has to say; nothing where there is none.
aclVerdict(state, mode) == IF state = "trivial" THEN "none" ELSE mode

Destroys == {"discards", "unknown"}

\* A token binds the operation, what it is about, and the ACL verdict.
tokenParts(r, verdict) == <<What(r), scene.about[r], verdict>>

\* The scan of a recursion; one measured for the challenge is taken again.
Scans(r, parts) ==
    IF What(r) \notin {"jobChmod", "jobChown"} THEN {"few"}
    ELSE LET known == IF scene.shows[r] = None THEN {} ELSE Peek(scene.shows[r], parts)
         IN IF known # {} THEN known ELSE {"few", "many"}

\* The facts a handler gathers, and whether they ask for a confirmation.
Gathers(r) ==
    \E asks \in Of(r).asks, big \in Of(r).big, mode \in Modes, state \in States(What(r)) :
        LET acls == What(r) \in {"chmod", "jobChmod"}
            verdict == IF acls THEN aclVerdict(state, mode) ELSE "none"
            parts == tokenParts(r, verdict) IN
        \E scan \in Scans(r, parts) :
            /\ ~acls => mode = aclmode /\ state = "unknown"
            /\ mem' = [mem EXCEPT ![r] =
                 [Blank EXCEPT !.parts = parts, !.big = big \/ verdict \in Destroys \/ scan = "many",
                               !.cost = IF What(r) = "empty" THEN "unmeasured" ELSE scan,
                               !.asks = \/ asks \/ verdict # "none" \/ scan = "many"
                                        \/ Verdict(r) = "confirm"
                                        \/ /\ What(r) \in {"chmod", "jobChmod", "jobTransfer"}
                                           /\ scene.shows[r] # None,
                               !.expect = IF state = "unknown" \/ What(r) # "chmod" THEN "anything" ELSE state,
                               !.mode = mode, !.was = aclmode]]

\* Nothing is recorded of a request that is malformed or does not resolve.
Look(r) ==
    /\ At(r, "look")
    /\ \/ Over(r) /\ UNCHANGED mem
       \/ guardRefuses(Verdict(r)) /\ Turns(r, "deny") /\ UNCHANGED mem
       \/ ~guardRefuses(Verdict(r)) /\ Gathers(r) /\ Onward(r)
    /\ UNCHANGED <<guardVars, logVars, signVars, world, config, history>>

\* The switch alone, for what has no place, or many.
Seal(r) ==
    /\ At(r, "seal")
    /\ \/ Over(r) /\ UNCHANGED mem
       \/ readOnly /\ Turns(r, "deny") /\ UNCHANGED mem
       \/ ~readOnly /\ Onward(r)
          /\ \E big \in Of(r).big :
                mem' = [mem EXCEPT ![r] = [Blank EXCEPT !.parts = tokenParts(r, "none"), !.asks = TRUE,
                          !.cost = IF What(r) = "empty" THEN "unmeasured" ELSE "few", !.big = big]]
    /\ UNCHANGED <<guardVars, logVars, signVars, world, config, history>>

\* Where an item came from; any verdict refuses it.
Clear(r) ==
    /\ At(r, "clear")
    /\ IF Check(scene.place[r].self) # "ok" THEN Turns(r, "deny") ELSE Onward(r) \/ Over(r)
    /\ UNCHANGED <<guardVars, logVars, signVars, world, config, history, mem>>

\* authorizeGraded refuses, durably.
Deny(r) ==
    /\ At(r, "deny")
    /\ \/ Asks(r, "denied")
       \/ /\ Told(r) /\ Over(r)
          /\ UNCHANGED <<guardVars, signVars, world, config, history, mem>>

-----------------------------------------------------------------------------
(* Confirming.                                                             *)

Confirm(r) ==
    LET t == scene.shows[r]  m == mem[r] IN
    /\ At(r, "confirm")
    /\ \/ ~m.asks /\ Onward(r) /\ UNCHANGED <<guardVars, logVars, handed, twice>>
       \/ m.asks /\ t = None /\ Writes(r, "challenge") /\ Issue(r, m.parts, m.cost) /\ Over(r)
       \/ /\ m.asks /\ t # None /\ UNCHANGED <<guardVars, logVars, handed, twice>>
          /\ IF verifyToken(t, m.parts) THEN Goes(r, <<<<"spend", N(r)>>>> \o Tail(at[r]))
             ELSE Turns(r, "dismiss")
    /\ UNCHANGED <<signVars, world, config, mem, recorded, ran, bound, wiped>>

Spends(r) ==
    LET t == scene.shows[r] IN
    /\ At(r, "spend")
    /\ \/ /\ Redeem(t) /\ Onward(r)
          /\ mem' = [mem EXCEPT ![r] = [@ EXCEPT !.paid = t, !.late = Expired(t)]]
       \/ Spent(t) /\ Turns(r, "dismiss") /\ UNCHANGED mem
    /\ UNCHANGED <<logVars, signVars, world, config, history>>

\* Denied, and challenged again.
TurnsAway(r) ==
    /\ At(r, "dismiss")
    /\ \/ Asks(r, "denied")
       \/ /\ Told(r) /\ Over(r) /\ Issue(r, mem[r].parts, mem[r].cost)
          /\ UNCHANGED <<signVars, world, config, history, mem>>

-----------------------------------------------------------------------------
(* Recording, and the work itself.                                         *)

\* auditIntent: what is not known to be on disk is not done.
Record(r) ==
    /\ At(r, "record")
    /\ \/ Asks(r, "intent")
       \/ /\ Told(r)
          /\ IF call[r].ok THEN Onward(r) /\ recorded' = recorded \cup {<<r, N(r)>>}
             ELSE Over(r) /\ UNCHANGED recorded
          /\ UNCHANGED <<guardVars, signVars, world, config, mem, handed, twice, ran, bound, wiped>>

\* The worker changes something. A chmod that names the ACL it expects is
\* refused where there is another one.
Works(r) ==
    LET meets == What(r) \in {"chmod", "jobChmod"} IN
    /\ mem[r].expect \in {"anything", acl}
    /\ ran' = ran \cup {<<r, N(r)>>}
    /\ wiped' = IF meets /\ acl = "acl" /\ mem[r].was = "discards" THEN wiped \cup {r} ELSE wiped
    /\ acl' = IF meets /\ aclmode = "discards" THEN "trivial" ELSE acl

NotDone == UNCHANGED <<ran, wiped, acl>>

\* A synchronous operation, or a job's: it may also fail before it begins.
Call(r) ==
    /\ At(r, "call") \/ At(r, "run")
    /\ Onward(r) /\ (Works(r) \/ NotDone)
    /\ UNCHANGED <<guardVars, logVars, signVars, config, scene, left, aclmode, mem, handed, twice,
                   recorded, bound>>

\* finish, and auditJobFinish: durable for a milestone, which the counts of a
\* finished job may make of it.
Counted(r) == <<"submit", 1>> \in {Of(r).steps[i] : i \in DOMAIN Of(r).steps}
Result(r) ==
    /\ At(r, "result")
    /\ \/ (mem[r].big \/ Counted(r)) /\ Asks(r, "result")
       \/ /\ ~mem[r].big /\ call[r].st = "idle" /\ Writes(r, "result") /\ Over(r)
          /\ UNCHANGED <<guardVars, signVars, world, config, mem, recorded, ran, bound, wiped>>
       \/ /\ Told(r) /\ Over(r)
          /\ UNCHANGED <<guardVars, signVars, world, config, history, mem>>

-----------------------------------------------------------------------------
(* The items of a batch.                                                   *)

Rest(r, k) == SubSeq(at[r], k, Len(at[r]))
Sums == <<<<"sum", 0>>>>

Each(r) ==
    /\ At(r, "each")
    /\ \/ Goes(r, Sums)                                     \* no time left
       \/ Goes(r, <<<<"strike", N(r)>>>> \o Rest(r, 5))     \* unresolved, or
       \/ ~guardRefuses(Check(scene.place[r].self)) /\ Onward(r)
    /\ UNCHANGED <<guardVars, logVars, signVars, world, config, history, mem>>

Strike(r) ==
    /\ At(r, "strike")
    /\ \/ Asks(r, "denied")
       \/ Told(r) /\ Onward(r) /\ UNCHANGED <<guardVars, signVars, world, config, history, mem>>

\* Mutant: an item without a record is skipped after it was deleted.
Entry_Late(r) ==
    /\ At(r, "entry")
    /\ \/ Asks(r, "intent")
       \/ /\ Told(r) /\ Onward(r) /\ recorded' = recorded \cup {<<r, N(r)>>}
          /\ UNCHANGED <<guardVars, signVars, world, config, mem, handed, twice, ran, bound, wiped>>

\* An item that cannot be recorded ends the batch.
Entry(r) ==
    /\ At(r, "entry")
    /\ \/ Asks(r, "intent")
       \/ /\ Told(r)
          /\ IF call[r].ok THEN Onward(r) /\ recorded' = recorded \cup {<<r, N(r)>>}
             ELSE Goes(r, Sums) /\ UNCHANGED recorded
          /\ UNCHANGED <<guardVars, signVars, world, config, mem, handed, twice, ran, bound, wiped>>

Note(r) ==
    /\ At(r, "note") /\ Writes(r, "result") /\ Onward(r)
    /\ UNCHANGED <<guardVars, signVars, world, config, mem, recorded, ran, bound, wiped>>

Sum(r) ==
    /\ At(r, "sum")
    /\ \/ mem[r].big /\ Asks(r, "result")
       \/ /\ Over(r) /\ (Told(r) \/ (~mem[r].big /\ UNCHANGED logVars))
          /\ UNCHANGED <<guardVars, signVars, world, config, history, mem>>

-----------------------------------------------------------------------------
(* Uploads.                                                                *)

Uploading == {q \in Request : What(q) = "upload" /\ at[q] # <<>> /\ ~At(q, "slot")}

Slot(r) ==
    /\ At(r, "slot")
    /\ \/ Cardinality(Uploading) < MaxUploads /\ Onward(r)
       \/ Cardinality(Uploading) >= MaxUploads /\ Over(r)
    /\ UNCHANGED <<guardVars, logVars, signVars, world, config, history, mem>>

\* The directory that was cleared is identified, and the body's file found.
Bind(r) ==
    /\ At(r, "bind") /\ (Onward(r) \/ Over(r))
    /\ UNCHANGED <<guardVars, logVars, signVars, world, config, history, mem>>

Open(r) ==
    /\ At(r, "open")
    /\ \/ Works(r) /\ Onward(r)
       \/ NotDone /\ Turns(r, "result")
    /\ UNCHANGED <<guardVars, logVars, signVars, config, scene, left, aclmode, mem, handed, twice,
                   recorded, bound>>

\* All of the body, or the temporary file is discarded.
Body(r) ==
    /\ At(r, "body") /\ (Onward(r) \/ Turns(r, "result"))
    /\ UNCHANGED <<guardVars, logVars, signVars, world, config, history, mem>>

Finalize(r) ==
    /\ At(r, "land") /\ Onward(r)
    /\ UNCHANGED <<guardVars, logVars, signVars, world, config, history, mem>>

-----------------------------------------------------------------------------
(* Jobs.                                                                   *)

\* ensureTrashRoots: one that had to be made is recorded, or nothing follows.
Root(r) ==
    /\ At(r, "root")
    /\ Onward(r) \/ Over(r) \/ Goes(r, <<<<"rooted", 0>>>> \o Tail(at[r]))
    /\ UNCHANGED <<guardVars, logVars, signVars, world, config, history, mem>>

Rooted(r) ==
    /\ At(r, "rooted")
    /\ \/ Asks(r, "result")
       \/ /\ Told(r) /\ (IF call[r].ok THEN Onward(r) ELSE Over(r))
          /\ UNCHANGED <<guardVars, signVars, world, config, history, mem>>

\* The request is encoded for the worker and the job submitted: the manager takes
\* it or refuses it. The encoding is of paths, numbers and flags, for which
\* json.Marshal has no error to return; its exit is left out.
Submit(r) ==
    /\ At(r, "submit") /\ (Onward(r) \/ Turns(r, "sorry"))
    /\ UNCHANGED <<guardVars, logVars, signVars, world, config, history, mem>>

\* Mutant: a job the queue refused is only answered.
Sorry_Silent(r) ==
    /\ At(r, "sorry") /\ Over(r)
    /\ UNCHANGED <<guardVars, logVars, signVars, world, config, history, mem>>

\* failJobSubmit: the intent is on disk already.
Sorry(r) ==
    /\ At(r, "sorry") /\ Writes(r, "result") /\ Over(r)
    /\ UNCHANGED <<guardVars, signVars, world, config, mem, recorded, ran, bound, wiped>>

\* recheckGuard: what the queue may have held a job through.
recheckGuard(r) == IF readOnly THEN "read_only" ELSE Verdict(r)

\* Mutant: a verdict that was paid for is good until the job runs.
recheckACLVerdict_Paid(r, mode) == TRUE

\* recheckACLVerdict: of the mode as it is now.
recheckACLVerdict(r, mode) ==
    What(r) = "jobChmod" => tokenParts(r, aclVerdict("unknown", mode)) = mem[r].parts

\* Mutant: the guard was asked when the job was submitted.
Start_Trusting(r) == At(r, "start") /\ Onward(r)
                     /\ UNCHANGED <<guardVars, logVars, signVars, world, config, history, mem>>

\* A job starts, or was cancelled in the queue.
Start(r) ==
    /\ At(r, "start")
    /\ \E mode \in IF What(r) = "jobChmod" THEN Modes ELSE {aclmode} :
        \/ Turns(r, "result") /\ UNCHANGED mem
        \/ /\ guardRefuses(recheckGuard(r)) \/ ~recheckACLVerdict(r, mode)
           /\ Turns(r, "result") /\ Learns(r, "big", TRUE)
        \/ /\ ~guardRefuses(recheckGuard(r)) /\ recheckACLVerdict(r, mode)
           /\ Onward(r) /\ Learns(r, "was", aclmode)
    /\ UNCHANGED <<guardVars, logVars, signVars, world, config, history>>

-----------------------------------------------------------------------------
(* The switch (postSettings), all of it under cfgMu.                       *)

\* Which work must still pass a check: of those steps, or of all of its own.
Checks == {"look", "each", "start"}
Ahead(r) == IF sign[r] \in {"served", "refused"} THEN at[r] ELSE Of(r).steps
Unchecked ==
    {x \in Uses \X (0 .. 2) :
        \E j \in DOMAIN Ahead(x[1]) : \E i \in 1 .. j - 1 :
            /\ Ahead(x[1])[j] \in {"call", "run", "open"} \X {x[2]}
            /\ Ahead(x[1])[i] \in Checks \X {x[2]}}

\* The live switch is set. Set to refuse, it binds whatever has not been checked;
\* set to allow, nothing.
Sets(v) == SetReadOnly(v) /\ bound' = IF v THEN bound \cup Unchecked ELSE {}

Locks(r) ==
    /\ At(r, "lock") /\ cfgMu = None
    /\ cfgMu' = r /\ prev' = readOnly /\ Onward(r)
    /\ UNCHANGED <<guardVars, logVars, signVars, world, stored, blind, history, mem>>

\* Mutant: a request that cannot be recorded returns with the lock.
Intends_Holds(r) ==
    /\ At(r, "intent")
    /\ \/ Asks(r, "intent")
       \/ /\ Told(r)
          /\ IF call[r].ok THEN Onward(r) /\ recorded' = recorded \cup {<<r, N(r)>>}
             ELSE Over(r) /\ UNCHANGED recorded
          /\ UNCHANGED <<guardVars, signVars, world, config, mem, handed, twice, ran, bound, wiped>>

Intends(r) ==
    /\ At(r, "intent")
    /\ \/ Asks(r, "intent")
       \/ /\ Told(r)
          /\ IF call[r].ok
             THEN Onward(r) /\ recorded' = recorded \cup {<<r, N(r)>>} /\ UNCHANGED cfgMu
             ELSE Over(r) /\ cfgMu' = None /\ UNCHANGED recorded
          /\ UNCHANGED <<guardVars, signVars, world, prev, stored, blind, mem, handed, twice, ran,
                         bound, wiped>>

\* Mutant: a save that failed changed nothing.
reconcileReadOnly_Trusting(want, saved) == Sets(want) /\ UNCHANGED blind

\* The guard follows the file as it is read back, or refuses everything.
reconcileReadOnly(want, saved) ==
    \/ saved /\ Sets(want) /\ blind' = FALSE
    \/ ~saved /\ Sets(stored') /\ blind' = FALSE
    \/ ~saved /\ Sets(TRUE) /\ blind' = TRUE

\* config.Update that fails: its rename may have happened all the same.
Fails(v) == Spend("saves") /\ stored' \in {stored, v}

\* The switch is not thrown before it is written down.
Saves(r) ==
    /\ At(r, "save")
    /\ \/ /\ stored' = scene.want[r] /\ Onward(r)
          /\ UNCHANGED <<guardVars, bound, blind, left>>
       \/ Fails(scene.want[r]) /\ reconcileReadOnly(prev, FALSE) /\ Turns(r, "failed")
    /\ UNCHANGED <<logVars, signVars, scene, acl, aclmode, cfgMu, prev, mem, handed, twice, recorded,
                   ran, wiped>>

\* Whether that could be recorded makes no difference.
Failed(r) ==
    /\ At(r, "failed")
    /\ \/ Asks(r, "result")
       \/ /\ Told(r) /\ Over(r) /\ cfgMu' = None
          /\ UNCHANGED <<guardVars, signVars, world, prev, stored, blind, history, mem>>

Applies(r) ==
    /\ At(r, "apply") /\ Sets(scene.want[r]) /\ Onward(r)
    /\ blind' = FALSE /\ ran' = ran \cup {<<r, N(r)>>}
    /\ UNCHANGED <<logVars, signVars, world, cfgMu, prev, stored, mem, handed, twice, recorded, wiped>>

Reports(r) ==
    /\ At(r, "report")
    /\ \/ Asks(r, "result")
       \/ /\ Told(r)
          /\ IF call[r].ok THEN Over(r) /\ cfgMu' = None ELSE Turns(r, "undo") /\ UNCHANGED cfgMu
          /\ UNCHANGED <<guardVars, signVars, world, prev, stored, blind, history, mem>>

\* Back to the switch as it was, unless that fails too.
Undoes(r) ==
    /\ At(r, "undo")
    /\ \/ stored' = prev /\ reconcileReadOnly(prev, TRUE) /\ UNCHANGED left
       \/ Fails(prev) /\ reconcileReadOnly(prev, FALSE)
    /\ Over(r) /\ cfgMu' = None
    /\ UNCHANGED <<logVars, signVars, scene, acl, aclmode, prev, mem, handed, twice, recorded, ran, wiped>>

-----------------------------------------------------------------------------
(* The whole.                                                              *)

Handles(r) ==
    \/ Look(r) \/ Seal(r) \/ Clear(r) \/ Deny(r) \/ Confirm(r) \/ Spends(r) \/ TurnsAway(r)
    \/ Record(r) \/ Call(r) \/ Result(r)
    \/ Each(r) \/ Strike(r) \/ Entry(r) \/ Note(r) \/ Sum(r)
    \/ Slot(r) \/ Bind(r) \/ Open(r) \/ Body(r) \/ Finalize(r)
    \/ Root(r) \/ Rooted(r) \/ Submit(r) \/ Sorry(r) \/ Start(r)
    \/ Locks(r) \/ Intends(r) \/ Saves(r) \/ Failed(r) \/ Applies(r) \/ Reports(r) \/ Undoes(r)

Elsewhere == UNCHANGED <<guardVars, logVars, webVars>>

Acts(r) ==
    /\ Settled
    /\ \/ Dispatch(r) \/ Handles(r)
       \/ Authenticates(r) /\ Elsewhere

\* What nobody here controls, each within its bound.
Happens ==
    /\ Settled
    /\ \/ /\ Spend("ticks") /\ Tick
          /\ UNCHANGED <<logVars, signVars, scene, acl, aclmode, config, at, mem, history>>
       \/ /\ Spend("moves") /\ acl' = "acl" /\ aclmode' \in {"keeps", "discards"} \ {aclmode}
          /\ UNCHANGED <<guardVars, logVars, signVars, scene, config, at, mem, history>>
       \/ /\ \/ Spend("signouts") /\ SignsOut
             \/ Spend("removals") /\ Removed
             \/ Spend("expiries") /\ CacheExpires
          /\ UNCHANGED <<guardVars, logVars, scene, acl, aclmode, config, at, mem, history>>
       \/ /\ Spend("closes") /\ CloseStarts
          /\ UNCHANGED <<guardVars, signVars, scene, acl, aclmode, config, at, mem, history>>

Logs == (LogWorks \/ (scene.slow /\ LogTimesOut)) /\ UNCHANGED <<guardVars, signVars, webVars>>

Init ==
    /\ scene \in Scenes /\ left = scene.left /\ faults = scene.faults
    /\ GuardInit /\ LogInit /\ SignInit /\ born \in scene.live
    /\ (scene.signed # {} => ~readOnly)
    /\ at = [r \in Request |-> <<>>] /\ mem = [r \in Request |-> Blank]
    /\ cfgMu = None /\ prev = FALSE /\ stored = readOnly /\ blind = FALSE
    /\ acl \in scene.acl /\ aclmode \in scene.aclmode
    /\ handed = {} /\ twice = {} /\ recorded = {} /\ ran = {} /\ wiped = {}
    /\ bound = IF readOnly THEN Unchecked ELSE {}

Next ==
    \/ \E r \in Request : (Settled /\ Arrives(r)) \/ Acts(r)
    \/ Answers /\ Settled /\ Elsewhere
    \/ Happens \/ Logs

Spec == Init /\ [][Next]_vars

\* What is sure to go on: the handlers, and the waits of the log, which end by the
\* clock; the sink itself only where the scene is not about a slow one. No request
\* and no wait can go on for ever, so it is enough that not all of them stop.
GoesOn ==
    \/ \E r \in Request : Acts(r)
    \/ Answers /\ Settled /\ Elsewhere
    \/ /\ IF scene.slow THEN Close \/ \E c \in Caller : Waits(c) ELSE LogWorks
       /\ UNCHANGED <<guardVars, signVars, webVars>>

FairSpec == Spec /\ WF_vars(GoesOn)

-----------------------------------------------------------------------------
(* Nothing a request asks for is done, not one item of a batch, not one job *)
(* however long it was queued, and not the throw of the switch, without an *)
(* intent that a power cut would leave in the audit file (auditIntent,     *)
(* postSettings); the directory ensureTrashRoots may have to make for a    *)
(* delete comes before its own line, which then comes before all the rest. *)
(* And for an intent that was recorded, a result has been handed to the    *)
(* log by the time its request or its job is over, whichever way that came *)
(* about, and no line is ever handed in twice (finish, auditJobFinish,     *)
(* failJobSubmit); what the log does with it is LogKeepsItsWord.           *)
NothingUnrecorded == \A x \in ran : <<x[1], x[2], "intent">> \in safe
EveryIntentHasItsResult ==
    /\ twice = {}
    /\ \A r \in Request : Rests(r) =>
        \A n \in 1 .. 2 : <<r, n>> \in recorded <=> <<r, n, "result">> \in handed
TrailIsWhole == NothingUnrecorded /\ EveryIntentHasItsResult

(* Once the switch is set to read-only, nothing runs whose check was still *)
(* ahead then, wherever it waited: in a batch, in the queue, or for its    *)
(* sign-in (Check, recheckGuard).                                          *)
ReadOnlyBinds == ran \cap bound = {}

(* The switch the guard obeys is the one in the file, whenever nobody is   *)
(* in the middle of changing it, and whatever failed; or the file could    *)
(* not be read and everything is refused (reconcileReadOnly).              *)
GuardMatchesFile == cfgMu = None => readOnly = stored \/ (readOnly /\ blind)

(* A token pays for one request: for a second, only after it had expired   *)
(* between being verified and being spent (Redeem). And an ACL is never    *)
(* destroyed but for a request that was told so and agreed, on the dataset *)
(* as it was when it or its job was last checked (aclVerdict,              *)
(* recheckACLVerdict, ExpectACLState).                                     *)
ConsentHolds ==
    /\ \A q, r \in Request :
        q # r /\ mem[q].paid = mem[r].paid /\ mem[q].paid # None => mem[q].late \/ mem[r].late
    /\ \A r \in wiped : mem[r].paid # None /\ tokens[mem[r].paid].parts[3] \in Destroys

(* However the disk and log_tool behave, whatever came is over at some     *)
(* time, with its job if it has one, and a Close that began returns: that  *)
(* nothing is left waiting happens again and again.                        *)
RequestsEnd ==
    []<>((\A r \in Request : sign[r] = "new" \/ Rests(r)) /\ log # "joining")
=============================================================================
