---------------------------- MODULE DoorSession ----------------------------
(***************************************************************************)
(* The emergency door itself (internal/web/breakglass.go): its login       *)
(* handler around the gate, the credential it reads again for every        *)
(* request, the sessions it issues, and the command line that changes the  *)
(* password in the configuration file behind its back.                     *)
(*                                                                         *)
(* A login reads the credential inside its turn and issues its session     *)
(* after the turn; a request reads the credential before it takes d.mu.    *)
(* The password may change between any two of these.  Where a request      *)
(* comes from, as seen by the address checks, is an input of each step     *)
(* that asks.  The full branch of issue cannot be taken: the list and the  *)
(* map of sessions, one set here, hold the same sessions.                  *)
(***************************************************************************)
EXTENDS BreakGlassGate

CONSTANTS
    Password, NoHash,
    Request,                  \* requests with a cookie in progress at once
    Session,                  \* session identifiers; one is not used again
                              \* while it is live or presented
    MaxSessions, Idle, Lifetime,
    MaxWrites                 \* bound: writes of the configuration file

ASSUME DoorAssumption == {MaxSessions, Idle, Lifetime} \subseteq Nat \ {0}

VARIABLES
    file,       \* auth.local in the configuration file, and the file's mtime
    cred,       \* localCred: the credential last loaded
    offered,    \* the password of an attempt
    read,       \* the credential its turn was judged by
    sessions,   \* d.sessions, each with those before it in d.order
    req         \* the requests and what they have read

door == <<file, cred, offered, read, sessions, req>>
vars == <<gateVars, door>>

Local    == [hash : Password \cup {NoHash}, updated : 0 .. MaxWrites]
Answer   == [ok : BOOLEAN, local : Local]       \* what localCred.get returns
NoAnswer == [ok |-> FALSE, local |-> [hash |-> NoHash, updated |-> 0]]
Idling   == [state |-> "idle", kind |-> "page", id |-> Nobody, peer |-> Nobody,
             live |-> NoAnswer]

Ids(q)    == {x.id : x \in q}
LiveIds   == Ids(sessions)
Shown     == {req[r].id : r \in Request}

TypeOK ==
    /\ GateTypeOK
    /\ file \in [local : Local, mod : 0 .. MaxWrites]
    /\ cred \in [have : BOOLEAN, local : Local, mod : 0 .. MaxWrites]
    /\ offered \in [Attempt -> Password \cup {NoHash}]
    /\ read \in [Attempt -> Answer]
    /\ sessions \subseteq [id : Session, peer : Source, updated : 0 .. MaxWrites,
                           life : 0 .. Lifetime, idle : 0 .. Idle, by : Password,
                           before : SUBSET Session]
    /\ Cardinality(sessions) <= MaxSessions
    /\ \A x, y \in sessions : x # y =>
          /\ x.id # y.id
          /\ x.id \in y.before <=> y.id \notin x.before
    /\ req \in [Request -> [state : {"idle", "read", "served"}, kind : {"page", "logout"},
                            id : Session \cup {Nobody}, peer : Source \cup {Nobody},
                            live : Answer]]

Init ==
    /\ GateInit
    /\ \E p \in Password : file = [local |-> [hash |-> p, updated |-> 0], mod |-> 0]
    /\ cred \in {[have |-> TRUE, local |-> file.local, mod |-> 0],
                 [have |-> FALSE, local |-> NoAnswer.local, mod |-> 0]}
    /\ offered = [a \in Attempt |-> NoHash]
    /\ read = [a \in Attempt |-> NoAnswer]
    /\ sessions = {}
    /\ req = [r \in Request |-> Idling]

-----------------------------------------------------------------------------
(* The credential.                                                         *)

\* load, under c.mu: the cached credential while mtime and size are those it
\* was read at.  A stat or a load that fails keeps what was known.
Cached == cred.have /\ cred.mod = file.mod
Current == IF Cached THEN cred.local ELSE file.local
Answers == {[ok |-> TRUE,  local |-> Current],
            [ok |-> FALSE, local |-> [hash |-> NoHash, updated |-> cred.local.updated]]}
Get(answer) == cred' = IF answer.ok
                       THEN [have |-> TRUE, local |-> Current, mod |-> file.mod]
                       ELSE cred

\* break-glass set-password and disable, and any other key's writer.
Rewrite(local) ==
    /\ file.mod < MaxWrites                                          \* bound
    /\ file' = [local |-> local, mod |-> file.mod + 1]
    /\ UNCHANGED <<gateVars, cred, offered, read, sessions, req>>
SetPassword(p) == Rewrite([hash |-> p, updated |-> file.mod + 1])
Disable        == Rewrite([hash |-> NoHash, updated |-> file.mod + 1])
OtherKey       == Rewrite(file.local)

-----------------------------------------------------------------------------
(* The login handler.                                                      *)

Login(a, s, lag, p) ==
    /\ Arrive(a, s, lag)
    /\ offered' = IF Allowed(s, lag) THEN [offered EXCEPT ![a] = p] ELSE offered
    /\ UNCHANGED <<file, cred, read, sessions, req>>

\* A bad origin or body, a peer that cannot be placed, no slot left.
Refuse(a) ==
    /\ TurnedAway(a)
    /\ offered' = [offered EXCEPT ![a] = NoHash]
    /\ UNCHANGED <<file, cred, read, sessions, req>>
Enter(a)  == Admit(a) /\ UNCHANGED door
GivesUp(a) == QueueExpires(a) /\ UNCHANGED door
LockedOut(a) == TurnLocked(a) /\ UNCHANGED door

\* The turn's first act is to read the credential; nothing else of the door
\* runs between the two.
Judge(a) ==
    /\ TurnBegins(a)
    /\ \E answer \in Answers :
          /\ Get(answer)
          /\ read' = [read EXCEPT ![a] = answer]
    /\ UNCHANGED <<file, offered, sessions, req>>

Outcome(a) == IF ~ read[a].ok \/ read[a].local.hash = NoHash THEN "neutral"
              ELSE IF read[a].local.hash = offered[a] THEN "succeeded"
              ELSE "failed"
Verified(a) == TurnEnds(a, Outcome(a)) /\ UNCHANGED door

\* What the handler held goes with it.
Forget(a) == /\ read' = [read EXCEPT ![a] = NoAnswer]
             /\ offered' = [offered EXCEPT ![a] = NoHash]

\* Every answer but a session, a success whose peer is by now this machine's
\* own address or cannot be placed among them.
Return(a) ==
    /\ Release(a)
    /\ Forget(a)
    /\ UNCHANGED <<file, cred, sessions, req>>

\* What is left of the sessions q when some go.
Without(q, ids) == {[x EXCEPT !.before = @ \ ids] : x \in {y \in q : y.id \notin ids}}

\* issue: the expired go first, then the oldest while the store is full.
Expired(x) == x.life = 0 \/ x.idle = 0
Unexpired  == Without(sessions, Ids({x \in sessions : Expired(x)}))
Oldest(q)  == {x \in q : Cardinality({y \in q : x.id \in y.before}) >= MaxSessions - 1}
Roomy      == Without(Unexpired, Ids(Oldest(Unexpired)))
Opens(a, updated) ==
    \E id \in Session \ (LiveIds \cup Shown) :
        sessions' = Roomy \cup {[id |-> id, peer |-> from[a], updated |-> updated,
                                life |-> Lifetime, idle |-> Idle, by |-> offered[a],
                                before |-> Ids(Roomy)]}
Issue_ReadsAgain(a) ==
    /\ at[a] = "judged" /\ verdict[a] = "succeeded"
    /\ Opens(a, Current.updated)
    /\ Release(a)
    /\ Forget(a)
    /\ UNCHANGED <<file, cred, req>>
Issue(a) ==
    /\ at[a] = "judged" /\ verdict[a] = "succeeded"
    /\ Opens(a, read[a].local.updated)
    /\ Release(a)
    /\ Forget(a)
    /\ UNCHANGED <<file, cred, req>>

-----------------------------------------------------------------------------
(* Requests that carry a cookie.                                           *)

Remove(id) == sessions' = Without(sessions, {id})
Held(r)    == {x \in sessions : x.id = req[r].id}
Ends(r)    == req' = [req EXCEPT ![r] = Idling]

\* resolve reads the credential before it takes d.mu.
Ask(r, id, s) ==
    /\ req[r].state = "idle" /\ id \in LiveIds
    /\ \E answer \in Answers :
          /\ Get(answer)
          /\ req' = [req EXCEPT ![r] = [state |-> "read", kind |-> "page", id |-> id,
                                        peer |-> s, live |-> answer]]
    /\ UNCHANGED <<gateVars, file, offered, read, sessions>>

\* The session is gone, or pinned to another peer, or this peer cannot be
\* placed or is this machine: it is not the request's, and it survives.
NotYours(r) ==
    /\ req[r].state = "read"
    /\ Ends(r)
    /\ UNCHANGED <<gateVars, file, cred, offered, read, sessions>>

Pinned(r, x) == x.peer = req[r].peer
Moved(r, x)  == req[r].live.ok /\ x.updated # req[r].live.local.updated

Evicted(r) ==
    /\ req[r].state = "read" /\ req[r].kind = "page"
    /\ \E x \in Held(r) : Pinned(r, x) /\ (Expired(x) \/ Moved(r, x))
    /\ Remove(req[r].id)
    /\ Ends(r)
    /\ UNCHANGED <<gateVars, file, cred, offered, read>>

Served(r) ==
    /\ req[r].state = "read" /\ req[r].kind = "page"
    /\ \E x \in Held(r) :
          /\ Pinned(r, x)
          /\ ~ Expired(x) /\ ~ Moved(r, x)
          /\ sessions' = (sessions \ {x}) \cup {[x EXCEPT !.idle = Idle]}
    /\ req' = [req EXCEPT ![r].state = "served"]
    /\ UNCHANGED <<gateVars, file, cred, offered, read>>

\* The route the request was for; the shared logout destroys the session.
Page(r) ==
    /\ req[r].state = "served"
    /\ Ends(r)
    /\ UNCHANGED <<gateVars, file, cred, offered, read, sessions>>
Destroy(r) ==
    /\ req[r].state = "served"
    /\ Remove(req[r].id)
    /\ Ends(r)
    /\ UNCHANGED <<gateVars, file, cred, offered, read>>

\* The door's own logout charges the bucket and reads no credential.
AskLogout(r, id, s, lag) ==
    /\ req[r].state = "idle" /\ id \in LiveIds
    /\ ChargeOnly(s, lag)
    /\ req' = IF Allowed(s, lag)
              THEN [req EXCEPT ![r] = [state |-> "read", kind |-> "logout", id |-> id,
                                       peer |-> s, live |-> NoAnswer]]
              ELSE req
    /\ UNCHANGED <<file, cred, offered, read, sessions>>
Logout(r) ==
    /\ req[r].state = "read" /\ req[r].kind = "logout"
    /\ \E x \in Held(r) : Pinned(r, x)
    /\ Remove(req[r].id)
    /\ Ends(r)
    /\ UNCHANGED <<gateVars, file, cred, offered, read>>

Tick ==
    /\ GateTick
    /\ sessions' = {[x EXCEPT !.life = IF @ > 0 THEN @ - 1 ELSE 0,
                             !.idle = IF @ > 0 THEN @ - 1 ELSE 0] : x \in sessions}
    /\ UNCHANGED <<file, cred, offered, read, req>>

Attempts == \E a \in Attempt :
    \/ \E s \in Source, lag \in 0 .. ClockLag, p \in Password : Login(a, s, lag, p)
    \/ Refuse(a) \/ Enter(a) \/ GivesUp(a) \/ LockedOut(a)
    \/ Judge(a) \/ Verified(a) \/ Return(a) \/ Issue(a)
Requests == \E r \in Request :
    \/ \E id \in Session, s \in Source : Ask(r, id, s)
    \/ \E id \in Session, s \in Source, lag \in 0 .. ClockLag : AskLogout(r, id, s, lag)
    \/ NotYours(r) \/ Evicted(r) \/ Served(r) \/ Page(r) \/ Destroy(r) \/ Logout(r)
Commands == Disable \/ OtherKey \/ \E p \in Password : SetPassword(p)

Next == Attempts \/ Requests \/ Commands \/ Tick
Spec == Init /\ [][Next]_vars

-----------------------------------------------------------------------------
(* Properties.                                                             *)

(* No session outlives its password.  A request that could read the        *)
(* credential is served by a session only if that session was opened with  *)
(* the password in force when the request read it, whatever changed while  *)
(* its login was queued, verifying or issuing.                             *)
NoSessionOutlivesItsPassword ==
    [][\A r \in Request : \A x \in sessions :
          (/\ req[r].state = "read" /\ req'[r].state = "served"
           /\ x.id = req[r].id /\ req[r].live.ok)
             => x.by = req[r].live.local.hash]_vars
=============================================================================
