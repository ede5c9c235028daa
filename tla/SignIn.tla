------------------------------- MODULE SignIn ------------------------------
(***************************************************************************)
(* Signing in through QTS on the main listener (internal/web session.go,   *)
(* auth_limits.go; internal/qtsauth verifier.go), for one credential. The  *)
(* verifier keeps answers for a while and joins verifications in flight;   *)
(* an unsafe request must not be served on either. A session has a lock    *)
(* that a request holds while it validates it.                             *)
(***************************************************************************)
EXTENDS Naturals, WebRequest

CONSTANT MaxSessions    \* bound: sessions ever created

ASSUME SignInAssumption == MaxSessions \in Nat \ {0}

VARIABLES
    qts,        \* QTS still knows the credential
    cache,      \* the verifier's cached answer
    flight,     \* its verification in flight
    leader,     \* who creates a session for the credential (credentialFlight)
    live, born, \* the live session of the credential, 0 for none; how many there were
    owner,      \* whose a session's lock is
    sign,       \* of a request: where its authentication is
    sess,       \* the session it works on
    word        \* the answer of QTS it works with
signVars == <<qts, cache, flight, leader, live, born, owner, sign, sess, word>>

Session == 1 .. MaxSessions

\* An answer: what it says, who had arrived when QTS gave it, and whether it was
\* asked for in the name of a session that was gone.
NoWord == [says |-> "nothing", after |-> {}, stray |-> FALSE]
NoFlight == [NoWord EXCEPT !.says = "nobody"]

SignInit ==
    /\ qts = TRUE /\ cache = NoWord /\ flight = NoFlight /\ leader = None
    /\ born \in {0, 1} /\ live = born
    /\ owner = [s \in Session |-> None]
    /\ sign = [r \in Request |-> "new"]
    /\ sess = [r \in Request |-> 0] /\ word = [r \in Request |-> NoWord]

Arrived == {r \in Request : sign[r] # "new"}
To(r, st) == sign' = [sign EXCEPT ![r] = st]
Dead(r) == sess[r] # live
\* Nothing of it is needed any more.
Parts(r) == sess' = [sess EXCEPT ![r] = 0] /\ word' = [word EXCEPT ![r] = NoWord]
Unlock(r) == owner' = IF sess[r] = 0 THEN owner ELSE [owner EXCEPT ![sess[r]] = None]

-----------------------------------------------------------------------------
(* Finding or creating the session (authenticate, createSession).          *)

\* A cookie may name a session that is gone.
Lookup(r) ==
    /\ sign[r] = "new"
    /\ \E s \in {0, live} :
        /\ sess' = [sess EXCEPT ![r] = s]
        /\ To(r, IF s # 0 THEN "lock" ELSE IF r \in Safe THEN "boot" ELSE "outside")
    /\ UNCHANGED <<qts, cache, flight, leader, live, born, owner, word>>

\* The credential flight: followed, led, or over at once where there is a session.
Boot(r) ==
    /\ sign[r] = "boot"
    /\ \/ leader # None /\ To(r, "follow") /\ UNCHANGED <<leader, sess>>
       \/ leader # None /\ To(r, "refused") /\ UNCHANGED <<leader, sess>>
       \/ /\ leader = None /\ live # 0
          /\ sess' = [sess EXCEPT ![r] = live] /\ To(r, "lock") /\ UNCHANGED leader
       \/ leader = None /\ live = 0 /\ leader' = r /\ To(r, "admit") /\ UNCHANGED sess
    /\ UNCHANGED <<qts, cache, flight, live, born, owner, word>>

\* What the leader and its followers come away with.
Landed(r, s, st) ==
    LET crew == {r} \cup {q \in Request : sign[q] = "follow"} IN
    /\ sign' = [q \in Request |-> IF q \in crew THEN st ELSE sign[q]]
    /\ sess' = [q \in Request |-> IF q \in crew THEN s ELSE sess[q]]
    /\ leader' = None

\* createSession and insertSession, or the leader's failure. A refusal of QTS is
\* final; an outage or a cancelled leader is not. Only the leader creates one, so
\* insertSession finds none there.
Create(r) ==
    /\ sign[r] = "answer" /\ leader = r
    /\ \/ /\ word[r].says = "yes"
          /\ live = 0 /\ born < MaxSessions
          /\ born' = born + 1 /\ live' = born + 1 /\ Landed(r, born + 1, "lock")
       \/ Landed(r, 0, IF word[r].says = "no" THEN "outside" ELSE "refused") /\ UNCHANGED <<live, born>>
    /\ word' = [word EXCEPT ![r] = NoWord]
    /\ UNCHANGED <<qts, cache, flight, owner>>

-----------------------------------------------------------------------------
(* Validating it (authenticateSession).                                    *)

\* lockSession, for a request whose CSRF token is the session's.
Lock(r) ==
    /\ sign[r] = "lock"
    /\ \/ r \notin Safe /\ To(r, "outside") /\ UNCHANGED owner
       \/ To(r, "refused") /\ UNCHANGED owner
       \/ /\ owner[sess[r]] = None /\ Dead(r) /\ To(r, "outside") /\ UNCHANGED owner
       \/ /\ owner[sess[r]] = None /\ ~Dead(r)
          /\ owner' = [owner EXCEPT ![sess[r]] = r]
          /\ \/ To(r, "admit")
             \/ r \in Safe /\ To(r, "answer")      \* checked less than a minute ago
    /\ UNCHANGED <<qts, cache, flight, leader, live, born, sess, word>>

\* Mutant: what the verifier remembers is good enough.
Enter_Keeps(r) ==
    /\ sign[r] = "admit" /\ To(r, "verify") /\ UNCHANGED cache
    /\ UNCHANGED <<qts, flight, leader, live, born, owner, sess, word>>

\* enter, and Invalidate before an unsafe request and after an outage. No slot,
\* or no time left: refused, and the session is kept.
Enter(r) ==
    /\ sign[r] = "admit"
    /\ \/ /\ To(r, "verify") /\ UNCHANGED <<owner, leader>>
          /\ \/ leader # r /\ cache' = NoWord
             \/ (leader = r \/ r \in Safe) /\ UNCHANGED cache
       \/ leader # r /\ To(r, "refused") /\ Unlock(r) /\ UNCHANGED <<cache, leader>>
    /\ UNCHANGED <<qts, flight, live, born, sess, word>>

\* Verify: from the cache, with a flight, or leading one.
Verify(r) ==
    /\ sign[r] = "verify"
    /\ \/ /\ cache # NoWord /\ word' = [word EXCEPT ![r] = cache]
          /\ To(r, "answer") /\ UNCHANGED flight
       \/ cache = NoWord /\ flight # NoFlight /\ To(r, "join") /\ UNCHANGED <<word, flight>>
       \/ /\ cache = NoWord /\ flight = NoFlight /\ To(r, "ask") /\ UNCHANGED word
          /\ flight' = [NoWord EXCEPT !.stray = sess[r] # 0 /\ Dead(r)]
    /\ UNCHANGED <<qts, cache, leader, live, born, owner, sess>>

\* validate: whatever is not a clear answer of QTS says nothing of the user.
Says == {IF qts THEN "yes" ELSE "no", "unreachable"}

Answers ==
    /\ flight.says = "nothing"
    /\ \E says \in Says :
        flight' = [flight EXCEPT !.says = says, !.after = Arrived]
    /\ UNCHANGED <<qts, cache, leader, live, born, owner, sign, sess, word>>

\* The answer is kept, unless the leader's context ended first, or it says
\* nothing of the credential (verifyCredential invalidates it again).
Land(r) ==
    /\ sign[r] = "ask"
    /\ \E w \in {flight, [NoWord EXCEPT !.says = "cancelled"]} \ {[flight EXCEPT !.says = "nothing"]} :
        LET crew == {r} \cup {q \in Request : sign[q] = "join"} IN
        /\ cache' = IF w.says \in {"yes", "no"} THEN w
                    ELSE IF w.says = "unreachable" THEN NoWord ELSE cache
        /\ word' = [q \in Request |-> IF q \in crew THEN w ELSE word[q]]
        /\ sign' = [q \in Request |-> IF q \in crew THEN "answer" ELSE sign[q]]
    /\ flight' = NoFlight
    /\ UNCHANGED <<qts, leader, live, born, owner, sess>>

\* Served, if the session is still there; a refusal of QTS destroys it, an
\* outage only once it has lasted (qtsUnavailableGrace).
Validate(r) ==
    /\ sign[r] = "answer" /\ leader # r /\ Unlock(r)
    /\ LET gone == live' = IF Dead(r) THEN live ELSE 0 IN
       CASE word[r].says \in {"yes", "nothing"} ->
                To(r, IF Dead(r) THEN "outside" ELSE "in") /\ UNCHANGED live
         [] word[r].says = "no" -> To(r, "outside") /\ gone
         [] OTHER -> To(r, "refused") /\ (UNCHANGED live \/ gone)
    /\ word' = [word EXCEPT ![r] = IF sign'[r] = "in" THEN @ ELSE NoWord]
    /\ UNCHANGED <<qts, cache, flight, leader, born, sess>>

-----------------------------------------------------------------------------
(* What else happens.                                                      *)

SignsOut == qts /\ qts' = FALSE
            /\ UNCHANGED <<cache, flight, leader, live, born, owner, sign, sess, word>>
\* removeSessionLocked: logout, expiry, or another session's place.
Removed == live # 0 /\ live' = 0
           /\ UNCHANGED <<qts, cache, flight, leader, born, owner, sign, sess, word>>
CacheExpires == cache # NoWord /\ cache' = NoWord
                /\ UNCHANGED <<qts, flight, leader, live, born, owner, sign, sess, word>>

Authenticates(r) ==
    Boot(r) \/ Create(r) \/ Lock(r) \/ Enter(r) \/ Verify(r) \/ Land(r) \/ Validate(r)
SignNext == Answers \/ \E r \in Request : Authenticates(r)

-----------------------------------------------------------------------------
(* An unsafe request is served on an answer that QTS gave after it came,   *)
(* whatever was cached or in flight then: a user who has signed out of QTS *)
(* changes nothing any more. The one exception is an answer asked for in   *)
(* the name of a session removed meanwhile: its request may have entered   *)
(* the verifier again after a successor was created.                       *)
FreshSignIn ==
    \A r \in Request \ Safe :
        sign[r] = "in" /\ sess[r] # 0 =>
            r \in word[r].after \/ word[r].stray
=============================================================================
