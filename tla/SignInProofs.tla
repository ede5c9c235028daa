---------------------------- MODULE SignInProofs ----------------------------
(***************************************************************************)
(* Why an unsafe request is served on an answer of QTS that is younger     *)
(* than it is: the inductive invariant of the sign-in, and that each of    *)
(* its steps keeps it. RequestsProofs puts the steps together.             *)
(***************************************************************************)
EXTENDS SignIn, TLAPS

\* An answer, a verification in flight, and the rest of the state.
Word == [says : {"nothing", "nobody", "yes", "no", "unreachable", "cancelled"},
         after : SUBSET Request, stray : BOOLEAN]
SignState == {"new", "boot", "follow", "lock", "admit", "verify", "join", "ask", "answer",
              "in", "outside", "refused", "served"}
SignTypeOK ==
    /\ qts \in BOOLEAN
    /\ cache \in Word /\ flight \in Word
    /\ leader \in Request \cup {None}
    /\ born \in 0 .. MaxSessions /\ live \in {0, born}
    /\ owner \in [Session -> Request \cup {None}]
    /\ sign \in [Request -> SignState]
    /\ sess \in [Request -> 0 .. MaxSessions]
    /\ word \in [Request -> Word]

\* Where a request waits for an answer: it leads, or it holds its session's lock.
Waiting == {"admit", "verify", "join", "ask", "answer"}
HoldsItsLock ==
    \A r \in Request :
        /\ sess[r] <= born
        /\ sign[r] \in {"new", "boot", "follow"} => sess[r] = 0
        /\ sign[r] \in {"boot", "follow"} => r \in Safe
        /\ sign[r] = "lock" => sess[r] # 0
        /\ sign[r] \in Waiting => leader = r \/ (sess[r] # 0 /\ owner[sess[r]] = r)

\* While somebody creates a session, there is none.
LeadsToTheOnlySession ==
    leader # None => leader \in Safe /\ live = 0 /\ sess[leader] = 0 /\ sign[leader] \in Waiting

\* A flight has one who asks; nothing is cached meanwhile.
OneAsks ==
    /\ flight # NoFlight => cache = NoWord /\ flight.says # "nobody"
    /\ cache # NoWord => cache.says \in {"yes", "no"}
    /\ \A r \in Request : sign[r] \in {"ask", "join"} => flight # NoFlight
    /\ \A r, q \in Request : sign[r] = "ask" /\ sign[q] = "ask" => r = q

\* Whoever works on another session than the one who asks had come before the
\* answer: a younger session cannot be made while the flight lasts, unless the
\* flight was in the name of a session that was gone.
AnswersForAll ==
    \A r \in Request : sign[r] = "ask" =>
        /\ flight.says # "nothing" => r \in flight.after
        /\ ~flight.stray =>
            /\ sess[r] # 0 =>
                  sess[r] = born /\ (leader # None => sign[leader] \in {"admit", "verify", "join"})
            /\ flight.says # "nothing" =>
                  \A q \in Request : sess[q] \notin {0, sess[r]} => q \in flight.after

\* An answer that is good for a request, and where an unsafe one meets answers.
Good(r, w) == r \in w.after \/ w.stray
MeetsGoodAnswers ==
    \A r \in Request \ Safe :
        /\ sign[r] = "verify" /\ cache # NoWord => Good(r, cache)
        /\ sign[r] = "answer" =>
              word[r].says # "nothing" /\ (word[r].says # "cancelled" => Good(r, word[r]))

SignInv ==
    /\ SignTypeOK /\ HoldsItsLock /\ LeadsToTheOnlySession
    /\ OneAsks /\ AnswersForAll /\ MeetsGoodAnswers /\ FreshSignIn

-----------------------------------------------------------------------------
LEMMA Words ==
    /\ NoWord \in Word /\ NoFlight \in Word /\ NoWord # NoFlight
    /\ NoWord.says = "nothing" /\ NoFlight.says = "nobody" /\ NoWord.stray = FALSE
<1>1. NoWord.says = "nothing" /\ NoFlight.says = "nobody" /\ NoWord.stray = FALSE
  BY DEF NoWord, NoFlight
<1>2. NoWord \in Word
  BY DEF NoWord, Word
<1>3. NoFlight \in Word
  BY DEF NoWord, NoFlight, Word
<1> QED
  BY <1>1, <1>2, <1>3

\* The answers that the verifier makes of others.
LEMMA NewFlight ==
    ASSUME NEW b \in BOOLEAN
    PROVE  LET w == [NoWord EXCEPT !.stray = b]
           IN  w \in Word /\ w.says = "nothing" /\ w.stray = b
BY DEF NoWord, Word

LEMMA NewAnswer ==
    ASSUME NEW w \in Word, NEW says \in {"yes", "no", "unreachable"}, NEW after \in SUBSET Request
    PROVE  LET v == [w EXCEPT !.says = says, !.after = after]
           IN  v \in Word /\ v.says = says /\ v.after = after /\ v.stray = w.stray
BY DEF Word

LEMMA CutShort ==
    LET w == [NoWord EXCEPT !.says = "cancelled"] IN w \in Word /\ w.says = "cancelled"
BY DEF NoWord, Word

LEMMA Initially == SignInit => SignInv
<1> SUFFICES ASSUME SignInit PROVE SignInv
  OBVIOUS
<1> USE Words, RequestAssumption, SignInAssumption
<1>1. SignTypeOK
  BY DEF SignInit, SignTypeOK, SignState
<1>2. HoldsItsLock /\ LeadsToTheOnlySession
  BY DEF SignInit, HoldsItsLock, LeadsToTheOnlySession, Waiting
<1>3. OneAsks /\ AnswersForAll
  BY DEF SignInit, OneAsks, AnswersForAll
<1>4. MeetsGoodAnswers /\ FreshSignIn
  BY DEF SignInit, MeetsGoodAnswers, FreshSignIn
<1> QED
  BY <1>1, <1>2, <1>3, <1>4 DEF SignInv

-----------------------------------------------------------------------------
(* One lemma for each step. *)
LEMMA LooksUp ==
    ASSUME SignInv, NEW r \in Request, Lookup(r)
    PROVE  SignInv'
<1> USE RequestAssumption, SignInAssumption, Words DEF SignInv
<1>1. SignTypeOK'
  BY DEF SignTypeOK, SignState, Lookup, To
<1>2. HoldsItsLock'
  BY DEF HoldsItsLock, SignTypeOK, Lookup, To, Waiting
<1>3. LeadsToTheOnlySession'
  BY DEF LeadsToTheOnlySession, SignTypeOK, Lookup, To, HoldsItsLock, Waiting
<1>4. OneAsks'
  BY DEF OneAsks, SignTypeOK, Lookup, To
<1>5. AnswersForAll'
  BY DEF AnswersForAll, SignTypeOK, Lookup, To, HoldsItsLock, LeadsToTheOnlySession, OneAsks, Waiting
<1>6. MeetsGoodAnswers'
  BY DEF MeetsGoodAnswers, SignTypeOK, Lookup, To, Good, OneAsks
<1>7. FreshSignIn'
  BY DEF FreshSignIn, SignTypeOK, Lookup, To, MeetsGoodAnswers, Good
<1> QED
  BY <1>1, <1>2, <1>3, <1>4, <1>5, <1>6, <1>7

LEMMA Boots ==
    ASSUME SignInv, NEW r \in Request, Boot(r)
    PROVE  SignInv'
<1> USE RequestAssumption, SignInAssumption, Words DEF SignInv
<1>1. SignTypeOK'
  BY DEF SignTypeOK, SignState, Boot, To
<1>2. HoldsItsLock'
  BY DEF HoldsItsLock, SignTypeOK, Boot, To, Waiting
<1>3. LeadsToTheOnlySession'
  BY DEF LeadsToTheOnlySession, SignTypeOK, Boot, To, HoldsItsLock, Waiting
<1>4. OneAsks'
  BY DEF OneAsks, SignTypeOK, Boot, To
<1>5. AnswersForAll'
  BY DEF AnswersForAll, SignTypeOK, Boot, To, HoldsItsLock, LeadsToTheOnlySession, OneAsks, Waiting
<1>6. MeetsGoodAnswers'
  BY DEF MeetsGoodAnswers, SignTypeOK, Boot, To, Good, OneAsks
<1>7. FreshSignIn'
  BY DEF FreshSignIn, SignTypeOK, Boot, To, MeetsGoodAnswers, Good
<1> QED
  BY <1>1, <1>2, <1>3, <1>4, <1>5, <1>6, <1>7

LEMMA Creates ==
    ASSUME SignInv, NEW r \in Request, Create(r)
    PROVE  SignInv'
<1> USE RequestAssumption, SignInAssumption, Words DEF SignInv
<1>1. SignTypeOK'
  BY DEF SignTypeOK, SignState, Create, Landed
<1>2. HoldsItsLock'
  BY DEF HoldsItsLock, SignTypeOK, Create, Landed, Waiting
<1>3. LeadsToTheOnlySession'
  BY DEF LeadsToTheOnlySession, SignTypeOK, Create, Landed, HoldsItsLock, Waiting
<1>4. OneAsks'
  BY DEF OneAsks, SignTypeOK, Create, Landed
<1>5. AnswersForAll'
  BY DEF AnswersForAll, SignTypeOK, Create, Landed, HoldsItsLock, LeadsToTheOnlySession, OneAsks, Waiting
<1>6. MeetsGoodAnswers'
  BY DEF MeetsGoodAnswers, SignTypeOK, Create, Landed, Good, OneAsks
<1>7. FreshSignIn'
  BY DEF FreshSignIn, SignTypeOK, Create, Landed, MeetsGoodAnswers, Good
<1> QED
  BY <1>1, <1>2, <1>3, <1>4, <1>5, <1>6, <1>7

LEMMA LocksSession ==
    ASSUME SignInv, NEW r \in Request, Lock(r)
    PROVE  SignInv'
<1> USE RequestAssumption, SignInAssumption, Words DEF SignInv
<1>1. SignTypeOK'
  <2>1. sess[r] \in Session
    BY DEF Lock, HoldsItsLock, SignTypeOK, Session
  <2>2. owner' \in [Session -> Request \cup {None}]
    BY <2>1 DEF Lock, SignTypeOK
  <2>3. sign' \in [Request -> SignState]
    BY DEF Lock, To, SignTypeOK, SignState
  <2> QED
    BY <2>2, <2>3 DEF SignTypeOK, Lock
<1>2. HoldsItsLock'
  BY DEF HoldsItsLock, SignTypeOK, Lock, To, Dead, Session, Waiting
<1>3. LeadsToTheOnlySession'
  BY DEF LeadsToTheOnlySession, SignTypeOK, Lock, To, Dead, Session, HoldsItsLock, Waiting
<1>4. OneAsks'
  BY DEF OneAsks, SignTypeOK, Lock, To, Dead, Session
<1>5. AnswersForAll'
  BY DEF AnswersForAll, SignTypeOK, Lock, To, Dead, Session, HoldsItsLock, LeadsToTheOnlySession, OneAsks, Waiting
<1>6. MeetsGoodAnswers'
  BY DEF MeetsGoodAnswers, SignTypeOK, Lock, To, Dead, Session, Good, OneAsks
<1>7. FreshSignIn'
  BY DEF FreshSignIn, SignTypeOK, Lock, To, Dead, Session, MeetsGoodAnswers, Good
<1> QED
  BY <1>1, <1>2, <1>3, <1>4, <1>5, <1>6, <1>7

LEMMA Enters ==
    ASSUME SignInv, NEW r \in Request, Enter(r)
    PROVE  SignInv'
<1> USE RequestAssumption, SignInAssumption, Words DEF SignInv
<1>1. SignTypeOK'
  BY DEF SignTypeOK, SignState, Enter, To, Unlock, Session
<1>2. HoldsItsLock'
  BY DEF HoldsItsLock, SignTypeOK, Enter, To, Unlock, Session, Waiting
<1>3. LeadsToTheOnlySession'
  BY DEF LeadsToTheOnlySession, SignTypeOK, Enter, To, Unlock, Session, HoldsItsLock, Waiting
<1>4. OneAsks'
  BY DEF OneAsks, SignTypeOK, Enter, To
<1>5. AnswersForAll'
  BY DEF AnswersForAll, SignTypeOK, Enter, To, Unlock, Session, HoldsItsLock, LeadsToTheOnlySession, OneAsks, Waiting
<1>6. MeetsGoodAnswers'
  BY DEF MeetsGoodAnswers, SignTypeOK, Enter, To, Good, LeadsToTheOnlySession
<1>7. FreshSignIn'
  BY DEF FreshSignIn, SignTypeOK, Enter, To, Unlock, Session, MeetsGoodAnswers, Good
<1> QED
  BY <1>1, <1>2, <1>3, <1>4, <1>5, <1>6, <1>7

LEMMA Verifies ==
    ASSUME SignInv, NEW r \in Request, Verify(r)
    PROVE  SignInv'
<1> USE RequestAssumption, SignInAssumption, Words DEF SignInv
<1>1. SignTypeOK'
  <2> DEFINE b == sess[r] # 0 /\ Dead(r)
  <2>1. [NoWord EXCEPT !.stray = b] \in Word
    <3> b \in BOOLEAN
      OBVIOUS
    <3> HIDE DEF b
    <3> QED
      BY NewFlight
  <2> QED
    BY <2>1 DEF SignTypeOK, SignState, Verify, To
<1>2. HoldsItsLock'
  BY DEF HoldsItsLock, SignTypeOK, Verify, To, Dead, Word, Waiting
<1>3. LeadsToTheOnlySession'
  BY DEF LeadsToTheOnlySession, SignTypeOK, Verify, To, Dead, Word, HoldsItsLock, Waiting
<1>4. OneAsks'
  BY DEF OneAsks, SignTypeOK, Verify, To, Dead, Word
<1>5. AnswersForAll'
  <2>1. CASE cache = NoWord /\ flight = NoFlight
    <3>1. flight'.says = "nothing" /\ (~flight'.stray => ~(sess[r] # 0 /\ Dead(r)))
      <4> DEFINE b == sess[r] # 0 /\ Dead(r)
      <4>1. flight' = [NoWord EXCEPT !.stray = b]
        BY <2>1 DEF Verify
      <4>2. b \in BOOLEAN
        OBVIOUS
      <4> HIDE DEF b
      <4>3. flight'.says = "nothing" /\ flight'.stray = b
        BY <4>1, <4>2, NewFlight
      <4> QED
        BY <4>3 DEF b
    <3>2. \A q \in Request : sign'[q] = "ask" => q = r
      BY <2>1 DEF Verify, To, SignTypeOK, OneAsks
    <3>3. sess[r] # 0 /\ ~Dead(r) => sess[r] = born /\ leader = None
      BY DEF Dead, SignTypeOK, LeadsToTheOnlySession
    <3>4. UNCHANGED <<sess, leader, born>>
      BY DEF Verify
    <3> QED
      BY <3>1, <3>2, <3>3, <3>4 DEF AnswersForAll
  <2>2. CASE ~(cache = NoWord /\ flight = NoFlight)
    <3>1. \A q \in Request : sign'[q] = "ask" => sign[q] = "ask"
      BY <2>2 DEF Verify, To, SignTypeOK
    <3>2. UNCHANGED <<flight, sess, leader, born>>
      BY <2>2 DEF Verify
    <3>3. ASSUME NEW q \in Request, sign[q] = "ask", leader # None, sign[leader] \in {"admit", "verify", "join"}
          PROVE  sign'[leader] \in {"admit", "verify", "join"}
      BY <2>2, <3>3 DEF Verify, To, SignTypeOK, OneAsks
    <3> QED
      BY <3>1, <3>2, <3>3 DEF AnswersForAll
  <2> QED
    BY <2>1, <2>2
<1>6. MeetsGoodAnswers'
  BY DEF MeetsGoodAnswers, SignTypeOK, Verify, To, Dead, Word, Good, OneAsks
<1>7. FreshSignIn'
  BY DEF FreshSignIn, SignTypeOK, Verify, To, Dead, Word, MeetsGoodAnswers, Good
<1> QED
  BY <1>1, <1>2, <1>3, <1>4, <1>5, <1>6, <1>7

LEMMA Lands ==
    ASSUME SignInv, NEW r \in Request, Land(r)
    PROVE  SignInv'
<1> USE RequestAssumption, SignInAssumption, Words DEF SignInv
<1>1. SignTypeOK'
  BY DEF SignTypeOK, SignState, Land, Word
<1>2. HoldsItsLock'
  BY DEF HoldsItsLock, SignTypeOK, Land, Word, Waiting
<1>3. LeadsToTheOnlySession'
  BY DEF LeadsToTheOnlySession, SignTypeOK, Land, Word, HoldsItsLock, Waiting
<1>4. OneAsks'
  BY DEF OneAsks, SignTypeOK, Land, Word
<1>5. AnswersForAll'
  BY DEF AnswersForAll, SignTypeOK, Land, Word, HoldsItsLock, LeadsToTheOnlySession, OneAsks, Waiting
<1>6. MeetsGoodAnswers'
  <2>1. ASSUME NEW q \in Request \ Safe, sign[q] \in {"verify", "join", "ask"}, flight.says # "nothing"
        PROVE  Good(q, flight)
    <3>1. sess[q] # 0 /\ owner[sess[q]] = q
      BY <2>1 DEF HoldsItsLock, LeadsToTheOnlySession, Waiting
    <3>2. sess[q] = sess[r] => q = r
      BY <3>1 DEF HoldsItsLock, LeadsToTheOnlySession, Waiting, Land
    <3> QED
      BY <2>1, <3>1, <3>2 DEF AnswersForAll, Good, Land
  <2>2. cache = NoWord
    BY DEF OneAsks, Land
  <2>3. PICK w \in {flight, [NoWord EXCEPT !.says = "cancelled"]} \ {[flight EXCEPT !.says = "nothing"]} :
           /\ cache' = IF w.says \in {"yes", "no"} THEN w
                       ELSE IF w.says = "unreachable" THEN NoWord ELSE cache
           /\ word' = [q \in Request |-> IF q = r \/ sign[q] = "join" THEN w ELSE word[q]]
           /\ sign' = [q \in Request |-> IF q = r \/ sign[q] = "join" THEN "answer" ELSE sign[q]]
    BY DEF Land
  <2>4. w.says # "cancelled" => w = flight
    BY CutShort
  <2>5. w.says # "nothing"
    <3>1. CASE w = flight
      BY <3>1, <2>3 DEF SignTypeOK, Word
    <3> QED
      BY <3>1, <2>4
  <2> QED
    BY <2>1, <2>2, <2>3, <2>4, <2>5 DEF MeetsGoodAnswers, SignTypeOK, Land
<1>7. FreshSignIn'
  BY DEF FreshSignIn, SignTypeOK, Land, Word, MeetsGoodAnswers, Good
<1> QED
  BY <1>1, <1>2, <1>3, <1>4, <1>5, <1>6, <1>7

LEMMA Validates ==
    ASSUME SignInv, NEW r \in Request, Validate(r)
    PROVE  SignInv'
<1> USE RequestAssumption, SignInAssumption, Words DEF SignInv
<1>1. SignTypeOK'
  BY DEF SignTypeOK, SignState, Validate, To, Dead, Unlock, Session
<1>2. HoldsItsLock'
  BY DEF HoldsItsLock, SignTypeOK, Validate, To, Dead, Unlock, Session, Waiting
<1>3. LeadsToTheOnlySession'
  BY DEF LeadsToTheOnlySession, SignTypeOK, Validate, To, Dead, Unlock, Session, HoldsItsLock, Waiting
<1>4. OneAsks'
  BY DEF OneAsks, SignTypeOK, Validate, To, Dead, Unlock, Session
<1>5. AnswersForAll'
  BY DEF AnswersForAll, SignTypeOK, Validate, To, Dead, Unlock, Session, HoldsItsLock, LeadsToTheOnlySession, OneAsks, Waiting
<1>6. MeetsGoodAnswers'
  BY DEF MeetsGoodAnswers, SignTypeOK, Validate, To, Dead, Unlock, Session, Good, OneAsks
<1>7. FreshSignIn'
  BY DEF FreshSignIn, SignTypeOK, Validate, To, Dead, Unlock, Session, MeetsGoodAnswers, Good
<1> QED
  BY <1>1, <1>2, <1>3, <1>4, <1>5, <1>6, <1>7

LEMMA QtsAnswers ==
    ASSUME SignInv, Answers
    PROVE  SignInv'
<1> USE RequestAssumption, SignInAssumption, Words DEF SignInv
<1>1. SignTypeOK'
  <2>1. PICK says \in Says : flight' = [flight EXCEPT !.says = says, !.after = Arrived]
    BY DEF Answers
  <2>2. says \in {"yes", "no", "unreachable"} /\ Arrived \in SUBSET Request /\ flight \in Word
    BY DEF Says, Arrived, SignTypeOK
  <2>3. flight' \in Word
    BY <2>1, <2>2, NewAnswer, Zenon
  <2> QED
    BY <2>3 DEF SignTypeOK, Answers
<1>2. HoldsItsLock'
  BY DEF HoldsItsLock, SignTypeOK, Answers, Says, Arrived, Word, Waiting
<1>3. LeadsToTheOnlySession'
  BY DEF LeadsToTheOnlySession, SignTypeOK, Answers, Says, Arrived, Word, HoldsItsLock, Waiting
<1>4. OneAsks'
  <2>1. flight'.says \in {"yes", "no", "unreachable"}
    <3>1. PICK says \in Says : flight' = [flight EXCEPT !.says = says, !.after = Arrived]
      BY DEF Answers
    <3>2. says \in {"yes", "no", "unreachable"} /\ Arrived \in SUBSET Request /\ flight \in Word
      BY DEF Says, Arrived, SignTypeOK
    <3>3. flight'.says = says
      BY <3>1, <3>2 DEF Word
    <3> QED
      BY <3>2, <3>3
  <2>2. flight' # NoFlight /\ flight # NoFlight
    BY <2>1 DEF Answers
  <2> QED
    BY <2>1, <2>2 DEF OneAsks, SignTypeOK, Answers
<1>5. AnswersForAll'
  BY DEF AnswersForAll, SignTypeOK, Answers, Says, Arrived, Word, HoldsItsLock, LeadsToTheOnlySession, OneAsks, Waiting
<1>6. MeetsGoodAnswers'
  BY DEF MeetsGoodAnswers, SignTypeOK, Answers, Says, Arrived, Word, Good, OneAsks
<1>7. FreshSignIn'
  BY DEF FreshSignIn, SignTypeOK, Answers, Says, Arrived, Word, MeetsGoodAnswers, Good
<1> QED
  BY <1>1, <1>2, <1>3, <1>4, <1>5, <1>6, <1>7

LEMMA OtherSteps ==
    ASSUME SignInv, SignsOut \/ Removed \/ CacheExpires
    PROVE  SignInv'
<1> USE RequestAssumption, SignInAssumption, Words DEF SignInv
<1>1. SignTypeOK'
  BY DEF SignTypeOK, SignState, SignsOut, Removed, CacheExpires
<1>2. HoldsItsLock'
  BY DEF HoldsItsLock, SignTypeOK, SignsOut, Removed, CacheExpires, Waiting
<1>3. LeadsToTheOnlySession'
  BY DEF LeadsToTheOnlySession, SignTypeOK, SignsOut, Removed, CacheExpires, HoldsItsLock, Waiting
<1>4. OneAsks'
  BY DEF OneAsks, SignTypeOK, SignsOut, Removed, CacheExpires
<1>5. AnswersForAll'
  BY DEF AnswersForAll, SignTypeOK, SignsOut, Removed, CacheExpires, HoldsItsLock, LeadsToTheOnlySession, OneAsks, Waiting
<1>6. MeetsGoodAnswers'
  BY DEF MeetsGoodAnswers, SignTypeOK, SignsOut, Removed, CacheExpires, Good, OneAsks
<1>7. FreshSignIn'
  BY DEF FreshSignIn, SignTypeOK, SignsOut, Removed, CacheExpires, MeetsGoodAnswers, Good
<1> QED
  BY <1>1, <1>2, <1>3, <1>4, <1>5, <1>6, <1>7

LEMMA Authenticating ==
    ASSUME SignInv, NEW r \in Request, Authenticates(r)
    PROVE  SignInv'
BY Boots, Creates, LocksSession, Enters, Verifies, Lands, Validates DEF Authenticates

\* What a handler does to the sign-in: a request that needs no session comes in, and
\* one that is done with it leaves.
LEMMA ComesIn ==
    ASSUME SignInv, NEW r \in Request, sign[r] = "new", To(r, "in"),
           UNCHANGED <<qts, cache, flight, leader, live, born, owner, sess, word>>
    PROVE  SignInv'
<1> USE RequestAssumption DEF SignInv, To
<1>1. SignTypeOK'
  BY DEF SignTypeOK, SignState
<1>2. HoldsItsLock' /\ LeadsToTheOnlySession'
  BY DEF SignTypeOK, HoldsItsLock, LeadsToTheOnlySession, Waiting
<1>3. OneAsks' /\ AnswersForAll'
  BY DEF SignTypeOK, OneAsks, AnswersForAll, LeadsToTheOnlySession, Waiting
<1>4. MeetsGoodAnswers' /\ FreshSignIn'
  BY DEF SignTypeOK, MeetsGoodAnswers, FreshSignIn, Good, HoldsItsLock
<1> QED
  BY <1>1, <1>2, <1>3, <1>4

LEMMA Leaves ==
    ASSUME SignInv, NEW r \in Request, sign[r] \in {"in", "outside"},
           NEW st \in {"served", "refused"}, To(r, st), Parts(r),
           UNCHANGED <<qts, cache, flight, leader, live, born, owner>>
    PROVE  SignInv'
<1> USE RequestAssumption, Words DEF SignInv, To, Parts
<1>1. SignTypeOK'
  <2>1. sess' \in [Request -> 0 .. MaxSessions] /\ sign' \in [Request -> SignState]
    BY SignInAssumption DEF SignTypeOK, SignState
  <2>2. word' \in [Request -> Word]
    BY DEF SignTypeOK
  <2> QED
    BY <2>1, <2>2 DEF SignTypeOK
<1>2. HoldsItsLock' /\ LeadsToTheOnlySession'
  BY DEF SignTypeOK, HoldsItsLock, LeadsToTheOnlySession, Waiting
<1>3. OneAsks' /\ AnswersForAll'
  BY DEF SignTypeOK, OneAsks, AnswersForAll, LeadsToTheOnlySession, Waiting
<1>4. MeetsGoodAnswers' /\ FreshSignIn'
  BY DEF SignTypeOK, MeetsGoodAnswers, FreshSignIn, Good
<1> QED
  BY <1>1, <1>2, <1>3, <1>4

LEMMA Elsewise == SignInv /\ UNCHANGED signVars => SignInv'
BY DEF signVars, SignInv, SignTypeOK, HoldsItsLock, LeadsToTheOnlySession, OneAsks, AnswersForAll,
       MeetsGoodAnswers, FreshSignIn, Good
=============================================================================
