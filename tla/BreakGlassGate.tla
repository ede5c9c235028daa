--------------------------- MODULE BreakGlassGate ---------------------------
(***************************************************************************)
(* The bounds of the emergency door (internal/breakglass/gate.go): a token *)
(* bucket and a lockout ladder per source address, kept in one bounded     *)
(* table whose least recently seen entry is evicted; InFlight admission    *)
(* slots that never wait; and one verification turn that callers wait for. *)
(* The lockout is read when a turn begins and the outcome committed when   *)
(* it ends, each under g.mu, which is not held between the two: the table  *)
(* may change, and the source's own entry be evicted, during a bcrypt.     *)
(*                                                                         *)
(* Time is relative: an entry holds the ticks that remain of its lockout   *)
(* and the ticks since its bucket was charged, so behaviours do not end    *)
(* with a clock.                                                           *)
(***************************************************************************)
EXTENDS Integers, Sequences, FiniteSets

CONSTANTS
    Source,          \* peer addresses
    Attempt,         \* login requests in progress at once
    InFlight, MaxSources,
    BucketCapacity,
    Refill,          \* tokens a tick puts back
    LockoutAfter, LockoutBase, LockoutCap,
    HalfRange,       \* a Duration is in -HalfRange .. HalfRange - 1
    ClockLag,        \* bound: ticks between reading the clock and g.mu
    MaxFailures,     \* bound: consecutive failures of one source
    Nobody

ASSUME GateAssumption ==
    /\ {InFlight, MaxSources, BucketCapacity, LockoutAfter, LockoutBase,
        LockoutCap, HalfRange} \subseteq Nat \ {0}
    /\ {Refill, ClockLag, MaxFailures} \subseteq Nat
    /\ IsFiniteSet(Attempt) /\ Nobody \notin Source

VARIABLES
    sources,    \* g.sources: the tracked addresses and their sourceState
    lru,        \* g.lru, least recently seen first
    admit,      \* slots taken of g.admit
    verify,     \* slots taken of g.verify
    at,         \* where an attempt is
    from,       \* the address it came from
    verdict,    \* what its turn concluded
    hist        \* history: what the door has told and owes each address

table    == <<sources, lru>>
attempts == <<at, from, verdict>>
gateVars == <<table, admit, verify, attempts, hist>>

Place   == {"out", "charged", "queued", "turn", "judged"}
Verdict == {"none", "late", "locked", "neutral", "failed", "succeeded"}

Least(m, n) == IF m < n THEN m ELSE n

Unlocked == -1      \* lockedUntil.IsZero()
Fresh == [tokens |-> BucketCapacity, since |-> 0, failures |-> 0,
          lock |-> Unlocked, announced |-> FALSE]
\* wrong: its consecutive wrong passwords; due: ticks for which nothing it
\* offers may be looked at; open: lockouts reported entered less those
\* reported left.  A source that is not tracked is owed nothing.
Unknown == [wrong |-> 0, due |-> 0, open |-> 0]

GateTypeOK ==
    /\ DOMAIN sources \subseteq Source
    /\ \A s \in DOMAIN sources :
          sources[s] \in [tokens : 0 .. BucketCapacity,
                          since : 0 .. BucketCapacity + ClockLag,
                          failures : 0 .. MaxFailures,
                          lock : Unlocked .. LockoutCap, announced : BOOLEAN]
    /\ lru \in Seq(Source)
    /\ admit \in Nat /\ verify \in Nat
    /\ at \in [Attempt -> Place]
    /\ from \in [Attempt -> Source \cup {Nobody}]
    /\ verdict \in [Attempt -> Verdict]
    /\ hist \in [Source -> [wrong : Nat, due : 0 .. LockoutCap, open : Int]]

GateInit ==
    /\ sources = [s \in {} |-> Fresh] /\ lru = <<>>
    /\ admit = 0 /\ verify = 0
    /\ at = [a \in Attempt |-> "out"]
    /\ from = [a \in Attempt |-> Nobody]
    /\ verdict = [a \in Attempt |-> "none"]
    /\ hist = [s \in Source |-> Unknown]

-----------------------------------------------------------------------------
(* The table.  Everything below runs under g.mu.                           *)

Crowded(s) == s \notin DOMAIN sources /\ Cardinality(DOMAIN sources) >= MaxSources
Kept(s)    == DOMAIN sources \ IF Crowded(s) THEN {Head(lru)} ELSE {}
Entry(s)   == IF s \in DOMAIN sources THEN sources[s] ELSE Fresh

\* sourceLocked finds or creates s's entry; the caller leaves it as e.
SourceLocked(s, e) ==
    /\ sources' = [t \in Kept(s) \cup {s} |-> IF t = s THEN e ELSE sources[t]]
    /\ lru' = Append(SelectSeq(lru, LAMBDA t : t \in Kept(s) \ {s}), s)

\* What the history keeps when s becomes h and a crowded-out source is dropped.
Remember(s, h) ==
    hist' = [t \in Source |-> IF t = s THEN h
                              ELSE IF t \in Kept(s) THEN hist[t] ELSE Unknown]
\* A source that is being tracked from now on starts with no history.
Record(s) == IF s \in DOMAIN sources THEN hist[s] ELSE Unknown

\* AllowSource: elapsed is measured from a clock read before g.mu was taken,
\* so the last charge may lie after it; last becomes that reading all the same.
Level(e, lag) == IF e.since > lag
                 THEN Least(e.tokens + (e.since - lag) * Refill, BucketCapacity)
                 ELSE e.tokens
Charge(s, lag) ==
    LET n == Level(Entry(s), lag) IN
    /\ SourceLocked(s, [Entry(s) EXCEPT !.tokens = IF n < 1 THEN n ELSE n - 1,
                                        !.since = lag])
    /\ Remember(s, Record(s))
Allowed(s, lag) == Level(Entry(s), lag) >= 1

\* lockedAt clears a lockout that has run out; left when it had been reported.
Locked(e) == e.lock > 0
Left(e) == e.lock = 0 /\ e.announced
LockedAt_StillAnnounced(e) == e
LockedAt(e) == IF e.lock = 0 THEN [e EXCEPT !.lock = Unlocked, !.announced = FALSE] ELSE e

\* LockoutBase << (failures - LockoutAfter), in the width of a Duration.
Shifted(k) == ((LockoutBase * 2 ^ (k - LockoutAfter) + HalfRange) % (2 * HalfRange))
                 - HalfRange
Rung(k) == LET d == Shifted(k) IN IF d > LockoutCap \/ d <= 0 THEN LockoutCap ELSE d

\* Mutant: the clamp asks for the cap only, and an overflow locks into the past.
FailedLocked_NoFloor(e) ==
    LET k == e.failures + 1 IN
    IF k < LockoutAfter
    THEN [e EXCEPT !.failures = k]
    ELSE [e EXCEPT !.failures = k, !.announced = TRUE,
                   !.lock = IF Shifted(k) > 0 THEN Least(Shifted(k), LockoutCap) ELSE 0]
\* failedLocked; a lock that would lie in the past has run out already.
FailedLocked(e) ==
    LET k == e.failures + 1 IN
    IF k < LockoutAfter
    THEN [e EXCEPT !.failures = k]
    ELSE [e EXCEPT !.failures = k, !.announced = TRUE,
                   !.lock = IF Rung(k) > 0 THEN Rung(k) ELSE 0]
SucceededLocked(e) == [e EXCEPT !.failures = 0, !.lock = Unlocked, !.announced = FALSE]

-----------------------------------------------------------------------------
(* The protocol of an attempt.                                             *)

\* The ladder as the comment on LockoutAfter has it: the history's own
\* reckoning, against which the table's is compared.
Ladder(k) == IF k < LockoutAfter THEN 0
             ELSE Least(LockoutBase * 2 ^ (k - LockoutAfter), LockoutCap)

\* Where the shift overflows, the clamp still yields a rung no shorter than
\* the ladder's.
ASSUME RungAssumption ==
    \A k \in LockoutAfter .. MaxFailures :
       Ladder(k) \in 1 .. LockoutCap /\ Rung(k) >= Ladder(k)

Arrive(a, s, lag) ==
    /\ at[a] = "out"
    /\ Charge(s, lag)
    /\ IF Allowed(s, lag)
       THEN from' = [from EXCEPT ![a] = s] /\ at' = [at EXCEPT ![a] = "charged"]
       ELSE UNCHANGED <<from, at>>
    /\ UNCHANGED <<admit, verify, verdict>>

\* Refused before it asked for a slot, or refused the slot.
TurnedAway(a) ==
    /\ at[a] = "charged"
    /\ at' = [at EXCEPT ![a] = "out"]
    /\ from' = [from EXCEPT ![a] = Nobody]
    /\ UNCHANGED <<table, admit, verify, verdict, hist>>

Admit(a) ==
    /\ at[a] = "charged"
    /\ admit < InFlight
    /\ admit' = admit + 1
    /\ at' = [at EXCEPT ![a] = "queued"]
    /\ UNCHANGED <<table, verify, from, verdict, hist>>

QueueExpires(a) ==
    /\ at[a] = "queued"
    /\ at' = [at EXCEPT ![a] = "judged"]
    /\ verdict' = [verdict EXCEPT ![a] = "late"]
    /\ UNCHANGED <<table, admit, verify, from, hist>>

TurnLocked_KeepsTheSlot(a) ==
    LET s == from[a] IN
    /\ at[a] = "queued" /\ verify = 0
    /\ Locked(Entry(s))
    /\ SourceLocked(s, Entry(s))
    /\ Remember(s, Record(s))
    /\ verify' = verify + 1
    /\ at' = [at EXCEPT ![a] = "judged"]
    /\ verdict' = [verdict EXCEPT ![a] = "locked"]
    /\ UNCHANGED <<admit, from>>

\* The source is locked out: the slot is taken and given back, and nothing
\* that was offered is looked at.
TurnLocked(a) ==
    LET s == from[a] IN
    /\ at[a] = "queued" /\ verify = 0
    /\ Locked(Entry(s))
    /\ SourceLocked(s, Entry(s))
    /\ Remember(s, Record(s))
    /\ at' = [at EXCEPT ![a] = "judged"]
    /\ verdict' = [verdict EXCEPT ![a] = "locked"]
    /\ UNCHANGED <<admit, verify, from>>

\* Mutant: callers do not wait for the turn of another.
TurnBegins_SideBySide(a) ==
    LET s == from[a]
        e == Entry(s) IN
    /\ at[a] = "queued" /\ ~ Locked(e) /\ e.failures < MaxFailures
    /\ SourceLocked(s, LockedAt(e))
    /\ Remember(s, [Record(s) EXCEPT !.open = IF Left(e) THEN @ - 1 ELSE @])
    /\ verify' = verify + 1
    /\ at' = [at EXCEPT ![a] = "turn"]
    /\ UNCHANGED <<admit, from, verdict>>
TurnBegins(a) ==
    LET s == from[a]
        e == Entry(s) IN
    /\ at[a] = "queued" /\ verify = 0
    /\ ~ Locked(e)
    /\ e.failures < MaxFailures                                      \* bound
    /\ SourceLocked(s, LockedAt(e))
    /\ Remember(s, [Record(s) EXCEPT !.open = IF Left(e) THEN @ - 1 ELSE @])
    /\ verify' = verify + 1
    /\ at' = [at EXCEPT ![a] = "turn"]
    /\ UNCHANGED <<admit, from, verdict>>

TurnEnds(a, outcome) ==
    LET s == from[a]
        h == Record(s) IN
    /\ at[a] = "turn"
    /\ CASE outcome = "failed" ->
              /\ SourceLocked(s, FailedLocked(Entry(s)))
              /\ Remember(s, [wrong |-> h.wrong + 1, due |-> Ladder(h.wrong + 1),
                              open |-> IF Entry(s).failures + 1 < LockoutAfter
                                       THEN h.open ELSE h.open + 1])
         [] outcome = "succeeded" ->
              /\ SourceLocked(s, SucceededLocked(Entry(s)))
              /\ Remember(s, [h EXCEPT !.wrong = 0, !.due = 0])
         [] outcome = "neutral" -> UNCHANGED <<table, hist>>
    /\ verify' = verify - 1
    /\ at' = [at EXCEPT ![a] = "judged"]
    /\ verdict' = [verdict EXCEPT ![a] = outcome]
    /\ UNCHANGED <<admit, from>>

\* The handler returns and its deferred release runs.
Release(a) ==
    /\ at[a] = "judged"
    /\ at' = [at EXCEPT ![a] = "out"]
    /\ from' = [from EXCEPT ![a] = Nobody]
    /\ verdict' = [verdict EXCEPT ![a] = "none"]
    /\ admit' = admit - 1
    /\ UNCHANGED <<table, verify, hist>>

\* AllowSource for a logout, which never takes a slot.
ChargeOnly(s, lag) == Charge(s, lag) /\ UNCHANGED <<admit, verify, attempts>>

GateTick ==
    /\ sources' = [s \in DOMAIN sources |->
          [sources[s] EXCEPT !.since = Least(@ + 1, BucketCapacity + ClockLag),
                             !.lock = IF @ > 0 THEN @ - 1 ELSE @]]
    /\ hist' = [s \in Source |-> [hist[s] EXCEPT !.due = IF @ > 0 THEN @ - 1 ELSE 0]]
    /\ UNCHANGED <<lru, admit, verify, attempts>>

GateNext ==
    \/ \E a \in Attempt, s \in Source, lag \in 0 .. ClockLag : Arrive(a, s, lag)
    \/ \E s \in Source, lag \in 0 .. ClockLag : ChargeOnly(s, lag)
    \/ \E a \in Attempt :
          \/ TurnedAway(a) \/ Admit(a) \/ QueueExpires(a)
          \/ TurnLocked(a) \/ TurnBegins(a) \/ Release(a)
          \/ \E outcome \in {"neutral", "failed", "succeeded"} : TurnEnds(a, outcome)
    \/ GateTick

GateSpec == GateInit /\ [][GateNext]_gateVars

-----------------------------------------------------------------------------
(* Properties.                                                             *)

(* Both channels hold exactly what the attempts that took from them hold:  *)
(* a path of Verify or of the handler that forgot to give a slot back      *)
(* would shut the door for good after InFlight of them.                    *)
SlotsBalance ==
    /\ admit = Cardinality({a \in Attempt : at[a] \in {"queued", "turn", "judged"}})
    /\ verify = Cardinality({a \in Attempt : at[a] = "turn"})
    /\ admit <= InFlight /\ verify <= 1

(* However the attempts of one address queue behind one another, none of   *)
(* its passwords is judged, right or wrong, before the rung that its run   *)
(* of wrong ones had reached is over; only an evicted source starts again. *)
GuessesArePaced ==
    [][\A a \in Attempt :
          at[a] = "turn" /\ verdict'[a] \in {"failed", "succeeded"}
             => hist[from[a]].due = 0]_gateVars

(* A lockout is reported entered once and left at most once, in turn:      *)
(* no second "entered" without the "left" of the first, and no "left" of a *)
(* lockout nobody was told of.                                             *)
MilestonesPair == \A s \in Source : hist[s].open \in {0, 1}
=============================================================================
