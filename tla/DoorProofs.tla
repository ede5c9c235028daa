----------------------------- MODULE DoorProofs -----------------------------
(***************************************************************************)
(* Theorems about the gate and the door around it, for every value of      *)
(* their constants.  The gate's inductive invariant relates the entry of   *)
(* an address to the history of what the door owes it, and says that the   *)
(* lockout an attempt found clear when its turn began is clear until the   *)
(* turn ends.  The door implements the gate, and so keeps it; its own      *)
(* invariant is that no two copies of the credential, a session's among    *)
(* them, carry one date and different passwords.                           *)
(***************************************************************************)
EXTENDS DoorSession, FiniteSetTheorems, TLAPS

EntryType == [tokens : Int, since : Int, failures : Nat, lock : Int, announced : BOOLEAN]
DebtType  == [wrong : Nat, due : Nat, open : Int]

Holding == {a \in Attempt : at[a] \in {"queued", "turn", "judged"}}
Turning == {a \in Attempt : at[a] = "turn"}

Shapes ==
    /\ DOMAIN sources \subseteq Source
    /\ sources \in [DOMAIN sources -> EntryType]
    /\ admit \in Nat /\ verify \in Nat
    /\ at \in [Attempt -> Place]
    /\ from \in [Attempt -> Source \cup {Nobody}]
    /\ \A a \in Attempt : at[a] # "out" => from[a] \in Source
    /\ verdict \in [Attempt -> Verdict]
    /\ hist \in [Source -> DebtType]

Settled(e, h) ==
    /\ e.failures <= MaxFailures /\ h.wrong = e.failures
    /\ h.due > 0 => e.lock >= h.due
    /\ e.lock >= Unlocked
    /\ e.announced <=> e.lock >= 0
    /\ h.open = IF e.announced THEN 1 ELSE 0

Clear(e, h) == e.lock = Unlocked /\ h.due = 0 /\ e.failures < MaxFailures

Ledger ==
    /\ \A s \in Source : Settled(Entry(s), Record(s))
    /\ \A s \in Source \ DOMAIN sources : hist[s] = Unknown
    /\ \A a \in Attempt : at[a] = "turn" => Clear(Entry(from[a]), Record(from[a]))

GInv == Shapes /\ SlotsBalance /\ Ledger

-----------------------------------------------------------------------------
(* Sets that gain or lose one element.                                     *)

LEMMA OneMore ==
  ASSUME NEW S, IsFiniteSet(S), NEW x
  PROVE  /\ x \notin S => Cardinality(S \cup {x}) = Cardinality(S) + 1
         /\ x \in S => Cardinality(S \ {x}) = Cardinality(S) - 1
         /\ Cardinality(S) \in Nat
  BY FS_AddElement, FS_RemoveElement, FS_CardinalityType

LEMMA FiniteAttempts ==
  /\ IsFiniteSet(Holding) /\ Cardinality(Holding) \in Nat
  /\ IsFiniteSet(Turning) /\ Cardinality(Turning) \in Nat
<1>1. Holding \subseteq Attempt /\ Turning \subseteq Attempt
  BY DEF Holding, Turning
<1>2. IsFiniteSet(Attempt)
  BY GateAssumption
<1> QED
  BY <1>1, <1>2, FS_Subset, FS_CardinalityType

\* Who is in a turn, when verify says so.
LEMMA OneTurn ==
  ASSUME Shapes, SlotsBalance
  PROVE  /\ verify = 0 => \A a \in Attempt : at[a] # "turn"
         /\ \A a, b \in Attempt : at[a] = "turn" /\ at[b] = "turn" => a = b
<1>1. verify = Cardinality(Turning) /\ verify <= 1
  BY DEF SlotsBalance, Turning
<1>2. ASSUME NEW a \in Attempt, at[a] = "turn"
      PROVE  verify = 1 /\ \A b \in Attempt : at[b] = "turn" => a = b
  <2>1. a \in Turning
    BY <1>2 DEF Turning
  <2>2. Cardinality(Turning \ {a}) = Cardinality(Turning) - 1
    BY <2>1, FiniteAttempts, OneMore
  <2>3. IsFiniteSet(Turning \ {a}) /\ Cardinality(Turning \ {a}) \in Nat
    BY FiniteAttempts, FS_Subset, FS_CardinalityType
  <2>4. verify = 1 /\ Cardinality(Turning \ {a}) = 0
    BY <1>1, <2>2, <2>3, FiniteAttempts
  <2>5. Turning \ {a} = {}
    BY <2>3, <2>4, FS_EmptySet
  <2> QED
    BY <2>4, <2>5 DEF Turning
<1> QED
  BY <1>2

-----------------------------------------------------------------------------
(* What an update of one entry leaves of the table and the history.        *)

LEMMA FreshIsSettled ==
  /\ Fresh \in EntryType /\ Unknown \in DebtType
  /\ Settled(Fresh, Unknown)
  BY GateAssumption DEF Fresh, Unknown, EntryType, DebtType, Settled, Unlocked

LEMMA EntriesHaveTypes ==
  ASSUME Shapes, NEW s \in Source
  PROVE  Entry(s) \in EntryType /\ Record(s) \in DebtType
  BY FreshIsSettled DEF Shapes, Entry, Record

LEMMA Update ==
  ASSUME Shapes, NEW s \in Source, NEW e \in EntryType, NEW h \in DebtType,
         SourceLocked(s, e), Remember(s, h)
  PROVE  /\ DOMAIN sources' \subseteq Source
         /\ sources' \in [DOMAIN sources' -> EntryType]
         /\ hist' \in [Source -> DebtType]
         /\ Entry(s)' = e /\ Record(s)' = h
         /\ \A t \in Source \ {s} :
               \/ Entry(t)' = Entry(t) /\ Record(t)' = Record(t)
               \/ Entry(t)' = Fresh /\ Record(t)' = Unknown
         /\ \A t \in Source \ DOMAIN sources' : hist'[t] = Unknown
<1>1. Kept(s) \subseteq DOMAIN sources
  BY DEF Kept
<1>2. /\ DOMAIN sources' = Kept(s) \cup {s}
      /\ sources'[s] = e
      /\ \A t \in Kept(s) \ {s} : sources'[t] = sources[t]
      /\ sources' = [t \in DOMAIN sources' |-> sources'[t]]
  BY DEF SourceLocked
<1>3. /\ hist'[s] = h
      /\ \A t \in Source \ {s} : hist'[t] = IF t \in Kept(s) THEN hist[t] ELSE Unknown
      /\ hist' \in [Source -> DebtType]
  BY FreshIsSettled DEF Remember, Shapes
<1>4. sources' \in [DOMAIN sources' -> EntryType] /\ DOMAIN sources' \subseteq Source
  BY <1>1, <1>2 DEF Shapes
<1>5. ASSUME NEW t \in Source \ {s}
      PROVE  \/ Entry(t)' = Entry(t) /\ Record(t)' = Record(t)
             \/ Entry(t)' = Fresh /\ Record(t)' = Unknown
  <2>1. CASE t \in Kept(s)
    BY <1>1, <1>2, <1>3, <2>1 DEF Entry, Record
  <2>2. CASE t \notin Kept(s)
    BY <1>2, <1>3, <2>2 DEF Entry, Record, Fresh, Unknown
  <2> QED
    BY <2>1, <2>2
<1>6. Entry(s)' = e /\ Record(s)' = h
  BY <1>2, <1>3 DEF Entry, Record
<1>7. \A t \in Source \ DOMAIN sources' : hist'[t] = Unknown
  BY <1>2, <1>3
<1> QED
  BY <1>3, <1>4, <1>5, <1>6, <1>7

\* Clearing a turn against an update of any address but its own.
LEMMA LedgerUpdate ==
  ASSUME Shapes, Ledger, NEW s \in Source, NEW e \in EntryType, NEW h \in DebtType,
         SourceLocked(s, e), Remember(s, h), Settled(e, h),
         \A a \in Attempt : at'[a] = "turn" =>
            /\ from'[a] = from[a] /\ at[a] # "out"
            /\ from[a] = s => Clear(e, h)
            /\ from[a] # s => at[a] = "turn"
  PROVE  Ledger'
<1>1. ASSUME NEW t \in Source
      PROVE  Settled(Entry(t), Record(t))'
  <2>1. CASE t = s
    BY <2>1, Update DEF Settled
  <2>2. CASE t # s
    BY <2>2, Update, FreshIsSettled DEF Settled, Ledger
  <2> QED
    BY <2>1, <2>2
<1>2. \A t \in Source \ DOMAIN sources' : hist'[t] = Unknown
  BY Update
<1>3. ASSUME NEW a \in Attempt, at'[a] = "turn"
      PROVE  Clear(Entry(from[a]), Record(from[a]))'
  <2>0. from'[a] = from[a]
    BY <1>3
  <2>1. from[a] \in Source
    BY <1>3 DEF Shapes
  <2>2. CASE from[a] = s
    BY <1>3, <2>0, <2>2, Update DEF Clear
  <2>3. CASE from[a] # s
    <3>1. Clear(Entry(from[a]), Record(from[a]))
      BY <1>3, <2>3 DEF Ledger
    <3>2. CASE Entry(from[a])' = Entry(from[a]) /\ Record(from[a])' = Record(from[a])
      BY <3>1, <3>2 DEF Clear
    <3>3. CASE Entry(from[a])' = Fresh /\ Record(from[a])' = Unknown
      <4>1. Entry(from[a]) \in EntryType
        BY <2>1, EntriesHaveTypes
      <4>2. Entry(from[a]).failures \in Nat
        BY <4>1 DEF EntryType
      <4>3. 0 < MaxFailures
        BY <3>1, <4>2, GateAssumption DEF Clear
      <4> QED
        BY <3>3, <4>3 DEF Clear, Fresh, Unknown
    <3> QED
      BY <2>0, <2>1, <2>3, <3>2, <3>3, Update DEF Entry, Record
  <2> QED
    BY <2>2, <2>3
<1> QED
  BY <1>1, <1>2, <1>3 DEF Ledger

-----------------------------------------------------------------------------
(* The slots.                                                              *)

In(x, S) == IF x \in S THEN 1 ELSE 0
HoldPlaces == {"queued", "turn", "judged"}

LEMMA CountMove ==
  ASSUME NEW S, IsFiniteSet(S), NEW x, NEW T, T = S \cup {x} \/ T = S \ {x}
  PROVE  Cardinality(T) = Cardinality(S) + In(x, T) - In(x, S)
<1>1. Cardinality(S) \in Nat
  BY FS_CardinalityType
<1>2. CASE T = S \cup {x}
  BY <1>1, <1>2, FS_AddElement DEF In
<1>3. CASE T = S \ {x}
  BY <1>1, <1>3, FS_RemoveElement DEF In
<1> QED
  BY <1>2, <1>3

LEMMA Moves ==
  ASSUME Shapes, NEW a \in Attempt, NEW p \in Place, at' = [at EXCEPT ![a] = p]
  PROVE  /\ Cardinality(Holding') = Cardinality(Holding) + In(p, HoldPlaces) - In(at[a], HoldPlaces)
         /\ Cardinality(Turning') = Cardinality(Turning) + In(p, {"turn"}) - In(at[a], {"turn"})
<1>1. /\ Holding' = IF p \in HoldPlaces THEN Holding \cup {a} ELSE Holding \ {a}
      /\ a \in Holding <=> at[a] \in HoldPlaces
  BY DEF Holding, HoldPlaces, Shapes
<1>2. /\ Turning' = IF p = "turn" THEN Turning \cup {a} ELSE Turning \ {a}
      /\ a \in Turning <=> at[a] = "turn"
  BY DEF Turning, Shapes
<1>3. Cardinality(Holding') = Cardinality(Holding) + In(a, Holding') - In(a, Holding)
  BY <1>1, FiniteAttempts, CountMove
<1>4. Cardinality(Turning') = Cardinality(Turning) + In(a, Turning') - In(a, Turning)
  BY <1>2, FiniteAttempts, CountMove
<1>5. /\ In(a, Holding') = In(p, HoldPlaces) /\ In(a, Holding) = In(at[a], HoldPlaces)
      /\ In(a, Turning') = In(p, {"turn"}) /\ In(a, Turning) = In(at[a], {"turn"})
  BY <1>1, <1>2 DEF In
<1> QED
  BY <1>3, <1>4, <1>5

LEMMA SlotsMove ==
  ASSUME Shapes, SlotsBalance, NEW a \in Attempt, NEW p \in Place,
         at' = [at EXCEPT ![a] = p],
         admit' = admit + In(p, HoldPlaces) - In(at[a], HoldPlaces), admit' <= InFlight,
         verify' = verify + In(p, {"turn"}) - In(at[a], {"turn"}), verify' <= 1
  PROVE  SlotsBalance' /\ admit' \in Nat /\ verify' \in Nat
<1>1. admit' = Cardinality(Holding') /\ verify' = Cardinality(Turning')
  BY Moves DEF SlotsBalance, Holding, Turning
<1>2. Holding' \subseteq Attempt /\ Turning' \subseteq Attempt
  BY DEF Holding, Turning
<1>3. Cardinality(Holding') \in Nat /\ Cardinality(Turning') \in Nat
  BY <1>2, GateAssumption, FS_Subset, FS_CardinalityType
<1> QED
  BY <1>1, <1>3 DEF SlotsBalance, Holding, Turning

-----------------------------------------------------------------------------
(* Each action keeps the invariant.                                        *)

LEMMA ChargeUpdates ==
  ASSUME Shapes, Ledger, NEW s \in Source, NEW lag \in 0 .. ClockLag, Charge(s, lag)
  PROVE  \E e \in EntryType :
            /\ SourceLocked(s, e) /\ Remember(s, Record(s))
            /\ e.failures = Entry(s).failures /\ e.lock = Entry(s).lock
            /\ e.announced = Entry(s).announced
            /\ Settled(e, Record(s))
<1>1. Entry(s) \in EntryType
  BY EntriesHaveTypes
<1>2. Level(Entry(s), lag) \in Int
  BY <1>1, GateAssumption DEF Level, Least, EntryType
<1> DEFINE n == Level(Entry(s), lag)
           k == IF n < 1 THEN n ELSE n - 1
           x == Entry(s)
           e == [x EXCEPT !.tokens = k, !.since = lag]
<1>3. k \in Int /\ lag \in Int /\ x \in EntryType
  BY <1>1, <1>2, GateAssumption
<1>4. /\ e \in EntryType
      /\ e.failures = x.failures /\ e.lock = x.lock /\ e.announced = x.announced
  <2> HIDE DEF k, x
  <2> QED
    BY <1>3 DEF EntryType
<1>5. Settled(e, Record(s))
  <2>1. Settled(Entry(s), Record(s))
    BY DEF Ledger
  <2> QED
    BY <1>4, <2>1 DEF Settled
<1>6. SourceLocked(s, e) /\ Remember(s, Record(s))
  BY DEF Charge
<1> QED
  BY <1>4, <1>5, <1>6

\* An entry with three of its fields written, spelled out.
Entered(x, k, l, b) ==
  [tokens |-> x.tokens, since |-> x.since, failures |-> k, lock |-> l, announced |-> b]

LEMMA EnteredFields ==
  ASSUME NEW x \in EntryType, NEW k \in Nat, NEW l \in Int, NEW b \in BOOLEAN
  PROVE  /\ Entered(x, k, l, b) \in EntryType
         /\ Entered(x, k, l, b).failures = k
         /\ Entered(x, k, l, b).lock = l
         /\ Entered(x, k, l, b).announced = b
  BY DEF Entered, EntryType

LEMMA EnteredBy ==
  ASSUME NEW x \in EntryType, NEW l \in Int, NEW b \in BOOLEAN
  PROVE  /\ [x EXCEPT !.lock = l, !.announced = b] = Entered(x, x.failures, l, b)
         /\ [x EXCEPT !.failures = 0, !.lock = l, !.announced = b] = Entered(x, 0, l, b)
<1>1. ASSUME NEW e, e = [x EXCEPT !.lock = l, !.announced = b]
      PROVE  e = Entered(x, x.failures, l, b)
  BY <1>1 DEF EntryType, Entered
<1>2. ASSUME NEW e, NEW k \in Nat, e = [x EXCEPT !.failures = k, !.lock = l, !.announced = b]
      PROVE  e = Entered(x, k, l, b)
  BY <1>2 DEF EntryType, Entered
<1> QED
  BY <1>1, <1>2

LEMMA UnlockedIs ==
  \E l \in Int, b \in BOOLEAN : l = Unlocked /\ b = FALSE
<1>1. Unlocked \in Int
  BY DEF Unlocked
<1>2. FALSE \in BOOLEAN
  OBVIOUS
<1> QED
  BY <1>1, <1>2, Zenon

\* The entry a turn leaves when it finds the lockout over.
LEMMA Opened ==
  ASSUME NEW x \in EntryType, NEW g \in DebtType, Settled(x, g),
         ~ Locked(x), x.failures < MaxFailures
  PROVE  LET e == LockedAt(x)
             h == [g EXCEPT !.open = IF Left(x) THEN @ - 1 ELSE @]
         IN  e \in EntryType /\ h \in DebtType /\ Settled(e, h) /\ Clear(e, h)
<1>1. x.lock = 0 \/ x.lock = Unlocked
  BY DEF Locked, Settled, Unlocked, EntryType
<1>2. g.due = 0
  BY <1>1 DEF Settled, DebtType, EntryType, Unlocked
<1>3. CASE x.lock = 0
  <2> DEFINE e == [x EXCEPT !.lock = Unlocked, !.announced = FALSE]
             h == [g EXCEPT !.open = @ - 1]
  <2>1. x.announced /\ g.open = 1
    BY <1>3 DEF Settled
  <2>2. LockedAt(x) = e /\ Left(x)
    BY <1>3, <2>1 DEF LockedAt, Left
  <2>3. /\ e \in EntryType
        /\ e.lock = Unlocked /\ e.announced = FALSE /\ e.failures = x.failures
    <3>1. PICK l \in Int, b \in BOOLEAN : l = Unlocked /\ b = FALSE
      BY UnlockedIs
    <3>2. e = [x EXCEPT !.lock = l, !.announced = b] /\ x.failures \in Nat
      BY <3>1 DEF EntryType
    <3>3. [x EXCEPT !.lock = l, !.announced = b] = Entered(x, x.failures, l, b)
      BY EnteredBy, ZenonT(60)
    <3> HIDE DEF e
    <3>4. e = Entered(x, x.failures, l, b)
      BY <3>2, <3>3, Zenon
    <3>5. e \in EntryType /\ e.failures = x.failures /\ e.lock = l /\ e.announced = b
      BY <3>2, <3>4, EnteredFields
    <3> QED
      BY <3>1, <3>5, Zenon
  <2>4. h \in DebtType /\ h.open = 0 /\ h.due = g.due /\ h.wrong = g.wrong
    BY <2>1 DEF DebtType
  <2>5. Settled(e, h) /\ Clear(e, h)
    BY <1>2, <2>3, <2>4 DEF Settled, Clear, Unlocked
  <2> QED
    BY <2>2, <2>3, <2>4, <2>5
<1>4. CASE x.lock = Unlocked
  BY <1>2, <1>4 DEF LockedAt, Left, Settled, Clear, EntryType, DebtType, Unlocked
<1> QED
  BY <1>1, <1>3, <1>4

LEMMA ArriveStep ==
  ASSUME GInv, NEW a \in Attempt, NEW s \in Source, NEW lag \in 0 .. ClockLag,
         Arrive(a, s, lag)
  PROVE  GInv'
<1>1. PICK e \in EntryType :
            /\ SourceLocked(s, e) /\ Remember(s, Record(s))
            /\ e.failures = Entry(s).failures /\ e.lock = Entry(s).lock
            /\ Settled(e, Record(s))
  BY ChargeUpdates DEF GInv, Arrive
<1>2. Record(s) \in DebtType
  BY EntriesHaveTypes DEF GInv
<1>3. \A b \in Attempt : at'[b] = "turn" => at[b] = "turn" /\ from'[b] = from[b]
  BY DEF Arrive, GInv, Shapes
<1>4. /\ DOMAIN sources' \subseteq Source
      /\ sources' \in [DOMAIN sources' -> EntryType]
      /\ hist' \in [Source -> DebtType]
  BY <1>1, <1>2, Update DEF GInv
<1>5. Shapes'
  BY <1>4 DEF GInv, Shapes, Arrive, Place
<1>6. SlotsBalance'
  <2>1. CASE Allowed(s, lag)
    <3>1. at' = [at EXCEPT ![a] = "charged"] /\ admit' = admit /\ verify' = verify /\ at[a] = "out"
      BY <2>1 DEF Arrive
    <3> QED
      BY <3>1, SlotsMove DEF GInv, Shapes, SlotsBalance, Place, In, HoldPlaces
  <2>2. CASE ~ Allowed(s, lag)
    BY <2>2 DEF GInv, Arrive, SlotsBalance
  <2> QED
    BY <2>1, <2>2
<1>7. Ledger'
  <2>1. \A b \in Attempt : at[b] = "turn" /\ from[b] = s => Clear(e, Record(s))
    BY <1>1 DEF GInv, Ledger, Clear
  <2> QED
    BY <1>1, <1>2, <1>3, <2>1, LedgerUpdate DEF GInv
<1> QED
  BY <1>5, <1>6, <1>7 DEF GInv

LEMMA ChargeOnlyStep ==
  ASSUME GInv, NEW s \in Source, NEW lag \in 0 .. ClockLag, ChargeOnly(s, lag)
  PROVE  GInv'
<1>1. PICK e \in EntryType :
            /\ SourceLocked(s, e) /\ Remember(s, Record(s))
            /\ e.failures = Entry(s).failures /\ e.lock = Entry(s).lock
            /\ Settled(e, Record(s))
  BY ChargeUpdates DEF GInv, ChargeOnly
<1>2. Record(s) \in DebtType
  BY EntriesHaveTypes DEF GInv
<1>3. /\ DOMAIN sources' \subseteq Source
      /\ sources' \in [DOMAIN sources' -> EntryType]
      /\ hist' \in [Source -> DebtType]
  BY <1>1, <1>2, Update DEF GInv
<1>4. Shapes' /\ SlotsBalance'
  BY <1>3 DEF GInv, Shapes, ChargeOnly, attempts, SlotsBalance
<1>5. Ledger'
  <2>1. \A b \in Attempt : at'[b] = "turn" =>
            /\ from'[b] = from[b] /\ at[b] = "turn"
            /\ from[b] = s => Clear(e, Record(s))
    BY <1>1 DEF GInv, Ledger, Clear, ChargeOnly, attempts
  <2> QED
    BY <1>1, <1>2, <2>1, LedgerUpdate DEF GInv
<1> QED
  BY <1>4, <1>5 DEF GInv

\* A step of one attempt that leaves the table alone and begins no turn.
LEMMA QuietMove ==
  ASSUME GInv, NEW a \in Attempt, NEW p \in Place \ {"turn"},
         sources' = sources, hist' = hist,
         at' = [at EXCEPT ![a] = p],
         from' \in [Attempt -> Source \cup {Nobody}],
         \A b \in Attempt : at'[b] # "out" => from'[b] = from[b] /\ at[b] # "out",
         verdict' \in [Attempt -> Verdict],
         admit' = admit + In(p, HoldPlaces) - In(at[a], HoldPlaces), admit' <= InFlight,
         verify' = verify - In(at[a], {"turn"})
  PROVE  GInv'
<1>1. SlotsBalance' /\ admit' \in Nat /\ verify' \in Nat
  <2>1. verify' = verify + In(p, {"turn"}) - In(at[a], {"turn"}) /\ verify' <= 1
    BY DEF GInv, Shapes, SlotsBalance, In
  <2> QED
    BY <2>1, SlotsMove DEF GInv
<1>2. Shapes'
  BY <1>1 DEF GInv, Shapes, EntryType
<1>3. \A s \in Source : Entry(s)' = Entry(s) /\ Record(s)' = Record(s)
  BY DEF Entry, Record
<1>4. \A b \in Attempt : at'[b] = "turn" => at[b] = "turn" /\ from'[b] = from[b]
  BY DEF GInv, Shapes
<1>5. Ledger'
  <2>1. ASSUME NEW s \in Source
        PROVE  Settled(Entry(s), Record(s))'
    BY <1>3 DEF GInv, Ledger, Settled
  <2>2. ASSUME NEW b \in Attempt, at'[b] = "turn"
        PROVE  Clear(Entry(from[b]), Record(from[b]))'
    BY <1>4, <2>2 DEF GInv, Ledger, Clear, Entry, Record
  <2> QED
    BY <2>1, <2>2 DEF GInv, Ledger
<1> QED
  BY <1>1, <1>2, <1>5 DEF GInv

LEMMA QuietSteps ==
  ASSUME GInv, NEW a \in Attempt,
         TurnedAway(a) \/ Admit(a) \/ QueueExpires(a) \/ Release(a)
  PROVE  GInv'
<1>0. /\ admit \in Nat /\ verify \in Nat /\ InFlight \in Nat
      /\ admit <= InFlight /\ (admit < InFlight => admit + 1 <= InFlight)
  BY GateAssumption DEF GInv, Shapes, SlotsBalance
<1>1. CASE TurnedAway(a)
  <2>1. /\ sources' = sources /\ hist' = hist
        /\ at' = [at EXCEPT ![a] = "out"]
        /\ at[a] = "charged"
    BY <1>1 DEF TurnedAway, table
  <2>2. /\ from' \in [Attempt -> Source \cup {Nobody}]
        /\ \A b \in Attempt : at'[b] # "out" => from'[b] = from[b] /\ at[b] # "out"
        /\ verdict' \in [Attempt -> Verdict]
    BY <1>1 DEF TurnedAway, GInv, Shapes, Verdict
  <2>3. /\ admit' = admit + In("out", HoldPlaces) - In("charged", HoldPlaces) /\ admit' <= InFlight
        /\ verify' = verify - In("charged", {"turn"})
    BY <1>1, <1>0 DEF TurnedAway, In, HoldPlaces
  <2> QED
    BY <2>1, <2>2, <2>3, QuietMove DEF Place
<1>2. CASE Admit(a)
  <2>1. /\ sources' = sources /\ hist' = hist
        /\ at' = [at EXCEPT ![a] = "queued"]
        /\ at[a] = "charged"
    BY <1>2 DEF Admit, table
  <2>2. /\ from' \in [Attempt -> Source \cup {Nobody}]
        /\ \A b \in Attempt : at'[b] # "out" => from'[b] = from[b] /\ at[b] # "out"
        /\ verdict' \in [Attempt -> Verdict]
    BY <1>2 DEF Admit, GInv, Shapes, Verdict
  <2>3. /\ admit' = admit + In("queued", HoldPlaces) - In("charged", HoldPlaces) /\ admit' <= InFlight
        /\ verify' = verify - In("charged", {"turn"})
    BY <1>2, <1>0 DEF Admit, In, HoldPlaces
  <2> QED
    BY <2>1, <2>2, <2>3, QuietMove DEF Place
<1>3. CASE QueueExpires(a)
  <2>1. /\ sources' = sources /\ hist' = hist
        /\ at' = [at EXCEPT ![a] = "judged"]
        /\ at[a] = "queued"
    BY <1>3 DEF QueueExpires, table
  <2>2. /\ from' \in [Attempt -> Source \cup {Nobody}]
        /\ \A b \in Attempt : at'[b] # "out" => from'[b] = from[b] /\ at[b] # "out"
        /\ verdict' \in [Attempt -> Verdict]
    BY <1>3 DEF QueueExpires, GInv, Shapes, Verdict
  <2>3. /\ admit' = admit + In("judged", HoldPlaces) - In("queued", HoldPlaces) /\ admit' <= InFlight
        /\ verify' = verify - In("queued", {"turn"})
    BY <1>3, <1>0 DEF QueueExpires, In, HoldPlaces
  <2> QED
    BY <2>1, <2>2, <2>3, QuietMove DEF Place
<1>4. CASE Release(a)
  <2>1. /\ sources' = sources /\ hist' = hist
        /\ at' = [at EXCEPT ![a] = "out"]
        /\ at[a] = "judged"
    BY <1>4 DEF Release, table
  <2>2. /\ from' \in [Attempt -> Source \cup {Nobody}]
        /\ \A b \in Attempt : at'[b] # "out" => from'[b] = from[b] /\ at[b] # "out"
        /\ verdict' \in [Attempt -> Verdict]
    BY <1>4 DEF Release, GInv, Shapes, Verdict
  <2>3. /\ admit' = admit + In("out", HoldPlaces) - In("judged", HoldPlaces) /\ admit' <= InFlight
        /\ verify' = verify - In("judged", {"turn"})
    BY <1>4, <1>0 DEF Release, In, HoldPlaces
  <2> QED
    BY <2>1, <2>2, <2>3, QuietMove DEF Place
<1> QED
  BY <1>1, <1>2, <1>3, <1>4

LEMMA TurnLockedStep ==
  ASSUME GInv, NEW a \in Attempt, TurnLocked(a)
  PROVE  GInv'
<1> DEFINE s == from[a]
<1>1. s \in Source /\ at[a] = "queued"
  BY DEF GInv, Shapes, TurnLocked
<1>2. /\ Entry(s) \in EntryType /\ Record(s) \in DebtType
      /\ Settled(Entry(s), Record(s))
  BY <1>1, EntriesHaveTypes DEF GInv, Ledger
<1>3. SourceLocked(s, Entry(s)) /\ Remember(s, Record(s))
  BY DEF TurnLocked
<1>4. /\ DOMAIN sources' \subseteq Source
      /\ sources' \in [DOMAIN sources' -> EntryType]
      /\ hist' \in [Source -> DebtType]
  BY <1>1, <1>2, <1>3, Update DEF GInv
<1>5. at' = [at EXCEPT ![a] = "judged"] /\ admit' = admit /\ verify' = verify /\ from' = from
  BY DEF TurnLocked
<1>6. SlotsBalance' /\ admit' \in Nat /\ verify' \in Nat
  BY <1>1, <1>5, SlotsMove DEF GInv, Shapes, SlotsBalance, In, HoldPlaces, Place
<1>7. Shapes'
  BY <1>1, <1>4, <1>5, <1>6 DEF GInv, Shapes, TurnLocked, Place, Verdict
<1>8. Ledger'
  <2>1. \A b \in Attempt : at[b] # "turn"
    BY OneTurn DEF GInv, TurnLocked
  <2>2. \A b \in Attempt : at'[b] # "turn"
    BY <1>5, <2>1 DEF GInv, Shapes
  <2> QED
    BY <1>1, <1>2, <1>3, <2>2, LedgerUpdate DEF GInv
<1> QED
  BY <1>6, <1>7, <1>8 DEF GInv

LEMMA TurnBeginsStep ==
  ASSUME GInv, NEW a \in Attempt, TurnBegins(a)
  PROVE  GInv'
<1> DEFINE s == from[a]
           e == LockedAt(Entry(s))
           h == [Record(s) EXCEPT !.open = IF Left(Entry(s)) THEN @ - 1 ELSE @]
<1>1. s \in Source /\ at[a] = "queued" /\ verify = 0 /\ a \in Attempt
  BY DEF GInv, Shapes, TurnBegins
<1>2. /\ Entry(s) \in EntryType /\ Record(s) \in DebtType
      /\ Settled(Entry(s), Record(s))
      /\ ~ Locked(Entry(s)) /\ Entry(s).failures < MaxFailures
  BY <1>1, EntriesHaveTypes DEF GInv, Ledger, TurnBegins
<1>3. SourceLocked(s, e) /\ Remember(s, h)
  BY DEF TurnBegins
<1>4. e \in EntryType /\ h \in DebtType /\ Settled(e, h) /\ Clear(e, h)
  <2> HIDE DEF s
  <2> QED
    BY <1>2, Opened
<1>5. /\ DOMAIN sources' \subseteq Source
      /\ sources' \in [DOMAIN sources' -> EntryType]
      /\ hist' \in [Source -> DebtType]
  BY <1>1, <1>3, <1>4, Update DEF GInv
<1>6. at' = [at EXCEPT ![a] = "turn"] /\ admit' = admit /\ verify' = 1 /\ from' = from
  BY <1>1 DEF TurnBegins
<1>7. SlotsBalance' /\ admit' \in Nat /\ verify' \in Nat
  <2>1. /\ admit' = admit + In("turn", HoldPlaces) - In(at[a], HoldPlaces) /\ admit' <= InFlight
        /\ verify' = verify + In("turn", {"turn"}) - In(at[a], {"turn"}) /\ verify' <= 1
    BY <1>1, <1>6 DEF GInv, Shapes, SlotsBalance, In, HoldPlaces
  <2> QED
    BY <1>6, <2>1, SlotsMove DEF GInv, Place
<1>8. Shapes'
  BY <1>1, <1>5, <1>6, <1>7 DEF GInv, Shapes, TurnBegins, Place, Verdict
<1>9. Ledger'
  <2>1. \A b \in Attempt : at[b] # "turn"
    BY <1>1, OneTurn DEF GInv
  <2>2. \A b \in Attempt : at'[b] = "turn" => b = a
    BY <1>6, <2>1 DEF GInv, Shapes
  <2> QED
    BY <1>1, <1>3, <1>4, <1>6, <2>2, LedgerUpdate DEF GInv
<1> QED
  BY <1>7, <1>8, <1>9 DEF GInv

LEMMA RungIsInt ==
  ASSUME NEW k \in LockoutAfter .. MaxFailures
  PROVE  Rung(k) \in Int
<1>1. LockoutBase * 2 ^ (k - LockoutAfter) \in Int
  BY GateAssumption
<1> QED
  BY <1>1, GateAssumption DEF Rung, Shifted

\* What a wrong password makes of an entry found clear.
LEMMA Failed ==
  ASSUME NEW x \in EntryType, NEW g \in DebtType, Settled(x, g), Clear(x, g),
         NEW h, h = [wrong |-> g.wrong + 1, due |-> Ladder(g.wrong + 1),
                     open |-> IF x.failures + 1 < LockoutAfter THEN g.open ELSE g.open + 1]
  PROVE  FailedLocked(x) \in EntryType /\ h \in DebtType /\ Settled(FailedLocked(x), h)
<1>1. /\ x.failures \in Nat /\ x.failures + 1 <= MaxFailures
      /\ g.wrong = x.failures /\ g.due = 0 /\ g.open = 0
      /\ x.lock = Unlocked /\ x.announced = FALSE
  BY GateAssumption DEF EntryType, Settled, Clear, Unlocked
<1>2. CASE x.failures + 1 < LockoutAfter
  <2>1. FailedLocked(x) = [x EXCEPT !.failures = x.failures + 1]
    BY <1>2 DEF FailedLocked
  <2>2. Ladder(x.failures + 1) = 0
    BY <1>2 DEF Ladder
  <2>3. /\ FailedLocked(x) \in EntryType
        /\ FailedLocked(x).failures = x.failures + 1
        /\ FailedLocked(x).lock = Unlocked /\ FailedLocked(x).announced = FALSE
    BY <1>1, <2>1 DEF EntryType
  <2>4. h \in DebtType /\ h.wrong = x.failures + 1 /\ h.due = 0 /\ h.open = 0
    BY <1>1, <1>2, <2>2 DEF DebtType
  <2> QED
    BY <1>1, <2>3, <2>4 DEF Settled, Unlocked
<1>3. CASE ~ (x.failures + 1 < LockoutAfter)
  <2> DEFINE k == x.failures + 1
  <2>1. k \in LockoutAfter .. MaxFailures /\ LockoutAfter \in Nat /\ LockoutCap \in Nat
    BY <1>1, <1>3, GateAssumption
  <2>2. Ladder(k) \in 1 .. LockoutCap /\ Rung(k) >= Ladder(k)
    BY <2>1, RungAssumption
  <2>3. Rung(k) \in Int
    BY <2>1, RungIsInt
  <2>4. Rung(k) > 0
    BY <2>2, <2>3, <2>1
  <2>5. FailedLocked(x) = [x EXCEPT !.failures = k, !.announced = TRUE, !.lock = Rung(k)]
    BY <1>3, <2>4 DEF FailedLocked
  <2>6. /\ FailedLocked(x) \in EntryType
        /\ FailedLocked(x).failures = k
        /\ FailedLocked(x).lock = Rung(k) /\ FailedLocked(x).announced = TRUE
    <3>1. PICK l \in Int, b \in BOOLEAN : l = Rung(k) /\ b = TRUE
      BY <2>3
    <3>2. FailedLocked(x) = [x EXCEPT !.failures = k, !.announced = b, !.lock = l] /\ k \in Nat
      BY <1>1, <2>5, <3>1
    <3> HIDE DEF k
    <3>3. [x EXCEPT !.failures = k, !.announced = b, !.lock = l] = Entered(x, k, l, b)
      BY <3>2 DEF EntryType, Entered
    <3>4. FailedLocked(x) = Entered(x, k, l, b)
      BY <3>2, <3>3, Zenon
    <3>5. /\ FailedLocked(x) \in EntryType /\ FailedLocked(x).failures = k
          /\ FailedLocked(x).lock = l /\ FailedLocked(x).announced = b
      BY <3>2, <3>4, EnteredFields
    <3> QED
      BY <3>1, <3>5, Zenon
  <2>7. h \in DebtType /\ h.wrong = k /\ h.due = Ladder(k) /\ h.open = 1
    BY <1>1, <1>3, <2>1, <2>2 DEF DebtType
  <2> HIDE DEF k
  <2>8. k <= MaxFailures
    BY <1>1, <2>1, GateAssumption
  <2> QED
    BY <2>2, <2>3, <2>4, <2>6, <2>7, <2>8, <2>1 DEF Settled, Unlocked
<1> QED
  BY <1>2, <1>3

FailedEarly(x) == x.failures + 1 < LockoutAfter

LEMMA TurnEndsStep ==
  ASSUME GInv, NEW a \in Attempt, NEW outcome \in {"neutral", "failed", "succeeded"},
         TurnEnds(a, outcome)
  PROVE  GInv' /\ hist[from[a]].due = 0
<1> DEFINE s == from[a]
           x == Entry(s)
           g == Record(s)
<1>1. s \in Source /\ at[a] = "turn"
  BY DEF GInv, Shapes, TurnEnds
<1>2. x \in EntryType /\ g \in DebtType /\ Settled(x, g) /\ Clear(x, g)
  BY <1>1, EntriesHaveTypes DEF GInv, Ledger
<1>3. at' = [at EXCEPT ![a] = "judged"] /\ admit' = admit /\ verify' = verify - 1 /\ from' = from
  BY DEF TurnEnds
<1>4. SlotsBalance' /\ admit' \in Nat /\ verify' \in Nat
  <2>1. /\ admit' = admit + In("judged", HoldPlaces) - In(at[a], HoldPlaces) /\ admit' <= InFlight
        /\ verify' = verify + In("judged", {"turn"}) - In(at[a], {"turn"}) /\ verify' <= 1
    BY <1>1, <1>3 DEF GInv, Shapes, SlotsBalance, In, HoldPlaces
  <2> QED
    BY <1>3, <2>1, SlotsMove DEF GInv, Place
<1>5. \A b \in Attempt : at'[b] # "turn"
  <2>1. \A b \in Attempt : at[b] = "turn" => b = a
    BY <1>1, OneTurn DEF GInv
  <2> QED
    BY <1>3, <2>1 DEF GInv, Shapes
<1>6. hist[s].due = 0
  BY <1>1, <1>2 DEF Clear, Record, GInv, Ledger, Unknown
<1>7. CASE outcome = "neutral"
  <2>1. sources' = sources /\ hist' = hist
    BY <1>7 DEF TurnEnds, table
  <2>2. Shapes'
    BY <1>1, <1>3, <1>4, <1>7, <2>1 DEF GInv, Shapes, TurnEnds, Place, Verdict
  <2>3. Ledger'
    BY <1>5, <2>1 DEF GInv, Ledger, Settled, Entry, Record
  <2> QED
    BY <1>4, <1>6, <2>2, <2>3 DEF GInv
<1>8. CASE outcome # "neutral"
  <2>1. PICK e \in EntryType, h \in DebtType :
           SourceLocked(s, e) /\ Remember(s, h) /\ Settled(e, h)
    <3>1. CASE outcome = "failed"
      <4> DEFINE h == [wrong |-> g.wrong + 1, due |-> Ladder(g.wrong + 1),
                       open |-> IF FailedEarly(x) THEN g.open ELSE g.open + 1]
      <4>1. SourceLocked(s, FailedLocked(x)) /\ Remember(s, h)
        BY <3>1 DEF TurnEnds, FailedEarly
      <4>2. FailedLocked(x) \in EntryType /\ h \in DebtType /\ Settled(FailedLocked(x), h)
        <5> HIDE DEF x, g
        <5> QED
          BY <1>2, Failed DEF FailedEarly
      <4> QED
        BY <4>1, <4>2
    <3>2. CASE outcome = "succeeded"
      <4> DEFINE e == SucceededLocked(x)
                 h == [g EXCEPT !.wrong = 0, !.due = 0]
      <4>1. SourceLocked(s, e) /\ Remember(s, h)
        BY <3>2 DEF TurnEnds
      <4>2. e \in EntryType /\ h \in DebtType /\ Settled(e, h)
        <5> HIDE DEF x, g
        <5>1. /\ e \in EntryType /\ e.failures = 0
              /\ e.lock = Unlocked /\ e.announced = FALSE
          <6>1. PICK l \in Int, b \in BOOLEAN : l = Unlocked /\ b = FALSE
            BY UnlockedIs
          <6>2. e = [x EXCEPT !.failures = 0, !.lock = l, !.announced = b] /\ 0 \in Nat
            BY <6>1 DEF SucceededLocked
          <6> HIDE DEF e
          <6>3. [x EXCEPT !.failures = 0, !.lock = l, !.announced = b] = Entered(x, 0, l, b)
            BY <1>2, EnteredBy, ZenonT(60)
          <6>4. e = Entered(x, 0, l, b)
            BY <6>2, <6>3, Zenon
          <6>5. e \in EntryType /\ e.failures = 0 /\ e.lock = l /\ e.announced = b
            BY <1>2, <6>2, <6>4, EnteredFields
          <6> QED
            BY <6>1, <6>5, Zenon
        <5>2. h \in DebtType /\ h.wrong = 0 /\ h.due = 0 /\ h.open = g.open
          BY <1>2 DEF DebtType
        <5>3. g.open = 0
          BY <1>2 DEF Settled, Clear, Unlocked, EntryType
        <5> QED
          BY <5>1, <5>2, <5>3, GateAssumption DEF Settled, Unlocked
      <4> QED
        BY <4>1, <4>2
    <3> QED
      BY <1>8, <3>1, <3>2
  <2>2. /\ DOMAIN sources' \subseteq Source
        /\ sources' \in [DOMAIN sources' -> EntryType]
        /\ hist' \in [Source -> DebtType]
    BY <1>1, <2>1, Update DEF GInv
  <2>3. Shapes'
    BY <1>1, <1>3, <1>4, <2>2 DEF GInv, Shapes, TurnEnds, Place, Verdict
  <2>4. Ledger'
    BY <1>1, <1>5, <2>1, LedgerUpdate DEF GInv
  <2> QED
    BY <1>4, <1>6, <2>3, <2>4 DEF GInv
<1> QED
  BY <1>7, <1>8

LEMMA TickStep ==
  ASSUME GInv, GateTick
  PROVE  GInv'
<1>1. /\ DOMAIN sources' = DOMAIN sources
      /\ sources' = [s \in DOMAIN sources |-> sources'[s]]
      /\ \A s \in DOMAIN sources : sources'[s] =
            [sources[s] EXCEPT !.since = Least(@ + 1, BucketCapacity + ClockLag),
                               !.lock = IF @ > 0 THEN @ - 1 ELSE @]
  BY DEF GateTick
<1>2. /\ hist' = [s \in Source |-> hist'[s]]
      /\ \A s \in Source : hist'[s] = [hist[s] EXCEPT !.due = IF @ > 0 THEN @ - 1 ELSE 0]
  BY DEF GateTick
<1>3. ASSUME NEW s \in DOMAIN sources
      PROVE  /\ sources'[s] \in EntryType
             /\ sources'[s].failures = sources[s].failures
             /\ sources'[s].announced = sources[s].announced
             /\ sources'[s].lock = IF sources[s].lock > 0 THEN sources[s].lock - 1 ELSE sources[s].lock
  <2> DEFINE e == sources[s]
             n == Least(e.since + 1, BucketCapacity + ClockLag)
             l == IF e.lock > 0 THEN e.lock - 1 ELSE e.lock
  <2>1. e \in EntryType
    BY DEF GInv, Shapes
  <2>2. n \in Int /\ l \in Int
    BY <2>1, GateAssumption DEF EntryType, Least
  <2>3. sources'[s] = [e EXCEPT !.since = n, !.lock = l]
    BY <1>1
  <2> HIDE DEF e, n, l
  <2>4. /\ sources'[s] \in EntryType
        /\ sources'[s].failures = e.failures /\ sources'[s].announced = e.announced
        /\ sources'[s].lock = l
    BY <2>1, <2>2, <2>3 DEF EntryType
  <2> QED
    BY <2>4 DEF e, l
<1>4. ASSUME NEW s \in Source
      PROVE  /\ hist'[s] \in DebtType
             /\ hist'[s].wrong = hist[s].wrong /\ hist'[s].open = hist[s].open
             /\ hist'[s].due = IF hist[s].due > 0 THEN hist[s].due - 1 ELSE 0
  <2>1. hist[s] \in DebtType
    BY DEF GInv, Shapes
  <2> QED
    BY <1>2, <2>1 DEF DebtType
<1>5. Shapes'
  <2>1. sources' \in [DOMAIN sources' -> EntryType] /\ DOMAIN sources' \subseteq Source
    BY <1>1, <1>3 DEF GInv, Shapes
  <2>2. hist' \in [Source -> DebtType]
    BY <1>2, <1>4
  <2> QED
    BY <2>1, <2>2 DEF GInv, Shapes, GateTick, attempts
<1>6. SlotsBalance'
  BY DEF GInv, SlotsBalance, GateTick, attempts
<1>7. ASSUME NEW s \in Source
      PROVE  /\ Settled(Entry(s), Record(s))'
             /\ Clear(Entry(s), Record(s)) => Clear(Entry(s), Record(s))'
  <2>1. Settled(Entry(s), Record(s)) /\ Entry(s) \in EntryType /\ Record(s) \in DebtType
    BY EntriesHaveTypes DEF GInv, Ledger
  <2>2. CASE s \in DOMAIN sources
    <3> DEFINE e == sources[s]
               f == sources'[s]
               g == hist[s]
               h == hist'[s]
    <3>1. /\ Entry(s) = e /\ Record(s) = g
          /\ Entry(s)' = f /\ Record(s)' = h
      BY <1>1, <2>2 DEF Entry, Record
    <3>2. /\ f.failures = e.failures /\ f.announced = e.announced
          /\ f.lock = IF e.lock > 0 THEN e.lock - 1 ELSE e.lock
          /\ h.wrong = g.wrong /\ h.open = g.open
          /\ h.due = IF g.due > 0 THEN g.due - 1 ELSE 0
      BY <1>3, <1>4, <2>2
    <3>3. /\ e.lock \in Int /\ g.due \in Nat
      BY <2>1, <3>1 DEF EntryType, DebtType
    <3>4. Settled(e, g) /\ (Clear(Entry(s), Record(s)) => Clear(e, g))
      BY <2>1, <3>1
    <3> HIDE DEF e, f, g, h
    <3>5. /\ f.failures <= MaxFailures /\ h.wrong = f.failures
          /\ h.open = IF f.announced THEN 1 ELSE 0
      BY <3>2, <3>4 DEF Settled
    <3>6. /\ h.due > 0 => f.lock >= h.due
          /\ f.lock >= Unlocked /\ (f.lock >= 0 <=> e.lock >= 0)
      BY <3>2, <3>3, <3>4 DEF Settled, Unlocked
    <3>7. f.announced <=> f.lock >= 0
      BY <3>2, <3>4, <3>6 DEF Settled
    <3>8. Settled(f, h)
      BY <3>5, <3>6, <3>7 DEF Settled
    <3>9. Clear(e, g) => Clear(f, h)
      BY <3>2, <3>3 DEF Clear, Unlocked
    <3> QED
      BY <3>1, <3>4, <3>8, <3>9 DEF Settled, Clear
  <2>3. CASE s \notin DOMAIN sources
    <3>1. /\ Entry(s)' = Entry(s) /\ Record(s)' = Record(s)
      BY <1>1, <2>3 DEF Entry, Record, Fresh, Unknown
    <3> QED
      BY <2>1, <3>1 DEF Settled, Clear
  <2> QED
    BY <2>2, <2>3
<1>8. Ledger'
  <2>1. \A s \in Source \ DOMAIN sources' : hist'[s] = Unknown
    <3> TAKE s \in Source \ DOMAIN sources'
    <3>1. hist[s] = Unknown
      BY <1>1 DEF GInv, Ledger
    <3> QED
      BY <1>2, <3>1 DEF Unknown
  <2>2. ASSUME NEW a \in Attempt, at'[a] = "turn"
        PROVE  Clear(Entry(from[a]), Record(from[a]))'
    <3>1. at[a] = "turn" /\ from'[a] = from[a]
      BY <2>2 DEF GateTick, attempts
    <3>2. from[a] \in Source
      BY <3>1 DEF GInv, Shapes
    <3>3. Clear(Entry(from[a]), Record(from[a]))
      BY <3>1 DEF GInv, Ledger
    <3> QED
      BY <1>7, <3>1, <3>2, <3>3 DEF Clear, Entry, Record
  <2> QED
    BY <1>7, <2>1, <2>2 DEF Ledger
<1> QED
  BY <1>5, <1>6, <1>8 DEF GInv

-----------------------------------------------------------------------------
(* The theorems.                                                           *)

LEMMA InitEstablishes == GateInit => GInv
<1> SUFFICES ASSUME GateInit PROVE GInv
  OBVIOUS
<1>1. Shapes
  BY FreshIsSettled DEF GateInit, Shapes, Place, Verdict
<1>2. SlotsBalance
  <2>1. Holding = {} /\ Turning = {}
    BY DEF GateInit, Holding, Turning
  <2> QED
    <3>1. admit = Cardinality(Holding) /\ verify = Cardinality(Turning)
      BY <2>1, FS_EmptySet DEF GateInit
    <3>2. admit <= InFlight /\ verify <= 1
      BY GateAssumption DEF GateInit
    <3> QED
      BY <3>1, <3>2 DEF SlotsBalance, Holding, Turning
<1>3. Ledger
  BY FreshIsSettled DEF GateInit, Ledger, Entry, Record
<1> QED
  BY <1>1, <1>2, <1>3 DEF GInv

LEMMA StepKeeps == GInv /\ [GateNext]_gateVars => GInv'
<1> SUFFICES ASSUME GInv, [GateNext]_gateVars PROVE GInv'
  OBVIOUS
<1>1. ASSUME NEW a \in Attempt, NEW s \in Source, NEW lag \in 0 .. ClockLag, Arrive(a, s, lag)
      PROVE  GInv'
  BY <1>1, ArriveStep
<1>2. ASSUME NEW s \in Source, NEW lag \in 0 .. ClockLag, ChargeOnly(s, lag)
      PROVE  GInv'
  BY <1>2, ChargeOnlyStep
<1>3. ASSUME NEW a \in Attempt,
             TurnedAway(a) \/ Admit(a) \/ QueueExpires(a) \/ Release(a)
      PROVE  GInv'
  BY <1>3, QuietSteps
<1>4. ASSUME NEW a \in Attempt, TurnLocked(a)
      PROVE  GInv'
  BY <1>4, TurnLockedStep
<1>5. ASSUME NEW a \in Attempt, TurnBegins(a)
      PROVE  GInv'
  BY <1>5, TurnBeginsStep
<1>6. ASSUME NEW a \in Attempt, NEW outcome \in {"neutral", "failed", "succeeded"},
             TurnEnds(a, outcome)
      PROVE  GInv'
  BY <1>6, TurnEndsStep
<1>7. CASE GateTick
  BY <1>7, TickStep
<1>8. CASE UNCHANGED gateVars
  <2>1. UNCHANGED <<sources, admit, verify, at, from, verdict, hist>>
    BY <1>8 DEF gateVars, table, attempts
  <2> QED
    BY <2>1 DEF GInv, Shapes, SlotsBalance, Ledger, Settled, Clear, Entry, Record
<1> QED
  BY <1>1, <1>2, <1>3, <1>4, <1>5, <1>6, <1>7, <1>8 DEF GateNext

(* Every entry of the table is in step with what the door owes its address *)
(* at every moment of every interleaving of logins, logouts and the clock. *)
THEOREM GateInvariant == GateSpec => []GInv
<1> QED
  BY InitEstablishes, StepKeeps, PTL DEF GateSpec

(* The slots of g.admit and g.verify are exactly those that the attempts   *)
(* in progress hold, and neither channel is ever over its capacity.        *)
THEOREM SlotsAreBalanced == GateSpec => []SlotsBalance
<1>1. GInv => SlotsBalance
  BY DEF GInv
<1> QED
  BY <1>1, GateInvariant, PTL

(* The lockouts reported entered and left alternate for every address.     *)
THEOREM MilestonesArePaired == GateSpec => []MilestonesPair
<1>1. ASSUME GInv, NEW s \in Source
      PROVE  hist[s].open \in {0, 1}
  <2>1. Settled(Entry(s), Record(s)) /\ (s \notin DOMAIN sources => hist[s] = Unknown)
    BY <1>1 DEF GInv, Ledger
  <2>2. CASE s \in DOMAIN sources
    BY <2>1, <2>2 DEF Settled, Record
  <2>3. CASE s \notin DOMAIN sources
    BY <2>1, <2>3 DEF Unknown
  <2> QED
    BY <2>2, <2>3
<1>2. GInv => MilestonesPair
  BY <1>1 DEF MilestonesPair
<1> QED
  BY <1>2, GateInvariant, PTL

\* Nothing is concluded of an attempt before its turn is over.
Unjudged == \A a \in Attempt : at[a] # "judged" => verdict[a] = "none"

LEMMA UnjudgedStep ==
  ASSUME Shapes, Unjudged, [GateNext]_gateVars
  PROVE  Unjudged'
<1>0. /\ at \in [Attempt -> Place] /\ verdict \in [Attempt -> Verdict]
  BY DEF Shapes
<1>1. ASSUME NEW a \in Attempt, NEW s \in Source, NEW lag \in 0 .. ClockLag, Arrive(a, s, lag)
      PROVE  Unjudged'
  <2>1. verdict' = verdict /\ at[a] = "out" /\ (at' = at \/ at' = [at EXCEPT ![a] = "charged"])
    BY <1>1 DEF Arrive
  <2> QED
    BY <1>0, <2>1 DEF Unjudged
<1>2. ASSUME NEW s \in Source, NEW lag \in 0 .. ClockLag, ChargeOnly(s, lag)
      PROVE  Unjudged'
  BY <1>2 DEF ChargeOnly, attempts, Unjudged
<1>3. ASSUME NEW a \in Attempt, TurnedAway(a) \/ Admit(a) \/ TurnBegins(a)
      PROVE  Unjudged'
  <2>1. /\ verdict' = verdict /\ at[a] # "judged"
        /\ \E p \in Place : at' = [at EXCEPT ![a] = p]
    BY <1>3 DEF TurnedAway, Admit, TurnBegins, Place
  <2> QED
    BY <1>0, <2>1 DEF Unjudged
<1>4. ASSUME NEW a \in Attempt, at' = [at EXCEPT ![a] = "judged"],
             NEW v, verdict' = [verdict EXCEPT ![a] = v]
      PROVE  Unjudged'
  BY <1>0, <1>4 DEF Unjudged
<1>5. ASSUME NEW a \in Attempt, Release(a)
      PROVE  Unjudged'
  BY <1>0, <1>5 DEF Release, Unjudged
<1>6. CASE GateTick
  BY <1>6 DEF GateTick, attempts, Unjudged
<1>7. CASE UNCHANGED gateVars
  BY <1>7 DEF gateVars, attempts, Unjudged
<1>8. ASSUME NEW a \in Attempt, QueueExpires(a)
      PROVE  Unjudged'
  BY <1>4, <1>8 DEF QueueExpires
<1>9. ASSUME NEW a \in Attempt, TurnLocked(a)
      PROVE  Unjudged'
  BY <1>4, <1>9 DEF TurnLocked
<1>10. ASSUME NEW a \in Attempt, NEW outcome, TurnEnds(a, outcome)
       PROVE  Unjudged'
  BY <1>4, <1>10 DEF TurnEnds
<1> QED
  BY <1>1, <1>2, <1>3, <1>5, <1>6, <1>7, <1>8, <1>9, <1>10 DEF GateNext

\* A verdict on a password is a step that ends a turn.
LEMMA OnlyTurnsJudge ==
  ASSUME Shapes, Unjudged, [GateNext]_gateVars, NEW a \in Attempt,
         at[a] = "turn", verdict'[a] \in {"failed", "succeeded"}
  PROVE  \E outcome \in {"neutral", "failed", "succeeded"} : TurnEnds(a, outcome)
<1>1. verdict[a] = "none" /\ verdict \in [Attempt -> Verdict]
  BY DEF Shapes, Unjudged
<1>2. verdict'[a] # verdict[a]
  BY <1>1
<1>3. ASSUME NEW b \in Attempt, NEW v, verdict' = [verdict EXCEPT ![b] = v], b # a
      PROVE  FALSE
  BY <1>1, <1>2, <1>3
<1>4. ASSUME NEW b \in Attempt, QueueExpires(b) \/ TurnLocked(b) \/ Release(b)
      PROVE  FALSE
  <2>1. at[b] # "turn"
    BY <1>4 DEF QueueExpires, TurnLocked, Release
  <2>2. \E v : verdict' = [verdict EXCEPT ![b] = v]
    BY <1>4 DEF QueueExpires, TurnLocked, Release
  <2> QED
    BY <1>3, <2>1, <2>2
<1>5. ASSUME NEW b \in Attempt, TurnedAway(b) \/ Admit(b) \/ TurnBegins(b)
      PROVE  FALSE
  BY <1>2, <1>5 DEF TurnedAway, Admit, TurnBegins
<1>6. ASSUME NEW b \in Attempt, NEW s \in Source, NEW lag \in 0 .. ClockLag, Arrive(b, s, lag)
      PROVE  FALSE
  BY <1>2, <1>6 DEF Arrive
<1>7. ASSUME NEW s \in Source, NEW lag \in 0 .. ClockLag, ChargeOnly(s, lag)
      PROVE  FALSE
  BY <1>2, <1>7 DEF ChargeOnly, attempts
<1>8. ~ GateTick /\ ~ UNCHANGED gateVars
  BY <1>2 DEF GateTick, gateVars, attempts
<1>9. ASSUME NEW b \in Attempt, NEW outcome \in {"neutral", "failed", "succeeded"},
             TurnEnds(b, outcome)
      PROVE  b = a
  <2>1. verdict' = [verdict EXCEPT ![b] = outcome]
    BY <1>9 DEF TurnEnds
  <2> QED
    BY <1>3, <2>1
<1> QED
  BY <1>4, <1>5, <1>6, <1>7, <1>8, <1>9 DEF GateNext

(* No password of an address is judged while the rung that its run of      *)
(* wrong ones had reached is still running.                                *)
THEOREM GuessesPaced == GateSpec => GuessesArePaced
<1> DEFINE Pace == \A a \in Attempt :
                      at[a] = "turn" /\ verdict'[a] \in {"failed", "succeeded"}
                         => hist[from[a]].due = 0
<1>1. GateInit => Unjudged
  BY DEF GateInit, Unjudged
<1>2. GInv /\ Unjudged /\ [GateNext]_gateVars => Unjudged'
  BY UnjudgedStep DEF GInv
<1>3. GInv /\ Unjudged /\ [GateNext]_gateVars => [Pace]_gateVars
  BY OnlyTurnsJudge, TurnEndsStep DEF GInv
<1>4. GateSpec => []GInv
  BY GateInvariant
<1> QED
  BY <1>1, <1>2, <1>3, <1>4, PTL DEF GateSpec, GuessesArePaced

-----------------------------------------------------------------------------
(* The door around the gate.                                               *)

(* Whatever the door does with logins, cookies and the password file, it   *)
(* uses the gate as the gate is meant to be used (login, logout).          *)
THEOREM DoorImplementsGate == Spec => GateSpec
<1>1. Init => GateInit
  BY DEF Init
<1>2. ASSUME [Next]_vars PROVE [GateNext]_gateVars
  <2>1. CASE Attempts
    <3>1. PICK a \in Attempt :
              \/ \E s \in Source, lag \in 0 .. ClockLag, p \in Password : Login(a, s, lag, p)
              \/ Refuse(a) \/ Enter(a) \/ GivesUp(a) \/ LockedOut(a)
              \/ Judge(a) \/ Verified(a) \/ Return(a) \/ Issue(a)
      BY <2>1, Zenon DEF Attempts
    <3>2. CASE \E s \in Source, lag \in 0 .. ClockLag, p \in Password : Login(a, s, lag, p)
      <4>1. \E s \in Source, lag \in 0 .. ClockLag : Arrive(a, s, lag)
        BY <3>2 DEF Login
      <4> QED
        BY <4>1, Zenon DEF GateNext
    <3>3. CASE Refuse(a) \/ Enter(a) \/ GivesUp(a) \/ LockedOut(a) \/ Judge(a) \/ Return(a) \/ Issue(a)
      <4>1. TurnedAway(a) \/ Admit(a) \/ QueueExpires(a) \/ TurnLocked(a) \/ TurnBegins(a) \/ Release(a)
        BY <3>3 DEF Refuse, Enter, GivesUp, LockedOut, Judge, Return, Issue
      <4> QED
        BY <4>1, Zenon DEF GateNext
    <3>4. CASE Verified(a)
      <4>1. TurnEnds(a, Outcome(a)) /\ Outcome(a) \in {"neutral", "failed", "succeeded"}
        BY <3>4 DEF Verified, Outcome
      <4> QED
        BY <4>1, Zenon DEF GateNext
    <3> QED
      BY <3>1, <3>2, <3>3, <3>4
  <2>2. CASE Requests
    <3>1. UNCHANGED gateVars \/ \E s \in Source, lag \in 0 .. ClockLag : ChargeOnly(s, lag)
      BY <2>2 DEF Requests, Ask, AskLogout, NotYours, Evicted, Served, Page, Destroy, Logout
    <3> QED
      BY <3>1, Zenon DEF GateNext
  <2>3. CASE Commands
    BY <2>3 DEF Commands, Disable, OtherKey, SetPassword, Rewrite
  <2>4. CASE Tick
    BY <2>4, Zenon DEF Tick, GateNext
  <2>5. CASE UNCHANGED vars
    BY <2>5 DEF vars
  <2> QED
    BY <1>2, <2>1, <2>2, <2>3, <2>4, <2>5, Zenon DEF Next
<1> QED
  BY <1>1, <1>2, PTL DEF Spec, GateSpec

-----------------------------------------------------------------------------
(* The credential and its copies.                                          *)

\* A password and the date it was set: what the file says, what was read of it,
\* and what a session was opened with.
Copy(h, u) == [hash |-> h, updated |-> u]
Copies ==
    {file.local} \cup {l \in {cred.local} : cred.have}
    \cup {read[a].local : a \in {b \in Attempt : read[b].ok}}
    \cup {req[r].live.local : r \in {q \in Request : req[q].live.ok}}
    \cup {Copy(x.by, x.updated) : x \in sessions}
Dated(l, m) == l.updated = m.updated => l.hash = m.hash

Hashes   == [hash : Password \cup {NoHash}, updated : Nat]
Answered == [ok : BOOLEAN, local : Hashes]
Asked    == [state : {"idle", "read", "served"}, kind : {"page", "logout"},
             id : Session \cup {Nobody}, peer : Source \cup {Nobody}, live : Answered]
Live == [id : Session, peer : Source, updated : Nat, life : Nat, idle : Nat,
         by : Password \cup {NoHash}, before : SUBSET Session]
DoorShapes ==
    /\ file \in [local : Hashes, mod : Nat]
    /\ cred \in [have : BOOLEAN, local : Hashes, mod : Nat]
    /\ offered \in [Attempt -> Password \cup {NoHash}]
    /\ read \in [Attempt -> Answered]
    /\ req \in [Request -> Asked]
    /\ sessions \subseteq Live
Unique(q) == \A x, y \in q : x.id = y.id => x = y
Granted == \A a \in Attempt : at[a] = "judged" /\ verdict[a] = "succeeded" =>
    read[a].ok /\ read[a].local.hash = offered[a]
Truthful ==
    /\ \A l \in Copies : l.updated <= file.mod
    /\ \A l, m \in Copies : Dated(l, m)
DoorInv == DoorShapes /\ Unique(sessions) /\ Granted /\ Truthful

\* A step that leaves the file alone keeps the shapes and the identifiers, and
\* every copy it leaves is one there was.
Spreads ==
    /\ cred'.have => cred'.local \in Copies
    /\ \A a \in Attempt : read'[a].ok => read'[a].local \in Copies
    /\ \A r \in Request : req'[r].live.ok => req'[r].live.local \in Copies
    /\ \A x \in sessions' : Copy(x.by, x.updated) \in Copies
Upheld == DoorShapes' /\ Unique(sessions') /\ Granted' /\ Spreads /\ file' = file

LEMMA CopiesAre ==
  /\ file.local \in Copies
  /\ cred.have => cred.local \in Copies
  /\ \A a \in Attempt : read[a].ok => read[a].local \in Copies
  /\ \A r \in Request : req[r].live.ok => req[r].live.local \in Copies
  /\ \A x \in sessions : Copy(x.by, x.updated) \in Copies
  BY Zenon DEF Copies

\* What localCred.get returns is a copy, whether cached or read.
LEMMA CurrentIsACopy ==
  ASSUME DoorShapes
  PROVE  Current \in Copies /\ Current \in Hashes
  BY CopiesAre DEF Current, Cached, DoorShapes

LEMMA SpreadsSuffices ==
  ASSUME Truthful, Spreads, file' = file
  PROVE  Truthful'
<1>1. ASSUME NEW l \in Copies' PROVE l \in Copies
  <2>1. \/ l = file'.local
        \/ cred'.have /\ l = cred'.local
        \/ \E a \in Attempt : read'[a].ok /\ l = read'[a].local
        \/ \E r \in Request : req'[r].live.ok /\ l = req'[r].live.local
        \/ \E x \in sessions' : l = Copy(x.by, x.updated)
    BY <1>1, Zenon DEF Copies
  <2> QED
    BY <2>1, CopiesAre, Zenon DEF Spreads
<1> QED
  BY <1>1 DEF Truthful

-----------------------------------------------------------------------------
(* What happens to the set of sessions.                                    *)

Same(x, y) == /\ x.id = y.id /\ x.peer = y.peer
              /\ x.updated = y.updated /\ x.by = y.by
\* p is what is left of q: its sessions may have aged, none is new or changed.
LeftOf(p, q) == p \subseteq Live /\ Unique(p) /\ \A x \in p : \E y \in q : Same(x, y)

\* Each session of q becomes one that is the same but for its ages.
LEMMA ImageLeaves ==
  ASSUME NEW q, q \subseteq Live, Unique(q), NEW f,
         \A y \in q : f[y] \in Live /\ Same(f[y], y)
  PROVE  LeftOf({f[y] : y \in q}, q)
<1> DEFINE p == {f[y] : y \in q}
<1>1. ASSUME NEW x \in p PROVE \E y \in q : x = f[y]
  BY <1>1, Zenon
<1> HIDE DEF p
<1>2. ASSUME NEW x \in p, NEW z \in p, x.id = z.id
      PROVE  x = z
  <2>1. PICK y \in q : x = f[y]
    BY <1>1
  <2>2. PICK w \in q : z = f[w]
    BY <1>1
  <2>3. y.id = w.id
    BY <1>2, <2>1, <2>2 DEF Same
  <2> QED
    BY <2>1, <2>2, <2>3 DEF Unique
<1>3. \A x \in p : x \in Live /\ \E y \in q : Same(x, y)
  BY <1>1, Zenon
<1> QED
  BY <1>2, <1>3, Zenon DEF LeftOf, Unique, p

LEMMA WithoutLeaves ==
  ASSUME NEW q, q \subseteq Live, Unique(q), NEW ids
  PROVE  LeftOf(Without(q, ids), q)
<1> DEFINE rest == {y \in q : y.id \notin ids}
           cut == [y \in rest |-> [y EXCEPT !.before = @ \ ids]]
<1>1. \A y \in rest : cut[y] = [y EXCEPT !.before = @ \ ids]
  OBVIOUS
<1>2. Without(q, ids) = {cut[y] : y \in rest}
  <2>1. Without(q, ids) = {[y EXCEPT !.before = @ \ ids] : y \in rest}
    BY DEF Without
  <2> HIDE DEF cut
  <2> QED
    BY <1>1, <2>1, Zenon
<1>3. rest \subseteq q /\ \A y \in rest : y \in Live
  OBVIOUS
<1> HIDE DEF cut, rest
<1>4. ASSUME NEW y \in rest PROVE cut[y] \in Live /\ Same(cut[y], y)
  <2>1. y \in Live /\ cut[y] = [y EXCEPT !.before = @ \ ids]
    BY <1>1, <1>3
  <2> QED
    BY <2>1 DEF Live, Same
<1>5. LeftOf({cut[y] : y \in rest}, rest)
  BY <1>3, <1>4, ImageLeaves DEF Unique
<1> QED
  BY <1>2, <1>3, <1>5 DEF LeftOf

LEMMA LeftTransitive ==
  ASSUME NEW p, NEW q, NEW w, LeftOf(p, q), LeftOf(q, w)
  PROVE  LeftOf(p, w)
  BY DEF LeftOf, Same

LEMMA RoomyLeaves ==
  ASSUME DoorShapes, Unique(sessions)
  PROVE  LeftOf(Roomy, sessions)
<1>1. LeftOf(Unexpired, sessions)
  BY WithoutLeaves, Zenon DEF Unexpired, DoorShapes
<1>2. LeftOf(Roomy, Unexpired)
  BY <1>1, WithoutLeaves, Zenon DEF Roomy, LeftOf
<1> QED
  BY <1>1, <1>2, LeftTransitive

LEMMA LeftSpreads ==
  ASSUME LeftOf(sessions', sessions)
  PROVE  \A x \in sessions' : Copy(x.by, x.updated) \in Copies
<1>1. ASSUME NEW x \in sessions' PROVE Copy(x.by, x.updated) \in Copies
  <2>1. PICK y \in sessions : Same(x, y)
    BY DEF LeftOf
  <2> QED
    BY <2>1, CopiesAre DEF Same
<1> QED
  BY <1>1

LEMMA TickLeaves ==
  ASSUME DoorShapes, Unique(sessions), Tick
  PROVE  LeftOf(sessions', sessions)
<1> DEFINE older(x) == [x EXCEPT !.life = IF @ > 0 THEN @ - 1 ELSE 0,
                                 !.idle = IF @ > 0 THEN @ - 1 ELSE 0]
           aged == [x \in sessions |-> older(x)]
<1>1. ASSUME NEW x \in sessions PROVE older(x) \in Live /\ Same(older(x), x)
  <2> DEFINE less(n) == IF n > 0 THEN n - 1 ELSE 0
  <2>1. x \in Live
    BY DEF DoorShapes
  <2>2. less(x.life) \in Nat /\ less(x.idle) \in Nat
    BY <2>1 DEF Live
  <2>3. older(x) = [x EXCEPT !.life = less(x.life), !.idle = less(x.idle)]
    BY <2>1 DEF Live
  <2> HIDE DEF less, older
  <2> QED
    BY <2>1, <2>2, <2>3 DEF Live, Same
<1>2. sessions' = {older(x) : x \in sessions}
  BY DEF Tick
<1> HIDE DEF older
<1>3. \A x \in sessions : aged[x] = older(x)
  OBVIOUS
<1> HIDE DEF aged
<1>4. sessions' = {aged[x] : x \in sessions}
  BY <1>2, <1>3, Zenon
<1> QED
  BY <1>1, <1>3, <1>4, ImageLeaves DEF DoorShapes

LEMMA ServedLeaves ==
  ASSUME DoorShapes, Unique(sessions), NEW r \in Request, Served(r)
  PROVE  LeftOf(sessions', sessions)
<1>1. PICK x \in Held(r) : sessions' = (sessions \ {x}) \cup {[x EXCEPT !.idle = Idle]}
  BY Zenon DEF Served
<1> DEFINE y == [x EXCEPT !.idle = Idle]
<1>2. x \in sessions
  BY DEF Held
<1>3. y \in Live /\ Same(y, x)
  <2>1. x \in Live /\ Idle \in Nat
    BY <1>2, DoorAssumption DEF DoorShapes
  <2> QED
    BY <2>1 DEF Live, Same
<1>4. sessions' = (sessions \ {x}) \cup {y}
  BY <1>1
<1> HIDE DEF y
<1>5. \A z \in sessions \ {x} : z.id # y.id
  BY <1>2, <1>3 DEF Unique, Same
<1>6. Unique(sessions')
  BY <1>4, <1>5 DEF Unique
<1>7. \A z \in sessions' : z \in Live /\ \E w \in sessions : Same(z, w)
  <2>1. \A z \in sessions : z \in Live /\ Same(z, z)
    BY DEF DoorShapes, Same
  <2> QED
    BY <1>2, <1>3, <1>4, <2>1
<1> QED
  BY <1>6, <1>7, Zenon DEF LeftOf

-----------------------------------------------------------------------------
(* One lemma per kind of step: what it leaves of the door's invariant.     *)

LEMMA GrantedMove ==
  ASSUME Granted, NEW a \in Attempt,
         \A b \in Attempt \ {a} : /\ at'[b] = at[b] /\ verdict'[b] = verdict[b]
                                  /\ read'[b] = read[b] /\ offered'[b] = offered[b],
         at'[a] = "judged" /\ verdict'[a] = "succeeded"
            => read'[a].ok /\ read'[a].local.hash = offered'[a]
  PROVE  Granted'
  BY DEF Granted

\* Where an attempt goes; the others stay where they are.
LEMMA AttemptMoves ==
  ASSUME Shapes, NEW a \in Attempt
  PROVE  /\ \A s \in Source, lag \in 0 .. ClockLag : Arrive(a, s, lag) =>
               /\ at'[a] # "judged"
               /\ \A b \in Attempt \ {a} : at'[b] = at[b] /\ verdict'[b] = verdict[b]
         /\ TurnedAway(a) \/ Admit(a) \/ TurnBegins(a) \/ Release(a) =>
               /\ at'[a] # "judged"
               /\ \A b \in Attempt \ {a} : at'[b] = at[b] /\ verdict'[b] = verdict[b]
         /\ QueueExpires(a) \/ TurnLocked(a) =>
               /\ verdict'[a] # "succeeded"
               /\ \A b \in Attempt \ {a} : at'[b] = at[b] /\ verdict'[b] = verdict[b]
         /\ \A outcome : TurnEnds(a, outcome) =>
               /\ verdict'[a] = outcome
               /\ \A b \in Attempt \ {a} : at'[b] = at[b] /\ verdict'[b] = verdict[b]
<1>0. at \in [Attempt -> Place] /\ verdict \in [Attempt -> Verdict]
  BY DEF Shapes
<1>1. ASSUME NEW s \in Source, NEW lag \in 0 .. ClockLag, Arrive(a, s, lag)
      PROVE  /\ at'[a] # "judged"
             /\ \A b \in Attempt \ {a} : at'[b] = at[b] /\ verdict'[b] = verdict[b]
  BY <1>0, <1>1 DEF Arrive
<1>2. ASSUME TurnedAway(a) \/ Admit(a) \/ TurnBegins(a) \/ Release(a)
      PROVE  /\ at'[a] # "judged"
             /\ \A b \in Attempt \ {a} : at'[b] = at[b] /\ verdict'[b] = verdict[b]
  BY <1>0, <1>2 DEF TurnedAway, Admit, TurnBegins, Release
<1>3. ASSUME QueueExpires(a) \/ TurnLocked(a)
      PROVE  /\ verdict'[a] # "succeeded"
             /\ \A b \in Attempt \ {a} : at'[b] = at[b] /\ verdict'[b] = verdict[b]
  BY <1>0, <1>3 DEF QueueExpires, TurnLocked
<1>4. ASSUME NEW outcome, TurnEnds(a, outcome)
      PROVE  /\ verdict'[a] = outcome
             /\ \A b \in Attempt \ {a} : at'[b] = at[b] /\ verdict'[b] = verdict[b]
  <2>1. /\ at' = [at EXCEPT ![a] = "judged"]
        /\ verdict' = [verdict EXCEPT ![a] = outcome]
    BY <1>4 DEF TurnEnds
  <2> QED
    BY <1>0, <2>1
<1> QED
  BY <1>1, <1>2, <1>3, <1>4, Zenon

LEMMA LoginStep ==
  ASSUME Shapes, DoorInv, NEW a \in Attempt, NEW s \in Source, NEW lag \in 0 .. ClockLag,
         NEW p \in Password, Login(a, s, lag, p)
  PROVE  Upheld
<1>1. /\ Arrive(a, s, lag)
      /\ offered' = [offered EXCEPT ![a] = p] \/ offered' = offered
      /\ UNCHANGED <<file, cred, read, sessions, req>>
  BY DEF Login
<1>2. DoorShapes' /\ \A b \in Attempt \ {a} : offered'[b] = offered[b]
  BY <1>1 DEF DoorInv, DoorShapes
<1>3. Granted'
  BY <1>1, <1>2, AttemptMoves, GrantedMove DEF DoorInv
<1>4. Spreads
  BY <1>1, CopiesAre DEF Spreads
<1> QED
  BY <1>1, <1>2, <1>3, <1>4 DEF Upheld, DoorInv

LEMMA QuietAttempts ==
  ASSUME Shapes, DoorInv, NEW a \in Attempt,
         Refuse(a) \/ Enter(a) \/ GivesUp(a) \/ LockedOut(a) \/ Return(a)
  PROVE  Upheld
<1>1. /\ TurnedAway(a) \/ Admit(a) \/ QueueExpires(a) \/ TurnLocked(a) \/ Release(a)
      /\ offered' = [offered EXCEPT ![a] = NoHash] \/ offered' = offered
      /\ read' = [read EXCEPT ![a] = NoAnswer] \/ read' = read
      /\ UNCHANGED <<file, cred, sessions, req>>
  BY DEF Refuse, Enter, GivesUp, LockedOut, Return, Forget, door
<1>2. NoAnswer \in Answered /\ ~ NoAnswer.ok
  BY DEF NoAnswer, Answered, Hashes
<1>3. DoorShapes' /\ \A b \in Attempt \ {a} : offered'[b] = offered[b] /\ read'[b] = read[b]
  BY <1>1, <1>2 DEF DoorInv, DoorShapes
<1>4. Granted'
  BY <1>1, <1>3, AttemptMoves, GrantedMove DEF DoorInv
<1>5. Spreads
  <2>1. \A b \in Attempt : read'[b].ok => read'[b].local \in Copies
    BY <1>1, <1>2, CopiesAre DEF DoorInv, DoorShapes
  <2> QED
    BY <1>1, <2>1, CopiesAre DEF Spreads
<1> QED
  BY <1>1, <1>3, <1>4, <1>5 DEF Upheld, DoorInv

\* A credential read now is a copy of one there was, and so is what is cached.
LEMMA GetIsACopy ==
  ASSUME DoorInv, NEW answer \in Answers, Get(answer)
  PROVE  /\ answer \in Answered /\ (answer.ok => answer.local \in Copies)
         /\ cred' \in [have : BOOLEAN, local : Hashes, mod : Nat]
         /\ cred'.have => cred'.local \in Copies
<1>1. \/ answer = [ok |-> TRUE, local |-> Current]
      \/ answer = [ok |-> FALSE, local |-> [hash |-> NoHash, updated |-> cred.local.updated]]
  BY DEF Answers
<1>2. cred' = IF answer.ok THEN [have |-> TRUE, local |-> Current, mod |-> file.mod]
                           ELSE cred
  BY DEF Get
<1>3. Current \in Copies /\ Current \in Hashes /\ file.mod \in Nat
  BY CurrentIsACopy DEF DoorInv, DoorShapes
<1>4. /\ cred \in [have : BOOLEAN, local : Hashes, mod : Nat]
      /\ cred.have => cred.local \in Copies
  BY CopiesAre DEF DoorInv, DoorShapes
<1>5. answer \in Answered /\ (answer.ok => answer.local \in Copies)
  <2>1. [hash |-> NoHash, updated |-> cred.local.updated] \in Hashes
    BY <1>4 DEF Hashes
  <2>2. CASE answer = [ok |-> TRUE, local |-> Current]
    BY <1>3, <2>2 DEF Answered
  <2>3. CASE answer = [ok |-> FALSE, local |-> [hash |-> NoHash, updated |-> cred.local.updated]]
    BY <2>1, <2>3 DEF Answered
  <2> QED
    BY <1>1, <2>2, <2>3
<1> QED
  BY <1>2, <1>3, <1>4, <1>5

LEMMA JudgeStep ==
  ASSUME Shapes, DoorInv, NEW a \in Attempt, Judge(a)
  PROVE  Upheld
<1>1. PICK answer \in Answers : Get(answer) /\ read' = [read EXCEPT ![a] = answer]
  BY Zenon DEF Judge
<1>2. TurnBegins(a) /\ UNCHANGED <<file, offered, sessions, req>>
  BY DEF Judge
<1>3. /\ answer \in Answered /\ (answer.ok => answer.local \in Copies)
      /\ cred' \in [have : BOOLEAN, local : Hashes, mod : Nat]
      /\ cred'.have => cred'.local \in Copies
  BY <1>1, GetIsACopy
<1>4. DoorShapes' /\ \A b \in Attempt \ {a} : read'[b] = read[b]
  BY <1>1, <1>2, <1>3 DEF DoorInv, DoorShapes
<1>5. Granted'
  BY <1>2, <1>4, AttemptMoves, GrantedMove DEF DoorInv
<1>6. Spreads
  <2>1. \A b \in Attempt : read'[b].ok => read'[b].local \in Copies
    BY <1>1, <1>3, CopiesAre DEF DoorInv, DoorShapes
  <2> QED
    BY <1>2, <1>3, <2>1, CopiesAre DEF Spreads
<1> QED
  BY <1>2, <1>4, <1>5, <1>6 DEF Upheld, DoorInv

LEMMA VerifiedStep ==
  ASSUME Shapes, DoorInv, NEW a \in Attempt, Verified(a)
  PROVE  Upheld
<1>1. TurnEnds(a, Outcome(a)) /\ UNCHANGED <<file, cred, offered, read, sessions, req>>
  BY DEF Verified, door
<1>2. DoorShapes'
  BY <1>1 DEF DoorInv, DoorShapes
<1>3. Outcome(a) = "succeeded" => read[a].ok /\ read[a].local.hash = offered[a]
  BY DEF Outcome
<1>4. Granted'
  BY <1>1, <1>3, AttemptMoves, GrantedMove DEF DoorInv
<1>5. Spreads
  BY <1>1, CopiesAre DEF Spreads
<1> QED
  BY <1>1, <1>2, <1>4, <1>5 DEF Upheld, DoorInv

\* The session of a login is opened with the copy its turn was judged by.
LEMMA IssueStep ==
  ASSUME Shapes, DoorInv, NEW a \in Attempt, Issue(a)
  PROVE  Upheld
<1>1. /\ at[a] = "judged" /\ verdict[a] = "succeeded"
      /\ Opens(a, read[a].local.updated) /\ Release(a)
      /\ read' = [read EXCEPT ![a] = NoAnswer]
      /\ offered' = [offered EXCEPT ![a] = NoHash]
      /\ UNCHANGED <<file, cred, req>>
  BY DEF Issue, Forget
<1>2. PICK id \in Session \ (LiveIds \cup Shown) :
         sessions' = Roomy \cup {[id |-> id, peer |-> from[a],
                                  updated |-> read[a].local.updated, life |-> Lifetime,
                                  idle |-> Idle, by |-> offered[a], before |-> Ids(Roomy)]}
  BY <1>1, Zenon DEF Opens
<1> DEFINE new == [id |-> id, peer |-> from[a], updated |-> read[a].local.updated,
                   life |-> Lifetime, idle |-> Idle, by |-> offered[a],
                   before |-> Ids(Roomy)]
<1>3. sessions' = Roomy \cup {new}
  BY <1>2
<1>4. LeftOf(Roomy, sessions)
  BY RoomyLeaves DEF DoorInv
<1>5. new \in Live /\ new.id = id /\ new.by = offered[a] /\ new.updated = read[a].local.updated
  <2>1. /\ from[a] \in Source /\ offered[a] \in Password \cup {NoHash}
        /\ read[a].local.updated \in Nat /\ Lifetime \in Nat /\ Idle \in Nat
    BY <1>1, DoorAssumption DEF Shapes, DoorInv, DoorShapes, Answered, Hashes
  <2>2. Ids(Roomy) \subseteq Session
    BY <1>4 DEF LeftOf, Ids, Live
  <2> QED
    BY <1>2, <2>1, <2>2 DEF Live
<1> HIDE DEF new
<1>6. Copy(new.by, new.updated) = read[a].local /\ read[a].local \in Copies
  <2>1. read[a].ok /\ read[a].local.hash = offered[a]
    BY <1>1 DEF DoorInv, Granted
  <2>2. read[a].local \in Hashes
    BY DEF DoorInv, DoorShapes, Answered
  <2> QED
    BY <1>5, <2>1, <2>2, CopiesAre DEF Copy, Hashes
<1>7. ASSUME NEW x \in Roomy PROVE x.id # id /\ x \in Live /\ Copy(x.by, x.updated) \in Copies
  <2>1. PICK y \in sessions : Same(x, y)
    BY <1>4 DEF LeftOf
  <2>2. y.id \in LiveIds
    BY DEF LiveIds, Ids
  <2> QED
    BY <1>2, <1>4, <2>1, <2>2, CopiesAre DEF Same, LeftOf
<1>8. Unique(sessions')
  BY <1>3, <1>4, <1>5, <1>7 DEF Unique, LeftOf
<1>9. NoAnswer \in Answered /\ ~ NoAnswer.ok
  BY DEF NoAnswer, Answered, Hashes
<1>10. DoorShapes' /\ \A b \in Attempt \ {a} : offered'[b] = offered[b] /\ read'[b] = read[b]
  <2>1. sessions' \subseteq Live
    BY <1>3, <1>5, <1>7
  <2> QED
    BY <1>1, <1>9, <2>1 DEF DoorInv, DoorShapes
<1>11. Granted'
  BY <1>1, <1>10, AttemptMoves, GrantedMove DEF DoorInv
<1>12. Spreads
  <2>1. \A b \in Attempt : read'[b].ok => read'[b].local \in Copies
    BY <1>1, <1>9, CopiesAre DEF DoorInv, DoorShapes
  <2>2. \A x \in sessions' : Copy(x.by, x.updated) \in Copies
    BY <1>3, <1>6, <1>7
  <2> QED
    BY <1>1, <2>1, <2>2, CopiesAre DEF Spreads
<1> QED
  BY <1>1, <1>8, <1>10, <1>11, <1>12 DEF Upheld

LEMMA AskStep ==
  ASSUME Shapes, DoorInv, NEW r \in Request, NEW id \in Session, NEW s \in Source, Ask(r, id, s)
  PROVE  Upheld
<1>1. PICK answer \in Answers :
         /\ Get(answer)
         /\ req' = [req EXCEPT ![r] = [state |-> "read", kind |-> "page", id |-> id,
                                       peer |-> s, live |-> answer]]
  BY Zenon DEF Ask
<1>2. UNCHANGED <<at, verdict, file, offered, read, sessions>>
  BY DEF Ask, gateVars, attempts
<1>3. /\ answer \in Answered /\ (answer.ok => answer.local \in Copies)
      /\ cred' \in [have : BOOLEAN, local : Hashes, mod : Nat]
      /\ cred'.have => cred'.local \in Copies
  BY <1>1, GetIsACopy
<1> DEFINE v == [state |-> "read", kind |-> "page", id |-> id, peer |-> s, live |-> answer]
<1>4. v \in Asked /\ v.live = answer /\ req' = [req EXCEPT ![r] = v]
  BY <1>1, <1>3 DEF Asked
<1> HIDE DEF v
<1>5. DoorShapes'
  BY <1>2, <1>3, <1>4 DEF DoorInv, DoorShapes
<1>6. Granted'
  BY <1>2 DEF DoorInv, Granted
<1>7. Spreads
  <2>1. \A q \in Request : req'[q].live.ok => req'[q].live.local \in Copies
    BY <1>3, <1>4, CopiesAre DEF DoorInv, DoorShapes
  <2> QED
    BY <1>2, <1>3, <2>1, CopiesAre DEF Spreads
<1> QED
  BY <1>2, <1>5, <1>6, <1>7 DEF Upheld, DoorInv

\* The other steps of a request end it or serve it, and may remove sessions.
LEMMA RequestStep ==
  ASSUME Shapes, DoorInv, UNCHANGED <<at, verdict, file, cred, offered, read>>,
         LeftOf(sessions', sessions), NEW r \in Request, NEW v \in Asked,
         v.live.ok => v.live.local \in Copies,
         req' = [req EXCEPT ![r] = v] \/ req' = req
  PROVE  Upheld
<1>1. DoorShapes'
  BY DEF DoorInv, DoorShapes, LeftOf
<1>2. Granted'
  BY DEF DoorInv, Granted
<1>3. Spreads
  <2>1. \A q \in Request : req'[q].live.ok => req'[q].live.local \in Copies
    BY CopiesAre DEF DoorInv, DoorShapes
  <2>2. \A x \in sessions' : Copy(x.by, x.updated) \in Copies
    BY LeftSpreads
  <2> QED
    BY <2>1, <2>2, CopiesAre DEF Spreads
<1> QED
  BY <1>1, <1>2, <1>3 DEF Upheld, LeftOf

LEMMA AllLeft ==
  ASSUME DoorInv, sessions' = sessions
  PROVE  LeftOf(sessions', sessions)
<1>1. \A x \in sessions : Same(x, x)
  BY DEF Same
<1> QED
  BY <1>1 DEF LeftOf, DoorInv, DoorShapes

LEMMA RequestSteps ==
  ASSUME Shapes, DoorInv, NEW r \in Request,
         \/ \E id \in Session, s \in Source, lag \in 0 .. ClockLag : AskLogout(r, id, s, lag)
         \/ NotYours(r) \/ Evicted(r) \/ Served(r) \/ Page(r) \/ Destroy(r) \/ Logout(r)
  PROVE  Upheld
<1>1. Idling \in Asked /\ ~ Idling.live.ok
  BY DEF Idling, Asked, NoAnswer, Answered, Hashes
<1>2. CASE \E id \in Session, s \in Source, lag \in 0 .. ClockLag : AskLogout(r, id, s, lag)
  <2>1. PICK id \in Session, s \in Source, lag \in 0 .. ClockLag : AskLogout(r, id, s, lag)
    BY <1>2
  <2> DEFINE v == [state |-> "read", kind |-> "logout", id |-> id, peer |-> s,
                   live |-> NoAnswer]
  <2>2. v \in Asked /\ ~ v.live.ok
    BY DEF Asked, NoAnswer, Answered, Hashes
  <2>3. /\ req' = [req EXCEPT ![r] = v] \/ req' = req
        /\ UNCHANGED <<at, verdict, file, cred, offered, read, sessions>>
    BY <2>1 DEF AskLogout, ChargeOnly, attempts
  <2> HIDE DEF v
  <2> QED
    BY <2>2, <2>3, AllLeft, RequestStep
<1>3. CASE NotYours(r) \/ Page(r)
  <2>1. /\ req' = [req EXCEPT ![r] = Idling]
        /\ UNCHANGED <<at, verdict, file, cred, offered, read, sessions>>
    BY <1>3 DEF NotYours, Page, Ends, gateVars, attempts
  <2> QED
    BY <1>1, <2>1, AllLeft, RequestStep
<1>4. CASE Evicted(r) \/ Destroy(r) \/ Logout(r)
  <2>1. /\ req' = [req EXCEPT ![r] = Idling]
        /\ sessions' = Without(sessions, {req[r].id})
        /\ UNCHANGED <<at, verdict, file, cred, offered, read>>
    BY <1>4 DEF Evicted, Destroy, Logout, Ends, Remove, gateVars, attempts
  <2>2. LeftOf(sessions', sessions)
    BY <2>1, WithoutLeaves DEF DoorInv, DoorShapes
  <2> QED
    BY <1>1, <2>1, <2>2, RequestStep
<1>5. CASE Served(r)
  <2> DEFINE v == [req[r] EXCEPT !.state = "served"]
  <2>1. /\ req' = [req EXCEPT ![r] = v]
        /\ UNCHANGED <<at, verdict, file, cred, offered, read>>
    <3>1. req' = [req EXCEPT ![r].state = "served"] /\ UNCHANGED <<gateVars, file, cred, offered, read>>
      BY <1>5 DEF Served
    <3> QED
      BY <3>1 DEF gateVars, attempts
  <2>2. v \in Asked /\ v.live = req[r].live
    <3>1. req[r] \in Asked
      BY DEF DoorInv, DoorShapes
    <3> QED
      BY <3>1 DEF Asked
  <2> HIDE DEF v
  <2>3. v.live.ok => v.live.local \in Copies
    BY <2>2, CopiesAre
  <2>4. LeftOf(sessions', sessions)
    BY <1>5, ServedLeaves DEF DoorInv
  <2> QED
    BY <2>1, <2>2, <2>3, <2>4, RequestStep
<1> QED
  BY <1>2, <1>3, <1>4, <1>5

LEMMA TickKeeps ==
  ASSUME Shapes, DoorInv, Tick
  PROVE  Upheld
<1>1. UNCHANGED <<at, verdict, file, cred, offered, read, req>>
  BY DEF Tick, GateTick, attempts
<1>2. LeftOf(sessions', sessions)
  BY TickLeaves DEF DoorInv
<1>3. DoorShapes'
  BY <1>1, <1>2 DEF DoorInv, DoorShapes, LeftOf
<1>4. Granted'
  BY <1>1 DEF DoorInv, Granted
<1>5. Spreads
  BY <1>1, <1>2, LeftSpreads, CopiesAre DEF Spreads
<1> QED
  BY <1>1, <1>2, <1>3, <1>4, <1>5 DEF Upheld, LeftOf

\* A write of the file is the youngest copy of the credential, or the same.
LEMMA CommandStep ==
  ASSUME DoorInv, Commands
  PROVE  DoorInv'
<1>1. \/ file'.local = file.local
      \/ file'.local.updated = file.mod + 1
  BY DEF Commands, Disable, OtherKey, SetPassword, Rewrite
<1>2. /\ file' \in [local : Hashes, mod : Nat] /\ file'.mod = file.mod + 1
      /\ UNCHANGED <<at, verdict, cred, offered, read, sessions, req>>
  BY DEF Commands, Disable, OtherKey, SetPassword, Rewrite, DoorInv, DoorShapes, Hashes,
         gateVars, attempts
<1>3. DoorShapes' /\ Unique(sessions') /\ Granted'
  BY <1>2 DEF DoorInv, DoorShapes, Granted
<1>4. Copies' \subseteq Copies \cup {file'.local}
  BY <1>2, Zenon DEF Copies
<1>5. file.mod \in Nat
  BY DEF DoorInv, DoorShapes
<1>6. \A l \in Copies : l.updated \in Nat
  BY DEF Copies, DoorInv, DoorShapes, Answered, Asked, Hashes, Live, Copy
<1>7. file.local \in Copies
  BY CopiesAre
<1>8. Truthful'
  BY <1>1, <1>2, <1>4, <1>5, <1>6, <1>7 DEF DoorInv, Truthful, Dated
<1> QED
  BY <1>3, <1>8 DEF DoorInv

-----------------------------------------------------------------------------
LEMMA DoorInit == Init => DoorInv
<1> SUFFICES ASSUME Init PROVE DoorInv
  OBVIOUS
<1>1. NoAnswer \in Answered /\ ~ NoAnswer.ok /\ Idling \in Asked /\ ~ Idling.live.ok
  BY DEF NoAnswer, Answered, Hashes, Idling, Asked
<1>2. DoorShapes
  <2>1. file \in [local : Hashes, mod : Nat]
    BY DEF Init, Hashes
  <2>2. cred \in [have : BOOLEAN, local : Hashes, mod : Nat]
    <3>1. NoAnswer.local \in Hashes /\ file.local \in Hashes
      BY <1>1, <2>1 DEF Answered
    <3>2. \/ cred = [have |-> TRUE, local |-> file.local, mod |-> 0]
          \/ cred = [have |-> FALSE, local |-> NoAnswer.local, mod |-> 0]
      BY DEF Init
    <3>3. CASE cred = [have |-> TRUE, local |-> file.local, mod |-> 0]
      BY <3>1, <3>3
    <3>4. CASE cred = [have |-> FALSE, local |-> NoAnswer.local, mod |-> 0]
      BY <3>1, <3>4
    <3> QED
      BY <3>2, <3>3, <3>4
  <2> QED
    BY <1>1, <2>1, <2>2 DEF Init, DoorShapes
<1>3. Unique(sessions) /\ Granted
  BY DEF Init, Unique, GateInit, Granted
<1>4. ASSUME NEW l \in Copies PROVE l = file.local
  BY <1>1, <1>4 DEF Init, Copies
<1>5. file.local.updated <= file.mod
  BY DEF Init
<1> QED
  BY <1>2, <1>3, <1>4, <1>5 DEF DoorInv, Truthful, Dated

LEMMA DoorStep == Shapes /\ DoorInv /\ [Next]_vars => DoorInv'
<1> SUFFICES ASSUME Shapes, DoorInv, [Next]_vars PROVE DoorInv'
  OBVIOUS
<1>1. CASE Attempts
  <2>1. PICK a \in Attempt :
            \/ \E s \in Source, lag \in 0 .. ClockLag, p \in Password : Login(a, s, lag, p)
            \/ Refuse(a) \/ Enter(a) \/ GivesUp(a) \/ LockedOut(a)
            \/ Judge(a) \/ Verified(a) \/ Return(a) \/ Issue(a)
    BY <1>1, Zenon DEF Attempts
  <2>2. Upheld
    BY <2>1, LoginStep, QuietAttempts, JudgeStep, VerifiedStep, IssueStep, Zenon
  <2> QED
    BY <2>2, SpreadsSuffices DEF Upheld, DoorInv
<1>2. CASE Requests
  <2>1. Upheld
    BY <1>2, AskStep, RequestSteps, Zenon DEF Requests
  <2> QED
    BY <2>1, SpreadsSuffices DEF Upheld, DoorInv
<1>3. CASE Commands
  BY <1>3, CommandStep
<1>4. CASE Tick
  BY <1>4, TickKeeps, SpreadsSuffices DEF Upheld, DoorInv
<1>5. CASE UNCHANGED vars
  BY <1>5 DEF vars, door, gateVars, attempts, DoorInv, DoorShapes, Granted, Truthful, Copies
<1> QED
  BY <1>1, <1>2, <1>3, <1>4, <1>5, Zenon DEF Next

(* No two copies of the credential, a session's among them, carry the      *)
(* same date and different passwords, and a login that has succeeded still *)
(* holds the credential it was judged by (localCred, issue).               *)
THEOREM DoorInvariant == Spec => []DoorInv
<1>1. Spec => []Shapes
  BY DoorImplementsGate, GateInvariant, PTL DEF GInv
<1> QED
  BY <1>1, DoorInit, DoorStep, PTL DEF Spec

-----------------------------------------------------------------------------
\* A request becomes served only by Served.
LEMMA OnlyServedServes ==
  ASSUME DoorInv, [Next]_vars, NEW r \in Request, req[r].state = "read", req'[r].state = "served"
  PROVE  Served(r)
<1>1. req \in [Request -> Asked] /\ Idling.state = "idle"
  BY DEF DoorInv, DoorShapes, Idling
<1>2. ~ UNCHANGED req
  OBVIOUS
<1>3. Requests
  <2>1. ASSUME NEW a \in Attempt,
               \/ \E s \in Source, lag \in 0 .. ClockLag, p \in Password : Login(a, s, lag, p)
               \/ Refuse(a) \/ Enter(a) \/ GivesUp(a) \/ LockedOut(a)
               \/ Judge(a) \/ Verified(a) \/ Return(a) \/ Issue(a)
        PROVE  UNCHANGED req
    BY <2>1 DEF Login, Refuse, Enter, GivesUp, LockedOut, Judge, Verified, Return, Issue, door
  <2>2. Attempts => UNCHANGED req
    BY <2>1, Zenon DEF Attempts
  <2>3. Commands \/ Tick \/ UNCHANGED vars => UNCHANGED req
    BY DEF Commands, Disable, OtherKey, SetPassword, Rewrite, Tick, vars, door
  <2> QED
    BY <1>2, <2>2, <2>3, Zenon DEF Next
<1>4. PICK q \in Request :
         \/ \E id \in Session, s \in Source : Ask(q, id, s)
         \/ \E id \in Session, s \in Source, lag \in 0 .. ClockLag : AskLogout(q, id, s, lag)
         \/ NotYours(q) \/ Evicted(q) \/ Served(q) \/ Page(q) \/ Destroy(q) \/ Logout(q)
  BY <1>3, Zenon DEF Requests
<1>5. CASE Served(q)
  <2>1. req' = [req EXCEPT ![q].state = "served"]
    BY <1>5 DEF Served
  <2>2. q = r
    BY <1>1, <2>1
  <2> QED
    BY <1>5, <2>2
<1>6. CASE \E id \in Session, s \in Source : Ask(q, id, s)
  <2>1. req[q].state = "idle" /\ \E v : v.state = "read" /\ req' = [req EXCEPT ![q] = v]
    BY <1>6 DEF Ask
  <2> QED
    BY <1>1, <2>1
<1>7. CASE \E id \in Session, s \in Source, lag \in 0 .. ClockLag : AskLogout(q, id, s, lag)
  <2>1. req[q].state = "idle"
        /\ (req' = req \/ \E v : v.state = "read" /\ req' = [req EXCEPT ![q] = v])
    BY <1>7 DEF AskLogout
  <2> QED
    BY <1>1, <2>1
<1>8. CASE NotYours(q) \/ Evicted(q) \/ Page(q) \/ Destroy(q) \/ Logout(q)
  <2>1. req' = [req EXCEPT ![q] = Idling]
    BY <1>8 DEF NotYours, Evicted, Page, Destroy, Logout, Ends
  <2> QED
    BY <1>1, <2>1
<1> QED
  BY <1>4, <1>5, <1>6, <1>7, <1>8, Zenon

(* No session outlives its password: a request that could read the         *)
(* credential is served only by a session opened with the password that    *)
(* was in force when it was read (resolve, issue, localCred).              *)
THEOREM SessionsEndWithTheirPassword == Spec => NoSessionOutlivesItsPassword
<1> DEFINE Fair == \A r \in Request : \A x \in sessions :
                     (/\ req[r].state = "read" /\ req'[r].state = "served"
                      /\ x.id = req[r].id /\ req[r].live.ok)
                        => x.by = req[r].live.local.hash
<1>1. ASSUME DoorInv, [Next]_vars PROVE Fair
  <2> SUFFICES ASSUME NEW r \in Request, NEW x \in sessions, req[r].state = "read",
                      req'[r].state = "served", x.id = req[r].id, req[r].live.ok
               PROVE  x.by = req[r].live.local.hash
    OBVIOUS
  <2>1. Served(r)
    BY <1>1, OnlyServedServes
  <2>2. PICK y \in Held(r) : ~ Moved(r, y)
    BY <2>1, Zenon DEF Served
  <2>3. y = x
    BY <1>1, <2>2 DEF Held, DoorInv, Unique
  <2>4. x.updated = req[r].live.local.updated
    BY <2>2, <2>3 DEF Moved
  <2>5. Dated(Copy(x.by, x.updated), req[r].live.local)
    BY <1>1, CopiesAre DEF DoorInv, Truthful
  <2> QED
    BY <2>4, <2>5 DEF Dated, Copy
<1> QED
  BY <1>1, DoorInvariant, PTL DEF Spec, NoSessionOutlivesItsPassword

(* The gate's own promises hold of the door: its slots come back, its      *)
(* lockouts are announced in pairs and guesses are paced, whatever logins, *)
(* cookies and password changes do around it.                              *)
COROLLARY DoorKeepsTheGate == Spec => []SlotsBalance /\ []MilestonesPair /\ GuessesArePaced
  BY DoorImplementsGate, SlotsAreBalanced, MilestonesArePaired, GuessesPaced
=============================================================================
