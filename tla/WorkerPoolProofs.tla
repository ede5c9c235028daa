-------------------------- MODULE WorkerPoolProofs --------------------------
(***************************************************************************)
(* Proofs about the worker pool: who is served by which process, what      *)
(* keeps a process alive, how often one is charged, how many there are,    *)
(* and what Shutdown leaves.                                               *)
(***************************************************************************)
EXTENDS WorkerPool, FiniteSetTheorems, TLAPS

\* In the hands of a startup that is not settled yet.
BeingStarted(c) == \E x \in Call : pc[x] \in Starting /\ cl[x] = c
Finalizing(x) == pc[x] \in {"fin", "lost"}

LEMMA PrincipalKey == \A p \in Principal : p[1] \in Key
  BY DEF Principal

-----------------------------------------------------------------------------
(* The inductive invariant. *)

\* A request that has a client in its hands has one that was forked.
RequestShape ==
    \A x \in Call :
        /\ pc[x] # "idle" => who[x] \in Principal
        /\ pc[x] \in Holding \cup {"mark", "drop", "hello", "ready"} => cl[x] \in Client
        /\ pc[x] \in {"idle", "get", "wait", "spawn"} => cl[x] = None
        /\ cl[x] # None => proc[cl[x]] # "none"
        /\ pc[x] = "lost" => cl[x] \in dead

\* The process is the principal's from before the request is served by it.
OwnShape ==
    \A x \in Call :
        /\ pc[x] \in {"ping", "rpc", "stream", "job", "hello", "ready"} => owner[cl[x]] = who[x]
        /\ Finalizing(x) => owner[cl[x]][1] = KeyOf(x)

\* A reservation is the startup of one request, and the other way round.
SlotShape ==
    /\ \A x \in Call : pc[x] \in Starting => spawning[KeyOf(x)] = x
    /\ \A k \in Key :
        spawning[k] # None =>
            pc[spawning[k]] \in Starting /\ KeyOf(spawning[k]) = k /\ workers[k] = None

TableShape ==
    /\ \A c \in Client : proc[c] # "none" => owner[c] \in Principal
    /\ \A k \in Key :
        workers[k] # None => proc[workers[k]] # "none" /\ owner[workers[k]][1] = k

\* What is being started is in nobody else's hands.
StarteeShape ==
    \A x, y \in Call :
        pc[x] \in Starting /\ cl[x] # None =>
            /\ cl[x] \notin Current
            /\ pc[y] \in Starting /\ cl[y] = cl[x] => y = x

\* A client has left when it is neither current nor being started; it was
\* forked once and cannot come back.
Left(c) == proc[c] # "none" /\ c \notin Current /\ ~BeingStarted(c)
LeftShape ==
    /\ \A c \in superseded \cup graceful : Left(c)
    /\ \A c \in Client : charged[c] > 0 => Left(c)
    /\ \A x \in Call : pc[x] = "mark" => Left(cl[x])

HandleShape ==
    /\ \A h \in Handle :
        /\ pins[h] # None => h \in told /\ proc[pins[h]] # "none"
        /\ inode[h] # None => /\ h \in told /\ proc[inode[h]] # "none"
                              /\ pins[h] \in {None, inode[h]}
    /\ \A x \in Call :
        Finalizing(x) =>
            /\ hd[x] \in told
            /\ pins[hd[x]] = None
            /\ inode[hd[x]] \in {None, cl[x]}
    /\ \A x, y \in Call : Finalizing(x) /\ Finalizing(y) /\ hd[x] = hd[y] => x = y

HoldShape ==
    /\ \A c \in Client : IsFiniteSet(PinsOn(c))
    /\ HoldsBalance
    /\ \A c \in graceful : inflight[c] = 0

\* A process that is up and settled, and a reservation, take a slot each.
Settled == {c \in Running : ~BeingStarted(c)}
SlotsBound == Cardinality(Settled) + Cardinality(Reserved) <= Max
TrackShape == (~closed => sdAll = {}) /\ EveryProcessIsTracked

ShutdownShape ==
    /\ sd \in {"last", "done"} => Reserved = {} /\ Running \subseteq sdAll
    /\ sd = "done" => Running = {}

PoolInv ==
    /\ TypeOK
    /\ RequestShape
    /\ OwnShape
    /\ SlotShape
    /\ TableShape
    /\ StarteeShape
    /\ LeftShape
    /\ HandleShape
    /\ HandleStaysReachable
    /\ HoldShape
    /\ ChargedOnce
    /\ TrackShape
    /\ SlotsBound
    /\ ShutdownShape
-----------------------------------------------------------------------------
(* What the count of holds says of those who hold. *)

LEMMA HoldsArePositive ==
    ASSUME PoolInv
    PROVE  /\ \A x \in Call : pc[x] \in Holding => inflight[cl[x]] >= 1
           /\ \A h \in Handle : pins[h] # None => inflight[pins[h]] >= 1
           /\ \A c \in Client : /\ Cardinality(PinsOn(c)) \in Nat
                              /\ inflight[c] >= Cardinality(PinsOn(c))
<1> USE DEF PoolInv
<1>1. \A c \in Client : /\ IsFiniteSet(PinsOn(c))
                       /\ inflight[c] = Cardinality(Holders(c)) + Cardinality(PinsOn(c))
  BY DEF HoldShape, HoldsBalance
<1>2. \A c \in Client : IsFiniteSet(Holders(c))
  BY FiniteAssumption, FS_Subset DEF Holders
<1>3. \A c \in Client : Cardinality(Holders(c)) \in Nat /\ Cardinality(PinsOn(c)) \in Nat
  BY <1>1, <1>2, FS_CardinalityType
<1>4. ASSUME NEW x \in Call, pc[x] \in Holding PROVE inflight[cl[x]] >= 1
  <2>1. cl[x] \in Client /\ x \in Holders(cl[x])
    BY <1>4 DEF RequestShape, Holders
  <2>2. Cardinality(Holders(cl[x])) # 0
    BY <2>1, <1>2, FS_EmptySet
  <2> QED BY <2>1, <2>2, <1>1, <1>3
<1>5. ASSUME NEW h \in Handle, pins[h] # None PROVE inflight[pins[h]] >= 1
  <2>1. pins[h] \in Client /\ h \in PinsOn(pins[h])
    BY <1>5 DEF TypeOK, PinsOn
  <2>2. Cardinality(PinsOn(pins[h])) # 0
    BY <2>1, <1>1, FS_EmptySet
  <2> QED BY <2>1, <2>2, <1>1, <1>3
<1> QED BY <1>1, <1>3, <1>4, <1>5

-----------------------------------------------------------------------------
(* The helpers that several actions share. *)

LEMMA Detached ==
    ASSUME TypeOK, TableShape, NEW c \in Client, Detach(c)
    PROVE  /\ workers' \in [Key -> Client \cup {None}]
           /\ \A k \in Key : workers'[k] = IF workers[k] = c THEN None ELSE workers[k]
           /\ Current' = Current \ {c}
           /\ retiring' = retiring \cup {c}
           /\ spawning' = spawning
           /\ budgets' \subseteq Key
           /\ charged' \in [Client -> Nat]
           /\ \A d \in Client :
                charged'[d] = IF d = c /\ c \in Current THEN charged[d] + 1 ELSE charged[d]
<1> USE NoneAssumption, PrincipalKey DEF TypeOK, Current, IsCurrent, Detach
<1>1. workers' = [k \in Key |-> IF workers[k] = c THEN None ELSE workers[k]]
  OBVIOUS
<1>2. c \in Current => owner[c][1] \in Key
  BY DEF TableShape
<1>3. budgets' \subseteq Key /\ charged' \in [Client -> Nat]
  BY <1>2 DEF Charge
<1>4. Current' = Current \ {c}
  BY <1>1
<1> QED BY <1>1, <1>3, <1>4 DEF Charge

LEMMA Released ==
    ASSUME TypeOK, NEW c \in Client, inflight[c] >= 1, Release(c)
    PROVE  /\ inflight' \in [Client -> Nat]
           /\ stopping' \subseteq Client /\ graceful' \subseteq Client
  BY DEF TypeOK, Release

LEMMA DropWorkerTypeOK == ASSUME PoolInv, NEW x \in Call, DropWorker(x) PROVE TypeOK'
<1> USE DEF PoolInv
<1>1. cl[x] \in Client /\ Detach(cl[x])
  BY DEF DropWorker, Retire, RequestShape
<1>2. /\ budgets' \subseteq Key /\ charged' \in [Client -> Nat]
      /\ workers' \in [Key -> Client \cup {None}]
      /\ retiring' = retiring \cup {cl[x]} /\ spawning' = spawning
  BY <1>1, Detached
<1>3. cl[x] \in Client /\ TypeOK
  BY <1>1
<1> HIDE DEF PoolInv
<1>4. /\ pc' \in [Call -> CallState] /\ who' \in [Call -> Principal \cup {None}]
      /\ cl' \in [Call -> Client \cup {None}] /\ hd' \in [Call -> Handle \cup {None}]
      /\ last' \in [Call -> BOOLEAN]
  BY <1>3 DEF TypeOK, DropWorker, Return, Goto, CallState
<1>5. /\ dead' \subseteq Client /\ stopping' \subseteq Client
  BY <1>3 DEF TypeOK, DropWorker, Retire
<1> QED BY <1>2, <1>3, <1>4, <1>5 DEF DropWorker, TypeOK, down, upload

LEMMA DropWorkerLeftShape == ASSUME PoolInv, NEW x \in Call, DropWorker(x) PROVE LeftShape'
<1> USE DEF PoolInv
<1>1. cl[x] \in Client /\ proc[cl[x]] # "none" /\ Detach(cl[x])
  BY NoneAssumption DEF DropWorker, Retire, RequestShape
<1>2. /\ Current' = Current \ {cl[x]}
      /\ \A d \in Client :
           charged'[d] = IF d = cl[x] /\ cl[x] \in Current THEN charged[d] + 1 ELSE charged[d]
  BY <1>1, Detached
<1>3. proc' = proc /\ superseded' = superseded /\ graceful' = graceful
  BY DEF DropWorker
<1>4. \A y \in Call : pc'[y] \in Starting \/ pc'[y] = "mark" => pc'[y] = pc[y] /\ cl'[y] = cl[y]
  BY DEF DropWorker, Return, Goto, Starting, TypeOK
<1>5. \A c \in Client : Left(c) => Left(c)'
  BY <1>2, <1>3, <1>4 DEF Left, BeingStarted
<1>6. \A c \in Client : c = cl[x] /\ c \in Current => Left(c)'
  BY <1>1, <1>2, <1>3, <1>4, NoneAssumption DEF Left, BeingStarted, StarteeShape
<1>7. superseded \cup graceful \subseteq Client /\ \A y \in Call : pc[y] = "mark" => cl[y] \in Client
  BY DEF TypeOK, RequestShape
<1> HIDE DEF PoolInv
<1>8. LeftShape
  BY DEF PoolInv
<1> QED BY <1>1, <1>2, <1>3, <1>4, <1>5, <1>6, <1>7, <1>8 DEF LeftShape
-----------------------------------------------------------------------------
(* Every conjunct of the invariant is preserved: types. *)

LEMMA TypeOKNext == PoolInv /\ [Next]_vars => TypeOK'
<1> SUFFICES ASSUME PoolInv, [Next]_vars PROVE TypeOK'
  OBVIOUS
<1> USE NoneAssumption, PrincipalKey, HoldsArePositive DEF PoolInv, TypeOK, RequestShape,
         TableShape, Holding, Starting, KeyOf, CallState, Principal, Current, Reserved,
         PinsOn, Goto, Return, Take, Hold, LastOut, Release, Charge, IsCurrent, Detach,
         Retire, AtTable, NoWorker, MustStart, EndStartup, table, process, stop, down,
         upload, request, history
<1>1. ASSUME NEW x \in Call, Acquire(x) PROVE TypeOK'
  <2>1. CASE GetGivesUp(x)
    BY <2>1 DEF GetGivesUp
  <2>2. CASE GetWorker(x)
    BY <2>2 DEF GetWorker
  <2>3. CASE GetSupersedes(x)
    BY <2>3 DEF GetSupersedes
  <2>4. CASE MarkRetired(x)
    BY <2>4 DEF MarkRetired
  <2>5. CASE GetFindsCorpse(x)
    BY <2>5 DEF GetFindsCorpse
  <2>6. CASE GetJoins(x)
    BY <2>6 DEF GetJoins
  <2>7. CASE GetIsBlocked(x)
    BY <2>7 DEF GetIsBlocked
  <2>8. CASE GetFindsNoRoom(x)
    BY <2>8 DEF GetFindsNoRoom
  <2>9. CASE GetEvicts(x)
    BY <2>9 DEF GetEvicts
  <2>10. CASE GetReserves(x)
    BY <2>10 DEF GetReserves
  <2>11. CASE PingAnswered(x)
    BY <2>11 DEF PingAnswered
  <2>12. CASE PingFails(x)
    BY <2>12 DEF PingFails
  <2>13. CASE DropWorker(x)
    BY <2>13, DropWorkerTypeOK
  <2> QED BY <1>1, <2>1, <2>2, <2>3, <2>4, <2>5, <2>6, <2>7, <2>8, <2>9, <2>10, <2>11,
       <2>12, <2>13 DEF Acquire
<1>2. ASSUME NEW x \in Call, Startup(x) PROVE TypeOK'
  <2>1. ASSUME NEW c \in Client, Fork(x, c) PROVE TypeOK'
    BY <2>1 DEF Fork
  <2>2. CASE ForkFails(x)
    BY <2>2 DEF ForkFails
  <2>3. CASE HelloAnswered(x)
    BY <2>3 DEF HelloAnswered
  <2>4. CASE HelloFails(x)
    BY <2>4 DEF HelloFails
  <2>5. CASE Register(x)
    BY <2>5 DEF Register
  <2>6. CASE StartupFails(x)
    <3>1. KeyOf(x) \in Key /\ cl[x] \in Client \cup {None}
      BY <2>6 DEF StartupFails
    <3> HIDE DEF Principal, Current, Reserved, PinsOn, TableShape, RequestShape
    <3>2. /\ pc' \in [Call -> CallState] /\ who' \in [Call -> Principal \cup {None}]
          /\ cl' \in [Call -> Client \cup {None}] /\ last' \in [Call -> BOOLEAN]
          /\ spawning' \in [Key -> Call \cup {None}] /\ sdStart' \subseteq Call
      BY <2>6, <3>1 DEF StartupFails
    <3>3. /\ budgets' \subseteq Key /\ retiring' \subseteq Client
          /\ stopping' \subseteq Client /\ charged' \in [Client -> Nat]
      BY <2>6, <3>1 DEF StartupFails
    <3> QED BY <2>6, <3>2, <3>3 DEF StartupFails
  <2> QED BY <1>2, <2>1, <2>2, <2>3, <2>4, <2>5, <2>6 DEF Startup
<1>3. ASSUME NEW x \in Call, Use(x) PROVE TypeOK'
  <2>1. CASE Done(x)
    BY <2>1 DEF Done
  <2>2. CASE Broken(x)
    BY <2>2 DEF Broken
  <2>3. CASE OpenStream(x)
    BY <2>3 DEF OpenStream
  <2>4. CASE StartJob(x)
    BY <2>4 DEF StartJob
  <2>5. CASE JobOutlivesGrace(x)
    BY <2>5 DEF JobOutlivesGrace
  <2>6. ASSUME NEW y \in Call, CancelJob(y, x) PROVE TypeOK'
    <3>1. who[x] \in Principal /\ KeyOf(x) \in Key
      BY <2>6 DEF CancelJob, RequestShape
    <3>2. workers[KeyOf(x)] \in Client \cup {None}
      BY <3>1
    <3> HIDE DEF Principal, Current, Reserved, PinsOn, RequestShape, TableShape
    <3> QED BY <2>6, <3>1, <3>2 DEF CancelJob, Hold, Goto, table, process, stop, down, upload,
               request, history
  <2>7. ASSUME NEW h \in Handle, OpenWrite(x, h) PROVE TypeOK'
    BY <2>7 DEF OpenWrite
  <2>8. CASE Finalized(x)
    <3>1. cl[x] \in Client /\ inflight[cl[x]] >= 1
      BY <2>8, HoldsArePositive DEF Finalized, RequestShape
    <3>2. /\ inflight' \in [Client -> Nat]
          /\ stopping' \subseteq Client /\ graceful' \subseteq Client
      BY <2>8, <3>1, Released DEF Finalized
    <3> QED BY <2>8, <3>1, <3>2 DEF Finalized, Return, Goto, table, process, down, upload
  <2>9. CASE FinalizeLost(x)
    BY <2>9 DEF FinalizeLost
  <2>10. CASE FinalizeRefused(x)
    <3>1. cl[x] \in Client
      BY <2>10 DEF FinalizeRefused
    <3> HIDE DEF Principal, Current, Reserved, PinsOn, TableShape, RequestShape
    <3> QED BY <2>10, <3>1 DEF FinalizeRefused
  <2> QED BY <1>3, <2>1, <2>2, <2>3, <2>4, <2>5, <2>6, <2>7, <2>8, <2>9, <2>10 DEF Use
<1>4. ASSUME NEW x \in Call, NEW p \in Principal, Begin(x, p) PROVE TypeOK'
  BY <1>4 DEF Begin
<1>5. ASSUME NEW x \in Call, NEW p \in Principal, NEW h \in Handle, ClaimUpload(x, p, h)
      PROVE  TypeOK'
  <2>1. pins[h] \in Client /\ inflight[pins[h]] >= 1
    BY <1>5, HoldsArePositive DEF ClaimUpload
  <2>2. CASE pins[h] \in dead
    <3>1. /\ inflight' \in [Client -> Nat]
          /\ stopping' \subseteq Client /\ graceful' \subseteq Client
      BY <1>5, <2>1, <2>2, Released DEF ClaimUpload
    <3> QED BY <1>5, <2>1, <2>2, <3>1 DEF ClaimUpload, table, process, down, request
  <2>3. CASE pins[h] \notin dead
    <3> HIDE DEF Principal, Current, Reserved, PinsOn, TableShape, RequestShape
    <3> QED BY <1>5, <2>1, <2>3 DEF ClaimUpload, Goto, table, process, down
  <2> QED BY <2>2, <2>3
<1>6. ASSUME NEW h \in Handle, WorkerDropsUpload(h) \/ SweepPin(h) PROVE TypeOK'
  BY <1>6 DEF WorkerDropsUpload, SweepPin
<1>7. ASSUME NEW k \in Key, ReapIdle(k) PROVE TypeOK'
  BY <1>7 DEF ReapIdle
<1>8. ASSUME NEW c \in Client, Worker(c) PROVE TypeOK'
  <2>1. CASE RetireBroken(c)
    <3>1. Detach(c)
      BY <2>1 DEF RetireBroken, Retire
    <3>2. /\ budgets' \subseteq Key /\ charged' \in [Client -> Nat]
          /\ workers' \in [Key -> Client \cup {None}]
          /\ retiring' = retiring \cup {c} /\ spawning' = spawning
      BY <3>1, Detached
    <3> QED BY <2>1, <3>2 DEF RetireBroken, Retire, process, stop, down, upload, request, history
  <2>2. CASE Terminate(c)
    BY <2>2 DEF Terminate
  <2>3. CASE Exit(c)
    BY <2>3 DEF Exit
  <2>4. CASE ReadEnd(c)
    BY <2>4 DEF ReadEnd
  <2>5. CASE SlotFreed(c)
    BY <2>5 DEF SlotFreed
  <2> QED BY <1>8, <2>1, <2>2, <2>3, <2>4, <2>5 DEF Worker
<1>9. ASSUME Shutdown \/ ShutdownStep PROVE TypeOK'
  <2>1. CASE Shutdown
    BY <2>1 DEF Shutdown
  <2>2. CASE DropPins
    BY <2>2 DEF DropPins
  <2>3. CASE Sweep
    BY <2>3 DEF Sweep
  <2>4. CASE StartupsSettled
    BY <2>4 DEF StartupsSettled
  <2>5. CASE ShutdownDone
    BY <2>5 DEF ShutdownDone
  <2> QED BY <1>9, <2>1, <2>2, <2>3, <2>4, <2>5 DEF ShutdownStep
<1>10. CASE UNCHANGED vars
  BY <1>10 DEF vars
<1> QED BY <1>1, <1>2, <1>3, <1>4, <1>5, <1>6, <1>7, <1>8, <1>9, <1>10 DEF Next
-----------------------------------------------------------------------------
(* Requests, and the processes they are served by. *)

LEMMA RequestShapeNext == PoolInv /\ [Next]_vars => RequestShape'
<1> SUFFICES ASSUME PoolInv, [Next]_vars PROVE RequestShape'
  OBVIOUS
<1> USE NoneAssumption, PrincipalKey DEF PoolInv, TypeOK, RequestShape, TableShape,
         HandleShape, Holding, Starting, KeyOf, Finalizing, Goto, Return, Take, Hold,
         LastOut, Release, Charge, IsCurrent, Detach, Retire, AtTable, NoWorker, MustStart,
         EndStartup, table, process, stop, down, upload, request, history
<1>1. ASSUME NEW x \in Call, Acquire(x) PROVE RequestShape'
  BY <1>1 DEF Acquire, GetGivesUp, GetWorker, GetSupersedes, MarkRetired,
       GetFindsCorpse, GetJoins, GetIsBlocked, GetFindsNoRoom, GetEvicts, GetReserves,
       PingAnswered, PingFails, DropWorker
<1>2. ASSUME NEW x \in Call, Startup(x) PROVE RequestShape'
  BY <1>2 DEF Startup, Fork, ForkFails, HelloAnswered, HelloFails, Register,
       StartupFails
<1>3. ASSUME NEW x \in Call, Use(x) PROVE RequestShape'
  BY <1>3 DEF Use, Done, Broken, OpenStream, StartJob, JobOutlivesGrace, CancelJob,
       OpenWrite, Finalized, FinalizeLost, FinalizeRefused
<1>4. ASSUME NEW x \in Call, NEW p \in Principal, Begin(x, p) PROVE RequestShape'
  BY <1>4 DEF Begin
<1>5. ASSUME NEW x \in Call, NEW p \in Principal, NEW h \in Handle, ClaimUpload(x, p, h)
      PROVE  RequestShape'
  BY <1>5 DEF ClaimUpload
<1>6. ASSUME NEW h \in Handle, WorkerDropsUpload(h) \/ SweepPin(h) PROVE RequestShape'
  BY <1>6 DEF WorkerDropsUpload, SweepPin
<1>7. ASSUME NEW k \in Key, ReapIdle(k) PROVE RequestShape'
  BY <1>7 DEF ReapIdle
<1>8. ASSUME NEW c \in Client, Worker(c) PROVE RequestShape'
  BY <1>8 DEF Worker, RetireBroken, Terminate, Exit, ReadEnd, SlotFreed
<1>9. ASSUME Shutdown \/ ShutdownStep PROVE RequestShape'
  BY <1>9 DEF Shutdown, ShutdownStep, DropPins, Sweep, StartupsSettled, ShutdownDone
<1>10. CASE UNCHANGED vars
  BY <1>10 DEF vars
<1> QED BY <1>1, <1>2, <1>3, <1>4, <1>5, <1>6, <1>7, <1>8, <1>9, <1>10 DEF Next

LEMMA OwnShapeNext == PoolInv /\ [Next]_vars => OwnShape'
<1> SUFFICES ASSUME PoolInv, [Next]_vars PROVE OwnShape'
  OBVIOUS
<1> USE NoneAssumption, PrincipalKey DEF PoolInv, TypeOK, OwnShape, RequestShape,
         TableShape, StarteeShape, Holding, Starting, KeyOf, Finalizing, Goto, Return, Take,
         Hold, LastOut, Release, Charge, IsCurrent, Detach, Retire, AtTable, NoWorker,
         MustStart, EndStartup, table, process, stop, down, upload, request, history
<1>1. ASSUME NEW x \in Call, Acquire(x) PROVE OwnShape'
  BY <1>1 DEF Acquire, GetGivesUp, GetWorker, GetSupersedes, MarkRetired,
       GetFindsCorpse, GetJoins, GetIsBlocked, GetFindsNoRoom, GetEvicts, GetReserves,
       PingAnswered, PingFails, DropWorker
<1>2. ASSUME NEW x \in Call, Startup(x) PROVE OwnShape'
  BY <1>2 DEF Startup, Fork, ForkFails, HelloAnswered, HelloFails, Register,
       StartupFails
<1>3. ASSUME NEW x \in Call, Use(x) PROVE OwnShape'
  BY <1>3 DEF Use, Done, Broken, OpenStream, StartJob, JobOutlivesGrace, CancelJob,
       OpenWrite, Finalized, FinalizeLost, FinalizeRefused
<1>4. ASSUME NEW x \in Call, NEW p \in Principal, Begin(x, p) PROVE OwnShape'
  BY <1>4 DEF Begin
<1>5. ASSUME NEW x \in Call, NEW p \in Principal, NEW h \in Handle, ClaimUpload(x, p, h)
      PROVE  OwnShape'
  BY <1>5 DEF ClaimUpload
<1>6. ASSUME NEW h \in Handle, WorkerDropsUpload(h) \/ SweepPin(h) PROVE OwnShape'
  BY <1>6 DEF WorkerDropsUpload, SweepPin
<1>7. ASSUME NEW k \in Key, ReapIdle(k) PROVE OwnShape'
  BY <1>7 DEF ReapIdle
<1>8. ASSUME NEW c \in Client, Worker(c) PROVE OwnShape'
  BY <1>8 DEF Worker, RetireBroken, Terminate, Exit, ReadEnd, SlotFreed
<1>9. ASSUME Shutdown \/ ShutdownStep PROVE OwnShape'
  BY <1>9 DEF Shutdown, ShutdownStep, DropPins, Sweep, StartupsSettled, ShutdownDone
<1>10. CASE UNCHANGED vars
  BY <1>10 DEF vars
<1> QED BY <1>1, <1>2, <1>3, <1>4, <1>5, <1>6, <1>7, <1>8, <1>9, <1>10 DEF Next
-----------------------------------------------------------------------------
(* The table, and who leaves it. *)

LEMMA SlotShapeNext == PoolInv /\ [Next]_vars => SlotShape'
<1> SUFFICES ASSUME PoolInv, [Next]_vars PROVE SlotShape'
  OBVIOUS
<1> USE NoneAssumption, PrincipalKey DEF PoolInv, TypeOK, SlotShape, RequestShape, Holding,
         Starting, KeyOf, Goto, Return, Take, Hold, LastOut, Release, Charge, IsCurrent,
         Detach, Retire, AtTable, NoWorker, MustStart, EndStartup, table, process, stop,
         down, upload, request, history
<1>1. ASSUME NEW x \in Call, Acquire(x) PROVE SlotShape'
  <2>1. CASE GetGivesUp(x)
    BY <2>1 DEF GetGivesUp
  <2>2. CASE GetWorker(x)
    BY <2>2 DEF GetWorker
  <2>3. CASE GetSupersedes(x)
    BY <2>3 DEF GetSupersedes
  <2>4. CASE MarkRetired(x)
    BY <2>4 DEF MarkRetired
  <2>5. CASE GetFindsCorpse(x)
    BY <2>5 DEF GetFindsCorpse
  <2>6. CASE GetJoins(x)
    BY <2>6 DEF GetJoins
  <2>7. CASE GetIsBlocked(x)
    BY <2>7 DEF GetIsBlocked
  <2>8. CASE GetFindsNoRoom(x)
    BY <2>8 DEF GetFindsNoRoom
  <2>9. CASE GetEvicts(x)
    BY <2>9 DEF GetEvicts
  <2>10. CASE GetReserves(x)
    BY <2>10 DEF GetReserves
  <2>11. CASE PingAnswered(x)
    BY <2>11 DEF PingAnswered
  <2>12. CASE PingFails(x)
    BY <2>12 DEF PingFails
  <2>13. CASE DropWorker(x)
    BY <2>13 DEF DropWorker
  <2> QED BY <1>1, <2>1, <2>2, <2>3, <2>4, <2>5, <2>6, <2>7, <2>8, <2>9, <2>10, <2>11,
       <2>12, <2>13 DEF Acquire
<1>2. ASSUME NEW x \in Call, Startup(x) PROVE SlotShape'
  BY <1>2 DEF Startup, Fork, ForkFails, HelloAnswered, HelloFails, Register,
       StartupFails
<1>3. ASSUME NEW x \in Call, Use(x) PROVE SlotShape'
  BY <1>3 DEF Use, Done, Broken, OpenStream, StartJob, JobOutlivesGrace, CancelJob,
       OpenWrite, Finalized, FinalizeLost, FinalizeRefused
<1>4. ASSUME NEW x \in Call, NEW p \in Principal, Begin(x, p) PROVE SlotShape'
  BY <1>4 DEF Begin
<1>5. ASSUME NEW x \in Call, NEW p \in Principal, NEW h \in Handle, ClaimUpload(x, p, h)
      PROVE  SlotShape'
  BY <1>5 DEF ClaimUpload
<1>6. ASSUME NEW h \in Handle, WorkerDropsUpload(h) \/ SweepPin(h) PROVE SlotShape'
  BY <1>6 DEF WorkerDropsUpload, SweepPin
<1>7. ASSUME NEW k \in Key, ReapIdle(k) PROVE SlotShape'
  BY <1>7 DEF ReapIdle
<1>8. ASSUME NEW c \in Client, Worker(c) PROVE SlotShape'
  BY <1>8 DEF Worker, RetireBroken, Terminate, Exit, ReadEnd, SlotFreed
<1>9. ASSUME Shutdown \/ ShutdownStep PROVE SlotShape'
  BY <1>9 DEF Shutdown, ShutdownStep, DropPins, Sweep, StartupsSettled, ShutdownDone
<1>10. CASE UNCHANGED vars
  BY <1>10 DEF vars
<1> QED BY <1>1, <1>2, <1>3, <1>4, <1>5, <1>6, <1>7, <1>8, <1>9, <1>10 DEF Next

LEMMA TableShapeNext == PoolInv /\ [Next]_vars => TableShape'
<1> SUFFICES ASSUME PoolInv, [Next]_vars PROVE TableShape'
  OBVIOUS
<1> USE NoneAssumption, PrincipalKey DEF PoolInv, TypeOK, TableShape, RequestShape,
         OwnShape, Holding, Starting, KeyOf, Goto, Return, Take, Hold, LastOut, Release,
         Charge, IsCurrent, Detach, Retire, AtTable, NoWorker, MustStart, EndStartup, table,
         process, stop, down, upload, request, history
<1>1. ASSUME NEW x \in Call, Acquire(x) PROVE TableShape'
  <2>1. CASE GetGivesUp(x)
    BY <2>1 DEF GetGivesUp
  <2>2. CASE GetWorker(x)
    BY <2>2 DEF GetWorker
  <2>3. CASE GetSupersedes(x)
    BY <2>3 DEF GetSupersedes
  <2>4. CASE MarkRetired(x)
    BY <2>4 DEF MarkRetired
  <2>5. CASE GetFindsCorpse(x)
    BY <2>5 DEF GetFindsCorpse
  <2>6. CASE GetJoins(x)
    BY <2>6 DEF GetJoins
  <2>7. CASE GetIsBlocked(x)
    BY <2>7 DEF GetIsBlocked
  <2>8. CASE GetFindsNoRoom(x)
    BY <2>8 DEF GetFindsNoRoom
  <2>9. CASE GetEvicts(x)
    BY <2>9 DEF GetEvicts
  <2>10. CASE GetReserves(x)
    BY <2>10 DEF GetReserves
  <2>11. CASE PingAnswered(x)
    BY <2>11 DEF PingAnswered
  <2>12. CASE PingFails(x)
    BY <2>12 DEF PingFails
  <2>13. CASE DropWorker(x)
    BY <2>13 DEF DropWorker
  <2> QED BY <1>1, <2>1, <2>2, <2>3, <2>4, <2>5, <2>6, <2>7, <2>8, <2>9, <2>10, <2>11,
       <2>12, <2>13 DEF Acquire
<1>2. ASSUME NEW x \in Call, Startup(x) PROVE TableShape'
  BY <1>2 DEF Startup, Fork, ForkFails, HelloAnswered, HelloFails, Register,
       StartupFails
<1>3. ASSUME NEW x \in Call, Use(x) PROVE TableShape'
  BY <1>3 DEF Use, Done, Broken, OpenStream, StartJob, JobOutlivesGrace, CancelJob,
       OpenWrite, Finalized, FinalizeLost, FinalizeRefused
<1>4. ASSUME NEW x \in Call, NEW p \in Principal, Begin(x, p) PROVE TableShape'
  BY <1>4 DEF Begin
<1>5. ASSUME NEW x \in Call, NEW p \in Principal, NEW h \in Handle, ClaimUpload(x, p, h)
      PROVE  TableShape'
  BY <1>5 DEF ClaimUpload
<1>6. ASSUME NEW h \in Handle, WorkerDropsUpload(h) \/ SweepPin(h) PROVE TableShape'
  BY <1>6 DEF WorkerDropsUpload, SweepPin
<1>7. ASSUME NEW k \in Key, ReapIdle(k) PROVE TableShape'
  BY <1>7 DEF ReapIdle
<1>8. ASSUME NEW c \in Client, Worker(c) PROVE TableShape'
  BY <1>8 DEF Worker, RetireBroken, Terminate, Exit, ReadEnd, SlotFreed
<1>9. ASSUME Shutdown \/ ShutdownStep PROVE TableShape'
  BY <1>9 DEF Shutdown, ShutdownStep, DropPins, Sweep, StartupsSettled, ShutdownDone
<1>10. CASE UNCHANGED vars
  BY <1>10 DEF vars
<1> QED BY <1>1, <1>2, <1>3, <1>4, <1>5, <1>6, <1>7, <1>8, <1>9, <1>10 DEF Next

LEMMA StarteeShapeNext == PoolInv /\ [Next]_vars => StarteeShape'
<1> SUFFICES ASSUME PoolInv, [Next]_vars PROVE StarteeShape'
  OBVIOUS
<1> USE NoneAssumption, PrincipalKey DEF PoolInv, TypeOK, StarteeShape, RequestShape,
         SlotShape, TableShape, Holding, Starting, KeyOf, Current, Goto, Return, Take, Hold,
         LastOut, Release, Charge, IsCurrent, Detach, Retire, AtTable, NoWorker, MustStart,
         EndStartup, table, process, stop, down, upload, request, history
<1>1. ASSUME NEW x \in Call, Acquire(x) PROVE StarteeShape'
  BY <1>1 DEF Acquire, GetGivesUp, GetWorker, GetSupersedes, MarkRetired,
       GetFindsCorpse, GetJoins, GetIsBlocked, GetFindsNoRoom, GetEvicts, GetReserves,
       PingAnswered, PingFails, DropWorker
<1>2. ASSUME NEW x \in Call, Startup(x) PROVE StarteeShape'
  BY <1>2 DEF Startup, Fork, ForkFails, HelloAnswered, HelloFails, Register,
       StartupFails
<1>3. ASSUME NEW x \in Call, Use(x) PROVE StarteeShape'
  BY <1>3 DEF Use, Done, Broken, OpenStream, StartJob, JobOutlivesGrace, CancelJob,
       OpenWrite, Finalized, FinalizeLost, FinalizeRefused
<1>4. ASSUME NEW x \in Call, NEW p \in Principal, Begin(x, p) PROVE StarteeShape'
  BY <1>4 DEF Begin
<1>5. ASSUME NEW x \in Call, NEW p \in Principal, NEW h \in Handle, ClaimUpload(x, p, h)
      PROVE  StarteeShape'
  BY <1>5 DEF ClaimUpload
<1>6. ASSUME NEW h \in Handle, WorkerDropsUpload(h) \/ SweepPin(h) PROVE StarteeShape'
  BY <1>6 DEF WorkerDropsUpload, SweepPin
<1>7. ASSUME NEW k \in Key, ReapIdle(k) PROVE StarteeShape'
  BY <1>7 DEF ReapIdle
<1>8. ASSUME NEW c \in Client, Worker(c) PROVE StarteeShape'
  BY <1>8 DEF Worker, RetireBroken, Terminate, Exit, ReadEnd, SlotFreed
<1>9. ASSUME Shutdown \/ ShutdownStep PROVE StarteeShape'
  BY <1>9 DEF Shutdown, ShutdownStep, DropPins, Sweep, StartupsSettled, ShutdownDone
<1>10. CASE UNCHANGED vars
  BY <1>10 DEF vars
<1> QED BY <1>1, <1>2, <1>3, <1>4, <1>5, <1>6, <1>7, <1>8, <1>9, <1>10 DEF Next

LEMMA LeftShapeNext == PoolInv /\ [Next]_vars => LeftShape'
<1> SUFFICES ASSUME PoolInv, [Next]_vars PROVE LeftShape'
  OBVIOUS
<1> USE NoneAssumption, PrincipalKey DEF PoolInv, TypeOK, StarteeShape, RequestShape,
         SlotShape, TableShape, LeftShape, Holding, Starting, KeyOf, Current, BeingStarted,
         Left, Goto, Return, Take, Hold, LastOut, Release, Charge, IsCurrent, Detach,
         Retire, AtTable, NoWorker, MustStart, EndStartup, table, process, stop, down,
         upload, request, history
<1>1. ASSUME NEW x \in Call, Acquire(x) PROVE LeftShape'
  <2>1. CASE GetGivesUp(x)
    BY <2>1 DEF GetGivesUp
  <2>2. CASE GetWorker(x)
    <3>1. /\ table' = table /\ proc' = proc /\ superseded' = superseded
          /\ graceful' = graceful /\ charged' = charged
          /\ \A z \in Call : pc'[z] \in Starting \/ pc'[z] = "mark" =>
                                  pc'[z] = pc[z] /\ cl'[z] = cl[z]
      BY <2>2 DEF GetWorker
    <3>2. \A c \in Client : Left(c) => Left(c)'
      BY <3>1
    <3> HIDE DEF Left
    <3> QED BY <3>1, <3>2
  <2>3. CASE GetSupersedes(x)
    BY <2>3 DEF GetSupersedes
  <2>4. CASE MarkRetired(x)
    BY <2>4 DEF MarkRetired
  <2>5. CASE GetFindsCorpse(x)
    BY <2>5 DEF GetFindsCorpse
  <2>6. CASE GetJoins(x)
    BY <2>6 DEF GetJoins
  <2>7. CASE GetIsBlocked(x)
    BY <2>7 DEF GetIsBlocked
  <2>8. CASE GetFindsNoRoom(x)
    BY <2>8 DEF GetFindsNoRoom
  <2>9. CASE GetEvicts(x)
    BY <2>9 DEF GetEvicts
  <2>10. CASE GetReserves(x)
    BY <2>10 DEF GetReserves
  <2>11. CASE PingAnswered(x)
    BY <2>11 DEF PingAnswered
  <2>12. CASE PingFails(x)
    BY <2>12 DEF PingFails
  <2>13. CASE DropWorker(x)
    BY <2>13, DropWorkerLeftShape
  <2> QED BY <1>1, <2>1, <2>2, <2>3, <2>4, <2>5, <2>6, <2>7, <2>8, <2>9, <2>10, <2>11,
       <2>12, <2>13 DEF Acquire
<1>2. ASSUME NEW x \in Call, Startup(x) PROVE LeftShape'
  BY <1>2 DEF Startup, Fork, ForkFails, HelloAnswered, HelloFails, Register,
       StartupFails
<1>3. ASSUME NEW x \in Call, Use(x) PROVE LeftShape'
  <2>1. CASE Done(x)
    BY <2>1 DEF Done
  <2>2. CASE Broken(x)
    BY <2>2 DEF Broken
  <2>3. CASE OpenStream(x)
    BY <2>3 DEF OpenStream
  <2>4. CASE StartJob(x)
    BY <2>4 DEF StartJob
  <2>5. CASE JobOutlivesGrace(x)
    BY <2>5 DEF JobOutlivesGrace
  <2>6. ASSUME NEW y \in Call, CancelJob(y, x) PROVE LeftShape'
    <3>1. /\ table' = table /\ proc' = proc /\ superseded' = superseded
          /\ graceful' = graceful /\ charged' = charged
          /\ \A z \in Call : pc'[z] \in Starting \/ pc'[z] = "mark" =>
                                  pc'[z] = pc[z] /\ cl'[z] = cl[z]
      BY <2>6 DEF CancelJob
    <3>2. \A c \in Client : Left(c) => Left(c)'
      BY <3>1
    <3> HIDE DEF Left
    <3> QED BY <3>1, <3>2
  <2>7. ASSUME NEW h \in Handle, OpenWrite(x, h) PROVE LeftShape'
    BY <2>7 DEF OpenWrite
  <2>8. CASE Finalized(x)
    BY <2>8 DEF Finalized
  <2>9. CASE FinalizeLost(x)
    BY <2>9 DEF FinalizeLost
  <2>10. CASE FinalizeRefused(x)
    BY <2>10 DEF FinalizeRefused
  <2> QED BY <1>3, <2>1, <2>2, <2>3, <2>4, <2>5, <2>6, <2>7, <2>8, <2>9, <2>10 DEF Use
<1>4. ASSUME NEW x \in Call, NEW p \in Principal, Begin(x, p) PROVE LeftShape'
  BY <1>4 DEF Begin
<1>5. ASSUME NEW x \in Call, NEW p \in Principal, NEW h \in Handle, ClaimUpload(x, p, h)
      PROVE  LeftShape'
  BY <1>5 DEF ClaimUpload
<1>6. ASSUME NEW h \in Handle, WorkerDropsUpload(h) \/ SweepPin(h) PROVE LeftShape'
  BY <1>6 DEF WorkerDropsUpload, SweepPin
<1>7. ASSUME NEW k \in Key, ReapIdle(k) PROVE LeftShape'
  BY <1>7 DEF ReapIdle
<1>8. ASSUME NEW c \in Client, Worker(c) PROVE LeftShape'
  BY <1>8 DEF Worker, RetireBroken, Terminate, Exit, ReadEnd, SlotFreed
<1>9. ASSUME Shutdown \/ ShutdownStep PROVE LeftShape'
  BY <1>9 DEF Shutdown, ShutdownStep, DropPins, Sweep, StartupsSettled, ShutdownDone
<1>10. CASE UNCHANGED vars
  BY <1>10 DEF vars
<1> QED BY <1>1, <1>2, <1>3, <1>4, <1>5, <1>6, <1>7, <1>8, <1>9, <1>10 DEF Next

LEMMA ChargedOnceNext == PoolInv /\ [Next]_vars => ChargedOnce'
<1> SUFFICES ASSUME PoolInv, [Next]_vars PROVE ChargedOnce'
  OBVIOUS
<1> USE NoneAssumption, PrincipalKey DEF PoolInv, TypeOK, StarteeShape, RequestShape,
         LeftShape, TableShape, ChargedOnce, Holding, Starting, KeyOf, Current,
         BeingStarted, Left, Goto, Return, Take, Hold, LastOut, Release, Charge, IsCurrent,
         Detach, Retire, AtTable, NoWorker, MustStart, EndStartup, table, process, stop,
         down, upload, request, history
<1>1. ASSUME NEW x \in Call, Acquire(x) PROVE ChargedOnce'
  <2>1. CASE GetGivesUp(x)
    BY <2>1 DEF GetGivesUp
  <2>2. CASE GetWorker(x)
    BY <2>2 DEF GetWorker
  <2>3. CASE GetSupersedes(x)
    BY <2>3 DEF GetSupersedes
  <2>4. CASE MarkRetired(x)
    BY <2>4 DEF MarkRetired
  <2>5. CASE GetFindsCorpse(x)
    BY <2>5 DEF GetFindsCorpse
  <2>6. CASE GetJoins(x)
    BY <2>6 DEF GetJoins
  <2>7. CASE GetIsBlocked(x)
    BY <2>7 DEF GetIsBlocked
  <2>8. CASE GetFindsNoRoom(x)
    BY <2>8 DEF GetFindsNoRoom
  <2>9. CASE GetEvicts(x)
    BY <2>9 DEF GetEvicts
  <2>10. CASE GetReserves(x)
    BY <2>10 DEF GetReserves
  <2>11. CASE PingAnswered(x)
    BY <2>11 DEF PingAnswered
  <2>12. CASE PingFails(x)
    BY <2>12 DEF PingFails
  <2>13. CASE DropWorker(x)
    BY <2>13 DEF DropWorker
  <2> QED BY <1>1, <2>1, <2>2, <2>3, <2>4, <2>5, <2>6, <2>7, <2>8, <2>9, <2>10, <2>11,
       <2>12, <2>13 DEF Acquire
<1>2. ASSUME NEW x \in Call, Startup(x) PROVE ChargedOnce'
  BY <1>2 DEF Startup, Fork, ForkFails, HelloAnswered, HelloFails, Register,
       StartupFails
<1>3. ASSUME NEW x \in Call, Use(x) PROVE ChargedOnce'
  BY <1>3 DEF Use, Done, Broken, OpenStream, StartJob, JobOutlivesGrace, CancelJob,
       OpenWrite, Finalized, FinalizeLost, FinalizeRefused
<1>4. ASSUME NEW x \in Call, NEW p \in Principal, Begin(x, p) PROVE ChargedOnce'
  BY <1>4 DEF Begin
<1>5. ASSUME NEW x \in Call, NEW p \in Principal, NEW h \in Handle, ClaimUpload(x, p, h)
      PROVE  ChargedOnce'
  BY <1>5 DEF ClaimUpload
<1>6. ASSUME NEW h \in Handle, WorkerDropsUpload(h) \/ SweepPin(h) PROVE ChargedOnce'
  BY <1>6 DEF WorkerDropsUpload, SweepPin
<1>7. ASSUME NEW k \in Key, ReapIdle(k) PROVE ChargedOnce'
  BY <1>7 DEF ReapIdle
<1>8. ASSUME NEW c \in Client, Worker(c) PROVE ChargedOnce'
  BY <1>8 DEF Worker, RetireBroken, Terminate, Exit, ReadEnd, SlotFreed
<1>9. ASSUME Shutdown \/ ShutdownStep PROVE ChargedOnce'
  BY <1>9 DEF Shutdown, ShutdownStep, DropPins, Sweep, StartupsSettled, ShutdownDone
<1>10. CASE UNCHANGED vars
  BY <1>10 DEF vars
<1> QED BY <1>1, <1>2, <1>3, <1>4, <1>5, <1>6, <1>7, <1>8, <1>9, <1>10 DEF Next
-----------------------------------------------------------------------------
(* Uploads. *)

LEMMA HandleShapeNext == PoolInv /\ [Next]_vars => HandleShape'
<1> SUFFICES ASSUME PoolInv, [Next]_vars PROVE HandleShape'
  OBVIOUS
<1> USE NoneAssumption, PrincipalKey DEF PoolInv, TypeOK, RequestShape, HandleShape,
         TableShape, Holding, Starting, KeyOf, Finalizing, Goto, Return, Take, Hold,
         LastOut, Release, Charge, IsCurrent, Detach, Retire, AtTable, NoWorker, MustStart,
         EndStartup, table, process, stop, down, upload, request, history
<1>1. ASSUME NEW x \in Call, Acquire(x) PROVE HandleShape'
  <2>1. CASE GetGivesUp(x)
    BY <2>1 DEF GetGivesUp
  <2>2. CASE GetWorker(x)
    BY <2>2 DEF GetWorker
  <2>3. CASE GetSupersedes(x)
    BY <2>3 DEF GetSupersedes
  <2>4. CASE MarkRetired(x)
    BY <2>4 DEF MarkRetired
  <2>5. CASE GetFindsCorpse(x)
    BY <2>5 DEF GetFindsCorpse
  <2>6. CASE GetJoins(x)
    BY <2>6 DEF GetJoins
  <2>7. CASE GetIsBlocked(x)
    BY <2>7 DEF GetIsBlocked
  <2>8. CASE GetFindsNoRoom(x)
    BY <2>8 DEF GetFindsNoRoom
  <2>9. CASE GetEvicts(x)
    BY <2>9 DEF GetEvicts
  <2>10. CASE GetReserves(x)
    BY <2>10 DEF GetReserves
  <2>11. CASE PingAnswered(x)
    BY <2>11 DEF PingAnswered
  <2>12. CASE PingFails(x)
    BY <2>12 DEF PingFails
  <2>13. CASE DropWorker(x)
    BY <2>13 DEF DropWorker
  <2> QED BY <1>1, <2>1, <2>2, <2>3, <2>4, <2>5, <2>6, <2>7, <2>8, <2>9, <2>10, <2>11,
       <2>12, <2>13 DEF Acquire
<1>2. ASSUME NEW x \in Call, Startup(x) PROVE HandleShape'
  BY <1>2 DEF Startup, Fork, ForkFails, HelloAnswered, HelloFails, Register,
       StartupFails
<1>3. ASSUME NEW x \in Call, Use(x) PROVE HandleShape'
  <2>1. CASE Done(x)
    BY <2>1 DEF Done
  <2>2. CASE Broken(x)
    BY <2>2 DEF Broken
  <2>3. CASE OpenStream(x)
    BY <2>3 DEF OpenStream
  <2>4. CASE StartJob(x)
    BY <2>4 DEF StartJob
  <2>5. CASE JobOutlivesGrace(x)
    BY <2>5 DEF JobOutlivesGrace
  <2>6. ASSUME NEW y \in Call, CancelJob(y, x) PROVE HandleShape'
    BY <2>6 DEF CancelJob
  <2>7. ASSUME NEW h \in Handle, OpenWrite(x, h) PROVE HandleShape'
    BY <2>7 DEF OpenWrite
  <2>8. CASE Finalized(x)
    BY <2>8 DEF Finalized
  <2>9. CASE FinalizeLost(x)
    BY <2>9 DEF FinalizeLost
  <2>10. CASE FinalizeRefused(x)
    BY <2>10 DEF FinalizeRefused
  <2> QED BY <1>3, <2>1, <2>2, <2>3, <2>4, <2>5, <2>6, <2>7, <2>8, <2>9, <2>10 DEF Use
<1>4. ASSUME NEW x \in Call, NEW p \in Principal, Begin(x, p) PROVE HandleShape'
  BY <1>4 DEF Begin
<1>5. ASSUME NEW x \in Call, NEW p \in Principal, NEW h \in Handle, ClaimUpload(x, p, h)
      PROVE  HandleShape'
  BY <1>5 DEF ClaimUpload
<1>6. ASSUME NEW h \in Handle, WorkerDropsUpload(h) \/ SweepPin(h) PROVE HandleShape'
  BY <1>6 DEF WorkerDropsUpload, SweepPin
<1>7. ASSUME NEW k \in Key, ReapIdle(k) PROVE HandleShape'
  BY <1>7 DEF ReapIdle
<1>8. ASSUME NEW c \in Client, Worker(c) PROVE HandleShape'
  BY <1>8 DEF Worker, RetireBroken, Terminate, Exit, ReadEnd, SlotFreed
<1>9. ASSUME Shutdown \/ ShutdownStep PROVE HandleShape'
  BY <1>9 DEF Shutdown, ShutdownStep, DropPins, Sweep, StartupsSettled, ShutdownDone
<1>10. CASE UNCHANGED vars
  BY <1>10 DEF vars
<1> QED BY <1>1, <1>2, <1>3, <1>4, <1>5, <1>6, <1>7, <1>8, <1>9, <1>10 DEF Next

LEMMA HandleStaysReachableNext == PoolInv /\ [Next]_vars => HandleStaysReachable'
<1> SUFFICES ASSUME PoolInv, [Next]_vars PROVE HandleStaysReachable'
  OBVIOUS
<1> USE NoneAssumption, PrincipalKey DEF PoolInv, TypeOK, RequestShape, HandleShape,
         HandleStaysReachable, Holding, Starting, KeyOf, Finalizing, Running, closed, Goto,
         Return, Take, Hold, LastOut, Release, Charge, IsCurrent, Detach, Retire, AtTable,
         NoWorker, MustStart, EndStartup, table, process, stop, down, upload, request,
         history
<1>1. ASSUME NEW x \in Call, Acquire(x) PROVE HandleStaysReachable'
  <2>1. CASE GetGivesUp(x)
    BY <2>1 DEF GetGivesUp
  <2>2. CASE GetWorker(x)
    BY <2>2 DEF GetWorker
  <2>3. CASE GetSupersedes(x)
    BY <2>3 DEF GetSupersedes
  <2>4. CASE MarkRetired(x)
    BY <2>4 DEF MarkRetired
  <2>5. CASE GetFindsCorpse(x)
    BY <2>5 DEF GetFindsCorpse
  <2>6. CASE GetJoins(x)
    BY <2>6 DEF GetJoins
  <2>7. CASE GetIsBlocked(x)
    BY <2>7 DEF GetIsBlocked
  <2>8. CASE GetFindsNoRoom(x)
    BY <2>8 DEF GetFindsNoRoom
  <2>9. CASE GetEvicts(x)
    BY <2>9 DEF GetEvicts
  <2>10. CASE GetReserves(x)
    BY <2>10 DEF GetReserves
  <2>11. CASE PingAnswered(x)
    BY <2>11 DEF PingAnswered
  <2>12. CASE PingFails(x)
    BY <2>12 DEF PingFails
  <2>13. CASE DropWorker(x)
    BY <2>13 DEF DropWorker
  <2> QED BY <1>1, <2>1, <2>2, <2>3, <2>4, <2>5, <2>6, <2>7, <2>8, <2>9, <2>10, <2>11,
       <2>12, <2>13 DEF Acquire
<1>2. ASSUME NEW x \in Call, Startup(x) PROVE HandleStaysReachable'
  BY <1>2 DEF Startup, Fork, ForkFails, HelloAnswered, HelloFails, Register,
       StartupFails
<1>3. ASSUME NEW x \in Call, Use(x) PROVE HandleStaysReachable'
  <2>1. CASE Done(x)
    BY <2>1 DEF Done
  <2>2. CASE Broken(x)
    BY <2>2 DEF Broken
  <2>3. CASE OpenStream(x)
    BY <2>3 DEF OpenStream
  <2>4. CASE StartJob(x)
    BY <2>4 DEF StartJob
  <2>5. CASE JobOutlivesGrace(x)
    BY <2>5 DEF JobOutlivesGrace
  <2>6. ASSUME NEW y \in Call, CancelJob(y, x) PROVE HandleStaysReachable'
    BY <2>6 DEF CancelJob
  <2>7. ASSUME NEW h \in Handle, OpenWrite(x, h) PROVE HandleStaysReachable'
    BY <2>7 DEF OpenWrite
  <2>8. CASE Finalized(x)
    BY <2>8 DEF Finalized
  <2>9. CASE FinalizeLost(x)
    BY <2>9 DEF FinalizeLost
  <2>10. CASE FinalizeRefused(x)
    BY <2>10 DEF FinalizeRefused
  <2> QED BY <1>3, <2>1, <2>2, <2>3, <2>4, <2>5, <2>6, <2>7, <2>8, <2>9, <2>10 DEF Use
<1>4. ASSUME NEW x \in Call, NEW p \in Principal, Begin(x, p) PROVE HandleStaysReachable'
  BY <1>4 DEF Begin
<1>5. ASSUME NEW x \in Call, NEW p \in Principal, NEW h \in Handle, ClaimUpload(x, p, h)
      PROVE  HandleStaysReachable'
  BY <1>5 DEF ClaimUpload
<1>6. ASSUME NEW h \in Handle, WorkerDropsUpload(h) \/ SweepPin(h) PROVE HandleStaysReachable'
  BY <1>6 DEF WorkerDropsUpload, SweepPin
<1>7. ASSUME NEW k \in Key, ReapIdle(k) PROVE HandleStaysReachable'
  BY <1>7 DEF ReapIdle
<1>8. ASSUME NEW c \in Client, Worker(c) PROVE HandleStaysReachable'
  BY <1>8 DEF Worker, RetireBroken, Terminate, Exit, ReadEnd, SlotFreed
<1>9. ASSUME Shutdown \/ ShutdownStep PROVE HandleStaysReachable'
  BY <1>9 DEF Shutdown, ShutdownStep, DropPins, Sweep, StartupsSettled, ShutdownDone
<1>10. CASE UNCHANGED vars
  BY <1>10 DEF vars
<1> QED BY <1>1, <1>2, <1>3, <1>4, <1>5, <1>6, <1>7, <1>8, <1>9, <1>10 DEF Next
-----------------------------------------------------------------------------
(* How a step moves the holds. *)

\* Nobody but x takes or lets go of a client in this step.
OthersKeep(x) ==
    \A y \in Call \ {x} :
        /\ pc'[y] \in Holding <=> pc[y] \in Holding
        /\ pc[y] \in Holding => cl'[y] = cl[y]

LEMMA HoldersMove ==
    ASSUME PoolInv, NEW x \in Call, OthersKeep(x)
    PROVE  \A c \in Client :
             Holders(c)' = (Holders(c) \ {x})
                             \cup IF pc'[x] \in Holding /\ cl'[x] = c THEN {x} ELSE {}
  BY DEF OthersKeep, Holders

LEMMA HoldersCount ==
    ASSUME PoolInv, NEW x \in Call, OthersKeep(x), NEW c \in Client
    PROVE  /\ Cardinality(Holders(c)) \in Nat
           /\ Cardinality(Holders(c)') =
                Cardinality(Holders(c)) - (IF x \in Holders(c) THEN 1 ELSE 0)
                  + (IF pc'[x] \in Holding /\ cl'[x] = c THEN 1 ELSE 0)
<1>1. IsFiniteSet(Holders(c)) /\ Cardinality(Holders(c)) \in Nat
  BY FiniteAssumption, FS_Subset, FS_CardinalityType DEF Holders
<1>2. /\ IsFiniteSet(Holders(c) \ {x})
      /\ Cardinality(Holders(c) \ {x}) = Cardinality(Holders(c)) - (IF x \in Holders(c) THEN 1 ELSE 0)
  BY <1>1, FS_RemoveElement
<1>3. CASE pc'[x] \in Holding /\ cl'[x] = c
  <2>1. Holders(c)' = (Holders(c) \ {x}) \cup {x}
    BY <1>3, HoldersMove
  <2>2. Cardinality((Holders(c) \ {x}) \cup {x}) = Cardinality(Holders(c) \ {x}) + 1
    BY <1>2, FS_AddElement
  <2> QED BY <1>1, <1>2, <1>3, <2>1, <2>2
<1>4. CASE ~(pc'[x] \in Holding /\ cl'[x] = c)
  <2>1. Holders(c)' = Holders(c) \ {x}
    BY <1>4, HoldersMove
  <2> QED BY <1>1, <1>2, <1>4, <2>1
<1> QED BY <1>3, <1>4

LEMMA PinAdded ==
    ASSUME PoolInv, NEW h \in Handle, pins[h] = None, NEW d \in Client,
           pins' = [pins EXCEPT ![h] = d], NEW c \in Client
    PROVE  /\ IsFiniteSet(PinsOn(c)')
           /\ Cardinality(PinsOn(c)) \in Nat
           /\ Cardinality(PinsOn(c)') = Cardinality(PinsOn(c)) + (IF c = d THEN 1 ELSE 0)
<1>1. IsFiniteSet(PinsOn(c)) /\ Cardinality(PinsOn(c)) \in Nat
  BY FS_CardinalityType DEF PoolInv, HoldShape
<1>2. h \notin PinsOn(c)
  BY NoneAssumption DEF PinsOn
<1>3. PinsOn(c)' = PinsOn(c) \cup IF c = d THEN {h} ELSE {}
  BY <1>2 DEF PinsOn, PoolInv, TypeOK
<1>4. CASE c = d
  <2>1. PinsOn(c)' = PinsOn(c) \cup {h}
    BY <1>3, <1>4
  <2>2. /\ IsFiniteSet(PinsOn(c) \cup {h})
        /\ Cardinality(PinsOn(c) \cup {h}) = Cardinality(PinsOn(c)) + 1
    BY <1>1, <1>2, FS_AddElement
  <2> QED BY <1>1, <1>4, <2>1, <2>2
<1>5. CASE c # d
  <2>1. PinsOn(c)' = PinsOn(c)
    BY <1>3, <1>5
  <2> QED BY <2>1, <1>1, <1>5
<1> QED BY <1>4, <1>5

LEMMA PinRemoved ==
    ASSUME PoolInv, NEW h \in Handle, pins[h] # None,
           pins' = [pins EXCEPT ![h] = None], NEW c \in Client
    PROVE  /\ IsFiniteSet(PinsOn(c)')
           /\ Cardinality(PinsOn(c)) \in Nat
           /\ Cardinality(PinsOn(c)') = Cardinality(PinsOn(c)) - (IF c = pins[h] THEN 1 ELSE 0)
<1>1. IsFiniteSet(PinsOn(c)) /\ Cardinality(PinsOn(c)) \in Nat
  BY FS_CardinalityType DEF PoolInv, HoldShape
<1>2. PinsOn(c)' = PinsOn(c) \ {h}
  BY NoneAssumption DEF PinsOn, PoolInv, TypeOK
<1>3. h \in PinsOn(c) <=> c = pins[h]
  BY DEF PinsOn
<1> QED BY <1>1, <1>2, <1>3, FS_RemoveElement

\* No hold moves.
LEMMA HoldsStay ==
    ASSUME PoolInv, UNCHANGED <<request, pins, inflight>>,
           \A c \in graceful' : c \in graceful \/ inflight[c] = 0
    PROVE  HoldShape'
<1>1. \A c \in Client : PinsOn(c)' = PinsOn(c) /\ Holders(c)' = Holders(c)
  BY DEF PinsOn, Holders, request
<1> QED BY <1>1 DEF PoolInv, HoldShape, HoldsBalance

LEMMA HoldsKept ==
    ASSUME PoolInv, NEW x \in Call, OthersKeep(x), UNCHANGED <<pins, inflight>>,
           pc'[x] \in Holding <=> pc[x] \in Holding,
           pc[x] \in Holding => cl'[x] = cl[x],
           \A c \in graceful' : c \in graceful \/ inflight[c] = 0
    PROVE  HoldShape'
<1>1. \A c \in Client : PinsOn(c)' = PinsOn(c)
  BY DEF PinsOn
<1>2. \A c \in Client : Holders(c)' = Holders(c)
  BY HoldersMove DEF Holders
<1> QED BY <1>1, <1>2 DEF PoolInv, HoldShape, HoldsBalance

\* x takes hold of c.
LEMMA HoldTaken ==
    ASSUME PoolInv, NEW x \in Call, OthersKeep(x), UNCHANGED <<pins, graceful>>, NEW c \in Client,
           pc[x] \notin Holding, pc'[x] \in Holding, cl'[x] = c,
           c \notin graceful, Hold(c)
    PROVE  HoldShape'
<1>1. \A d \in Client : PinsOn(d)' = PinsOn(d)
  BY DEF PinsOn
<1>2. \A d \in Client : x \notin Holders(d)
  BY DEF Holders
<1>3. \A d \in Client : /\ Cardinality(Holders(d)) \in Nat
                       /\ Cardinality(Holders(d)') =
                            Cardinality(Holders(d)) + (IF d = c THEN 1 ELSE 0)
  BY <1>2, HoldersCount
<1>4. \A d \in Client : Cardinality(PinsOn(d)) \in Nat
  BY FS_CardinalityType DEF PoolInv, HoldShape
<1>5. \A d \in Client : inflight'[d] = inflight[d] + (IF d = c THEN 1 ELSE 0)
  BY DEF Hold, PoolInv, TypeOK
<1>6. \A d \in Client : inflight[d] \in Nat /\ inflight[d] = Cardinality(Holders(d)) + Cardinality(PinsOn(d))
  BY DEF PoolInv, TypeOK, HoldShape, HoldsBalance
<1>7. HoldsBalance'
  <2> SUFFICES ASSUME NEW d \in Client
               PROVE  inflight'[d] = Cardinality(Holders(d)') + Cardinality(PinsOn(d)')
    BY DEF HoldsBalance
  <2> QED BY <1>1, <1>3, <1>4, <1>5, <1>6
<1> QED BY <1>1, <1>5, <1>7 DEF PoolInv, TypeOK, HoldShape

\* A hold on c is given back.
LEMMA ReleaseCounts ==
    ASSUME PoolInv, NEW c \in Client, inflight[c] >= 1, Release(c)
    PROVE  /\ \A d \in Client : inflight'[d] = inflight[d] - (IF d = c THEN 1 ELSE 0)
           /\ \A d \in graceful' : inflight'[d] = 0
<1>1. \A d \in Client : inflight'[d] = inflight[d] - (IF d = c THEN 1 ELSE 0)
  BY DEF Release, PoolInv, TypeOK
<1>2. ASSUME NEW d \in graceful' PROVE inflight'[d] = 0
  <2>1. d \in Client
    BY DEF Release, PoolInv, TypeOK
  <2>2. CASE d \in graceful
    BY <1>1, <2>1, <2>2 DEF PoolInv, HoldShape
  <2>3. CASE d \notin graceful
    BY <1>1, <2>1, <2>3 DEF Release, LastOut
  <2> QED BY <2>2, <2>3
<1> QED BY <1>1, <1>2

LEMMA HoldGivenBack ==
    ASSUME PoolInv, NEW x \in Call, OthersKeep(x), UNCHANGED pins,
           pc[x] \in Holding, pc'[x] \notin Holding, Release(cl[x])
    PROVE  HoldShape'
<1>1. cl[x] \in Client /\ inflight[cl[x]] >= 1
  BY HoldsArePositive DEF PoolInv, RequestShape
<1>2. \A d \in Client : PinsOn(d)' = PinsOn(d)
  BY DEF PinsOn
<1>3. \A d \in Client : x \in Holders(d) <=> d = cl[x]
  BY DEF Holders
<1>4. \A d \in Client : /\ Cardinality(Holders(d)) \in Nat
                       /\ Cardinality(Holders(d)') =
                            Cardinality(Holders(d)) - (IF d = cl[x] THEN 1 ELSE 0)
  <2> SUFFICES ASSUME NEW d \in Client
               PROVE  /\ Cardinality(Holders(d)) \in Nat
                      /\ Cardinality(Holders(d)') =
                           Cardinality(Holders(d)) - (IF d = cl[x] THEN 1 ELSE 0)
    OBVIOUS
  <2>1. Cardinality(Holders(d)) \in Nat
    BY HoldersCount
  <2>2. Cardinality(Holders(d)') =
            Cardinality(Holders(d)) - (IF x \in Holders(d) THEN 1 ELSE 0) + 0
    BY HoldersCount
  <2> QED BY <1>3, <2>1, <2>2
<1>5. \A d \in Client : Cardinality(PinsOn(d)) \in Nat
  BY FS_CardinalityType DEF PoolInv, HoldShape
<1>6. /\ \A d \in Client : inflight'[d] = inflight[d] - (IF d = cl[x] THEN 1 ELSE 0)
      /\ \A d \in graceful' : inflight'[d] = 0
  BY <1>1, ReleaseCounts
<1>7. \A d \in Client : inflight[d] = Cardinality(Holders(d)) + Cardinality(PinsOn(d))
  BY DEF PoolInv, HoldShape, HoldsBalance
<1>8. HoldsBalance'
  <2> SUFFICES ASSUME NEW d \in Client
               PROVE  inflight'[d] = Cardinality(Holders(d)') + Cardinality(PinsOn(d)')
    BY DEF HoldsBalance
  <2> QED BY <1>2, <1>4, <1>5, <1>6, <1>7
<1> QED BY <1>2, <1>6, <1>8 DEF PoolInv, HoldShape

\* The hold of x becomes the pin of h.
LEMMA HoldPinned ==
    ASSUME PoolInv, NEW x \in Call, OthersKeep(x), UNCHANGED <<inflight, graceful>>,
           NEW h \in Handle, pins[h] = None, pins' = [pins EXCEPT ![h] = cl[x]],
           pc[x] \in Holding, pc'[x] \notin Holding
    PROVE  HoldShape'
<1>1. PICK c \in Client : c = cl[x]
  BY DEF PoolInv, RequestShape
<1>2. \A d \in Client : x \in Holders(d) <=> d = cl[x]
  BY DEF Holders
<1>3. ASSUME NEW d \in Client
      PROVE  /\ IsFiniteSet(PinsOn(d)')
             /\ Cardinality(Holders(d)') + Cardinality(PinsOn(d)')
                  = Cardinality(Holders(d)) + Cardinality(PinsOn(d))
  <2>1. /\ Cardinality(Holders(d)) \in Nat
        /\ Cardinality(Holders(d)') =
             Cardinality(Holders(d)) - (IF x \in Holders(d) THEN 1 ELSE 0) + 0
    BY HoldersCount
  <2>2. /\ IsFiniteSet(PinsOn(d)')
        /\ Cardinality(PinsOn(d)) \in Nat
        /\ Cardinality(PinsOn(d)') =
             Cardinality(PinsOn(d)) + (IF d = c THEN 1 ELSE 0)
    BY <1>1, PinAdded
  <2> QED BY <1>1, <1>2, <2>1, <2>2
<1> QED BY <1>3 DEF PoolInv, HoldShape, HoldsBalance

\* The pin of h becomes the hold of x.
LEMMA PinClaimed ==
    ASSUME PoolInv, NEW x \in Call, OthersKeep(x), UNCHANGED <<inflight, graceful>>,
           NEW h \in Handle, pins[h] # None, pins' = [pins EXCEPT ![h] = None],
           pc[x] \notin Holding, pc'[x] \in Holding, cl'[x] = pins[h]
    PROVE  HoldShape'
<1>1. pins[h] \in Client
  BY DEF PoolInv, TypeOK
<1>2. \A d \in Client : x \notin Holders(d)
  BY DEF Holders
<1>3. ASSUME NEW d \in Client
      PROVE  /\ IsFiniteSet(PinsOn(d)')
             /\ Cardinality(Holders(d)') + Cardinality(PinsOn(d)')
                  = Cardinality(Holders(d)) + Cardinality(PinsOn(d))
  <2>1. /\ Cardinality(Holders(d)) \in Nat
        /\ Cardinality(Holders(d)') =
             Cardinality(Holders(d)) - 0 + (IF pins[h] = d THEN 1 ELSE 0)
    BY <1>2, HoldersCount
  <2>2. /\ IsFiniteSet(PinsOn(d)')
        /\ Cardinality(PinsOn(d)) \in Nat
        /\ Cardinality(PinsOn(d)') =
             Cardinality(PinsOn(d)) - (IF d = pins[h] THEN 1 ELSE 0)
    BY PinRemoved
  <2> QED BY <2>1, <2>2
<1> QED BY <1>3 DEF PoolInv, HoldShape, HoldsBalance

\* The pin of h lets go of its client.
LEMMA PinGivenBack ==
    ASSUME PoolInv, UNCHANGED request, NEW h \in Handle, pins[h] # None,
           pins' = [pins EXCEPT ![h] = None], Release(pins[h])
    PROVE  HoldShape'
<1>1. pins[h] \in Client /\ inflight[pins[h]] >= 1
  BY HoldsArePositive DEF PoolInv, TypeOK
<1>2. \A d \in Client : Holders(d)' = Holders(d)
  BY DEF Holders, request
<1>3. \A d \in Client : Cardinality(Holders(d)) \in Nat
  BY FiniteAssumption, FS_Subset, FS_CardinalityType DEF Holders
<1>4. ASSUME NEW d \in Client
      PROVE  /\ IsFiniteSet(PinsOn(d)')
             /\ Cardinality(PinsOn(d)) \in Nat
             /\ Cardinality(PinsOn(d)') =
                  Cardinality(PinsOn(d)) - (IF d = pins[h] THEN 1 ELSE 0)
  BY PinRemoved
<1>5. /\ \A d \in Client : inflight'[d] = inflight[d] - (IF d = pins[h] THEN 1 ELSE 0)
      /\ \A d \in graceful' : inflight'[d] = 0
  BY <1>1, ReleaseCounts
<1>6. \A d \in Client : inflight[d] = Cardinality(Holders(d)) + Cardinality(PinsOn(d))
  BY DEF PoolInv, HoldShape, HoldsBalance
<1>7. HoldsBalance'
  <2> SUFFICES ASSUME NEW d \in Client
               PROVE  inflight'[d] = Cardinality(Holders(d)') + Cardinality(PinsOn(d)')
    BY DEF HoldsBalance
  <2> QED BY <1>2, <1>3, <1>4, <1>5, <1>6
<1> QED BY <1>4, <1>5, <1>7 DEF HoldShape

\* Shutdown lets go of every pin.
LEMMA PinsDropped ==
    ASSUME PoolInv, DropPins
    PROVE  HoldShape'
<1>1. \A d \in Client : Holders(d)' = Holders(d)
  BY DEF Holders, DropPins, request
<1>2. \A d \in Client : Cardinality(Holders(d)) \in Nat /\ Cardinality(PinsOn(d)) \in Nat
  BY FiniteAssumption, FS_Subset, FS_CardinalityType DEF Holders, PoolInv, HoldShape
<1>3. \A d \in Client : PinsOn(d)' = {}
  BY NoneAssumption DEF PinsOn, DropPins
<1>4. \A d \in Client : IsFiniteSet(PinsOn(d)') /\ Cardinality(PinsOn(d)') = 0
  BY <1>3, FS_EmptySet
<1>5. \A d \in Client : inflight[d] = Cardinality(Holders(d)) + Cardinality(PinsOn(d))
  BY DEF PoolInv, HoldShape, HoldsBalance
<1>6. \A d \in Client : inflight'[d] = inflight[d] - Cardinality(PinsOn(d))
  BY DEF DropPins
<1>7. HoldsBalance'
  <2> SUFFICES ASSUME NEW d \in Client
               PROVE  inflight'[d] = Cardinality(Holders(d)') + Cardinality(PinsOn(d)')
    BY DEF HoldsBalance
  <2> QED BY <1>1, <1>2, <1>4, <1>5, <1>6
<1>8. ASSUME NEW d \in graceful' PROVE inflight'[d] = 0
  <2>1. d \in Client
    BY DEF DropPins, PoolInv, TypeOK
  <2>2. CASE d \in graceful
    BY <1>2, <1>5, <1>6, <2>1, <2>2 DEF PoolInv, HoldShape
  <2>3. CASE d \notin graceful
    <3>1. inflight[d] = Cardinality(PinsOn(d))
      BY <2>3 DEF DropPins, LastOut
    <3> QED BY <1>2, <1>6, <2>1, <3>1
  <2> QED BY <2>2, <2>3
<1> QED BY <1>4, <1>7, <1>8 DEF HoldShape

LEMMA HoldShapeNext == PoolInv /\ [Next]_vars => HoldShape'
<1> SUFFICES ASSUME PoolInv, [Next]_vars PROVE HoldShape'
  OBVIOUS
<1> USE DEF PoolInv, TypeOK, RequestShape, Holding, Starting, KeyOf, AtTable, NoWorker,
        MustStart, Idle, Goto, Return, Take, EndStartup, Detach, Retire, request, upload,
        history
<1>1. ASSUME NEW x \in Call, Acquire(x) PROVE HoldShape'
  <2>1. CASE \/ GetGivesUp(x) \/ GetSupersedes(x) \/ MarkRetired(x) \/ GetJoins(x)
             \/ GetIsBlocked(x) \/ GetFindsNoRoom(x) \/ GetReserves(x) \/ PingAnswered(x)
             \/ DropWorker(x)
    <3>1. OthersKeep(x)
      BY <2>1 DEF OthersKeep, GetGivesUp, GetSupersedes, MarkRetired, GetJoins, GetIsBlocked,
                  GetFindsNoRoom, GetReserves, PingAnswered, DropWorker
    <3> QED BY <2>1, <3>1, HoldsKept
            DEF GetGivesUp, GetSupersedes, MarkRetired, GetJoins, GetIsBlocked,
                GetFindsNoRoom, GetReserves, PingAnswered, DropWorker
  <2>2. CASE GetFindsCorpse(x) \/ GetEvicts(x)
    BY <2>2, HoldsStay DEF GetFindsCorpse, GetEvicts
  <2>3. CASE GetWorker(x)
    <3>1. OthersKeep(x)
      BY <2>3 DEF GetWorker, OthersKeep
    <3>2. PICK c \in Client : c = workers[KeyOf(x)]
      BY <2>3, NoneAssumption, PrincipalKey DEF GetWorker
    <3>3. c \notin graceful
      BY <2>3, <3>2, PrincipalKey, NoneAssumption DEF GetWorker, LeftShape, Left, Current
    <3> QED BY <2>3, <3>1, <3>2, <3>3, HoldTaken DEF GetWorker
  <2>4. CASE PingFails(x)
    <3>1. OthersKeep(x)
      BY <2>4 DEF PingFails, OthersKeep
    <3> QED BY <2>4, <3>1, HoldGivenBack DEF PingFails
  <2> QED BY <1>1, <2>1, <2>2, <2>3, <2>4 DEF Acquire
<1>2. ASSUME NEW x \in Call, Startup(x) PROVE HoldShape'
  <2>1. CASE \/ \E c \in Client : Fork(x, c)
             \/ ForkFails(x) \/ HelloAnswered(x) \/ HelloFails(x) \/ StartupFails(x)
    <3>1. OthersKeep(x)
      BY <2>1 DEF OthersKeep, Fork, ForkFails, HelloAnswered, HelloFails, StartupFails
    <3> QED BY <2>1, <3>1, HoldsKept
            DEF Fork, ForkFails, HelloAnswered, HelloFails, StartupFails
  <2>2. CASE Register(x)
    <3>1. OthersKeep(x)
      BY <2>2 DEF Register, OthersKeep
    <3>2. PICK c \in Client : c = cl[x]
      BY <2>2 DEF Register
    <3>3. c \notin graceful
      BY <2>2, <3>2 DEF Register, LeftShape, Left, BeingStarted
    <3> QED BY <2>2, <3>1, <3>2, <3>3, HoldTaken DEF Register
  <2> QED BY <1>2, <2>1, <2>2 DEF Startup
<1>3. ASSUME NEW x \in Call, Use(x) PROVE HoldShape'
  <2>1. CASE Broken(x) \/ OpenStream(x) \/ StartJob(x) \/ JobOutlivesGrace(x)
    <3>1. OthersKeep(x)
      BY <2>1 DEF OthersKeep, Broken, OpenStream, StartJob, JobOutlivesGrace
    <3> QED BY <2>1, <3>1, HoldsKept DEF Broken, OpenStream, StartJob, JobOutlivesGrace
  <2>2. CASE Done(x) \/ Finalized(x) \/ FinalizeLost(x)
    <3>1. OthersKeep(x)
      BY <2>2 DEF OthersKeep, Done, Finalized, FinalizeLost
    <3> QED BY <2>2, <3>1, HoldGivenBack DEF Done, Finalized, FinalizeLost
  <2>3. ASSUME NEW y \in Call, CancelJob(y, x) PROVE HoldShape'
    <3>1. OthersKeep(y)
      BY <2>3 DEF CancelJob, OthersKeep
    <3>2. CASE closed \/ workers[KeyOf(x)] = None \/ workers[KeyOf(x)] \in dead
      BY <2>3, <3>2, HoldsStay DEF CancelJob
    <3>3. CASE ~(closed \/ workers[KeyOf(x)] = None \/ workers[KeyOf(x)] \in dead)
      <4>1. PICK c \in Client : c = workers[KeyOf(x)]
        BY <2>3, <3>3, NoneAssumption, PrincipalKey DEF CancelJob
      <4>2. c \notin graceful
        BY <2>3, <4>1, PrincipalKey, NoneAssumption DEF CancelJob, LeftShape, Left, Current
      <4> QED BY <2>3, <3>1, <3>3, <4>1, <4>2, HoldTaken DEF CancelJob
    <3> QED BY <3>2, <3>3
  <2>4. CASE FinalizeRefused(x) \/ \E h \in Handle : OpenWrite(x, h)
    <3>1. OthersKeep(x)
      BY <2>4 DEF FinalizeRefused, OpenWrite, OthersKeep
    <3>2. CASE FinalizeRefused(x)
      BY <3>1, <3>2, HoldPinned DEF FinalizeRefused, HandleShape, Finalizing
    <3>3. ASSUME NEW h \in Handle, OpenWrite(x, h) PROVE HoldShape'
      <4>1. pins[h] = None
        BY <3>3 DEF OpenWrite, HandleShape
      <4>2. /\ pc[x] \in Holding /\ pc'[x] \notin Holding
            /\ pins' = [pins EXCEPT ![h] = cl[x]] /\ UNCHANGED <<inflight, graceful>>
        BY <3>3 DEF OpenWrite
      <4> QED BY <3>1, <4>1, <4>2, HoldPinned
    <3> QED BY <2>4, <3>2, <3>3
  <2> QED BY <1>3, <2>1, <2>2, <2>3, <2>4 DEF Use
<1>4. ASSUME NEW x \in Call, NEW p \in Principal, Begin(x, p) PROVE HoldShape'
  <2>1. OthersKeep(x)
    BY <1>4 DEF Begin, OthersKeep
  <2> QED BY <1>4, <2>1, HoldsKept DEF Begin
<1>5. ASSUME NEW x \in Call, NEW p \in Principal, NEW h \in Handle, ClaimUpload(x, p, h)
      PROVE  HoldShape'
  <2>1. CASE pins[h] \in dead
    BY <1>5, <2>1, PinGivenBack DEF ClaimUpload
  <2>2. CASE pins[h] \notin dead
    <3>1. OthersKeep(x)
      BY <1>5, <2>2 DEF ClaimUpload, OthersKeep
    <3> QED BY <1>5, <2>2, <3>1, PinClaimed DEF ClaimUpload
  <2> QED BY <2>1, <2>2
<1>6. ASSUME NEW h \in Handle, WorkerDropsUpload(h) \/ SweepPin(h) PROVE HoldShape'
  <2>1. CASE WorkerDropsUpload(h)
    BY <2>1, HoldsStay DEF WorkerDropsUpload
  <2>2. CASE SweepPin(h)
    BY <2>2, PinGivenBack DEF SweepPin
  <2> QED BY <1>6, <2>1, <2>2
<1>7. ASSUME NEW k \in Key, ReapIdle(k) PROVE HoldShape'
  BY <1>7, HoldsStay DEF ReapIdle
<1>8. ASSUME NEW c \in Client, Worker(c) PROVE HoldShape'
  BY <1>8, HoldsStay DEF Worker, RetireBroken, Terminate, Exit, ReadEnd, SlotFreed
<1>9. ASSUME Shutdown \/ ShutdownStep PROVE HoldShape'
  <2>1. CASE DropPins
    BY <2>1, PinsDropped
  <2>2. CASE Shutdown \/ Sweep \/ StartupsSettled \/ ShutdownDone
    BY <2>2, HoldsStay DEF Shutdown, Sweep, StartupsSettled, ShutdownDone
  <2> QED BY <1>9, <2>1, <2>2 DEF ShutdownStep
<1>10. CASE UNCHANGED vars
  BY <1>10, HoldsStay DEF vars
<1> QED BY <1>1, <1>2, <1>3, <1>4, <1>5, <1>6, <1>7, <1>8, <1>9, <1>10 DEF Next


-----------------------------------------------------------------------------
(* Nothing runs untracked, and never more than Max. *)

LEMMA TrackShapeNext == PoolInv /\ [Next]_vars => TrackShape'
<1> SUFFICES ASSUME PoolInv, [Next]_vars PROVE TrackShape'
  OBVIOUS
<1> USE NoneAssumption, PrincipalKey DEF PoolInv, TypeOK, RequestShape, TrackShape,
         SlotShape, TableShape, StarteeShape, OwnShape, Holding, Starting, KeyOf, Running,
         Reserved, closed, Current, EveryProcessIsTracked, Owned, Goto, Return, Take, Hold,
         LastOut, Release, Charge, IsCurrent, Detach, Retire, AtTable, NoWorker, MustStart,
         EndStartup, table, process, stop, down, upload, request, history
<1>1. ASSUME NEW x \in Call, Acquire(x) PROVE TrackShape'
  <2>1. CASE GetGivesUp(x)
    BY <2>1 DEF GetGivesUp
  <2>2. CASE GetWorker(x)
    BY <2>2 DEF GetWorker
  <2>3. CASE GetSupersedes(x)
    BY <2>3 DEF GetSupersedes
  <2>4. CASE MarkRetired(x)
    BY <2>4 DEF MarkRetired
  <2>5. CASE GetFindsCorpse(x)
    BY <2>5 DEF GetFindsCorpse
  <2>6. CASE GetJoins(x)
    BY <2>6 DEF GetJoins
  <2>7. CASE GetIsBlocked(x)
    BY <2>7 DEF GetIsBlocked
  <2>8. CASE GetFindsNoRoom(x)
    BY <2>8 DEF GetFindsNoRoom
  <2>9. CASE GetEvicts(x)
    BY <2>9 DEF GetEvicts
  <2>10. CASE GetReserves(x)
    BY <2>10 DEF GetReserves
  <2>11. CASE PingAnswered(x)
    BY <2>11 DEF PingAnswered
  <2>12. CASE PingFails(x)
    BY <2>12 DEF PingFails
  <2>13. CASE DropWorker(x)
    BY <2>13 DEF DropWorker
  <2> QED BY <1>1, <2>1, <2>2, <2>3, <2>4, <2>5, <2>6, <2>7, <2>8, <2>9, <2>10, <2>11,
       <2>12, <2>13 DEF Acquire
<1>2. ASSUME NEW x \in Call, Startup(x) PROVE TrackShape'
  <2>1. ASSUME NEW c \in Client, Fork(x, c) PROVE TrackShape'
    <3>1. /\ workers' = workers /\ spawning' = spawning /\ retiring' = retiring
          /\ sdAll' = sdAll /\ sd' = sd /\ spawning[KeyOf(x)] = x /\ KeyOf(x) \in Key
          /\ proc' = [proc EXCEPT ![c] = "up"] /\ owner' = [owner EXCEPT ![c] = who[x]]
          /\ proc[c] = "none" /\ cl' = [cl EXCEPT ![x] = c] /\ cl[x] = None
      BY <2>1 DEF Fork
    <3>2. Owned(c)'
      BY <3>1
    <3>3. ASSUME NEW d \in Client \ {c}, Owned(d) PROVE Owned(d)'
      BY <3>1, <3>3
    <3> QED BY <3>1, <3>2, <3>3
  <2>2. CASE ForkFails(x)
    BY <2>2 DEF ForkFails
  <2>3. CASE HelloAnswered(x)
    BY <2>3 DEF HelloAnswered
  <2>4. CASE HelloFails(x)
    BY <2>4 DEF HelloFails
  <2>5. CASE Register(x)
    <3>1. /\ cl[x] \in Client /\ owner[cl[x]] = who[x] /\ spawning[KeyOf(x)] = x
          /\ KeyOf(x) \in Key /\ workers[KeyOf(x)] = None
      BY <2>5 DEF Register
    <3>2. /\ \A k \in Key \ {KeyOf(x)} : workers'[k] = workers[k] /\ spawning'[k] = spawning[k]
          /\ workers'[KeyOf(x)] = cl[x]
          /\ retiring' = retiring /\ sdAll' = sdAll /\ sd' = sd
          /\ proc' = proc /\ owner' = owner /\ cl' = cl
      BY <2>5, <3>1 DEF Register, EndStartup, process
    <3>3. ASSUME NEW c \in Client, proc[c] = "up", Owned(c) PROVE Owned(c)'
      <4>1. CASE c = cl[x]
        BY <3>1, <3>2, <4>1 DEF IsCurrent
      <4>2. CASE c # cl[x]
        <5>1. CASE IsCurrent(c) /\ workers[owner[c][1]] = c
          BY <3>1, <3>2, <5>1 DEF IsCurrent
        <5>2. CASE c \in retiring \cup sdAll
          BY <3>2, <5>2
        <5>3. CASE \E k \in Reserved : cl[spawning[k]] = c
          BY <3>1, <3>2, <5>3, <4>2
        <5> QED BY <3>3, <5>1, <5>2, <5>3
      <4> QED BY <4>1, <4>2
    <3> QED BY <3>2, <3>3
  <2>6. CASE StartupFails(x)
    <3>1. KeyOf(x) \in Key /\ spawning[KeyOf(x)] = x /\ cl[x] \in Client \cup {None}
      BY <2>6 DEF StartupFails
    <3>2. /\ \A k \in Key \ {KeyOf(x)} : spawning'[k] = spawning[k]
          /\ workers' = workers /\ retiring \subseteq retiring' /\ sdAll' = sdAll /\ sd' = sd
          /\ cl[x] # None => cl[x] \in retiring'
          /\ proc' = proc /\ owner' = owner
          /\ \A y \in Call \ {x} : cl'[y] = cl[y]
      BY <2>6, <3>1 DEF StartupFails, EndStartup, process
    <3>3. ASSUME NEW c \in Client, proc[c] = "up", Owned(c) PROVE Owned(c)'
      <4>1. CASE c = cl[x]
        BY <3>1, <3>2, <4>1
      <4>2. CASE c # cl[x]
        <5>1. CASE IsCurrent(c) /\ workers[owner[c][1]] = c
          BY <3>2, <5>1 DEF IsCurrent
        <5>2. CASE c \in retiring \cup sdAll
          BY <3>2, <5>2
        <5>3. CASE \E k \in Reserved : cl[spawning[k]] = c
          BY <3>1, <3>2, <5>3, <4>2
        <5> QED BY <3>3, <5>1, <5>2, <5>3
      <4> QED BY <4>1, <4>2
    <3> QED BY <3>2, <3>3
  <2> QED BY <1>2, <2>1, <2>2, <2>3, <2>4, <2>5, <2>6 DEF Startup
<1>3. ASSUME NEW x \in Call, Use(x) PROVE TrackShape'
  BY <1>3 DEF Use, Done, Broken, OpenStream, StartJob, JobOutlivesGrace, CancelJob,
       OpenWrite, Finalized, FinalizeLost, FinalizeRefused
<1>4. ASSUME NEW x \in Call, NEW p \in Principal, Begin(x, p) PROVE TrackShape'
  BY <1>4 DEF Begin
<1>5. ASSUME NEW x \in Call, NEW p \in Principal, NEW h \in Handle, ClaimUpload(x, p, h)
      PROVE  TrackShape'
  BY <1>5 DEF ClaimUpload
<1>6. ASSUME NEW h \in Handle, WorkerDropsUpload(h) \/ SweepPin(h) PROVE TrackShape'
  BY <1>6 DEF WorkerDropsUpload, SweepPin
<1>7. ASSUME NEW k \in Key, ReapIdle(k) PROVE TrackShape'
  BY <1>7 DEF ReapIdle
<1>8. ASSUME NEW c \in Client, Worker(c) PROVE TrackShape'
  BY <1>8 DEF Worker, RetireBroken, Terminate, Exit, ReadEnd, SlotFreed
<1>9. ASSUME Shutdown \/ ShutdownStep PROVE TrackShape'
  <2>1. CASE Shutdown
    BY <2>1 DEF Shutdown
  <2>2. CASE DropPins
    BY <2>2 DEF DropPins
  <2>3. CASE Sweep
    BY <2>3 DEF Sweep
  <2>4. CASE StartupsSettled
    BY <2>4 DEF StartupsSettled
  <2>5. CASE ShutdownDone
    BY <2>5 DEF ShutdownDone
  <2> QED BY <1>9, <2>1, <2>2, <2>3, <2>4, <2>5 DEF ShutdownStep
<1>10. CASE UNCHANGED vars
  BY <1>10 DEF vars
<1> QED BY <1>1, <1>2, <1>3, <1>4, <1>5, <1>6, <1>7, <1>8, <1>9, <1>10 DEF Next

LEMMA SlotsShrink ==
    ASSUME PoolInv, Settled' \subseteq Settled, Reserved' \subseteq Reserved
    PROVE  SlotsBound'
<1>1. IsFiniteSet(Settled) /\ IsFiniteSet(Reserved)
  BY FiniteAssumption, FS_Subset DEF Settled, Running, Reserved
<1>2. Cardinality(Settled') <= Cardinality(Settled)
  BY <1>1, FS_Subset
<1>3. Cardinality(Reserved') <= Cardinality(Reserved)
  BY <1>1, FS_Subset
<1>4. IsFiniteSet(Settled') /\ IsFiniteSet(Reserved')
  BY <1>1, FS_Subset
<1>5. /\ Cardinality(Settled) \in Nat /\ Cardinality(Reserved) \in Nat
      /\ Cardinality(Settled') \in Nat /\ Cardinality(Reserved') \in Nat
  BY <1>1, <1>4, FS_CardinalityType
<1> QED BY <1>2, <1>3, <1>5, MaxAssumption DEF PoolInv, SlotsBound

LEMMA SlotsSwap ==
    ASSUME PoolInv, NEW c \in Client, NEW k \in Reserved,
           Settled' \subseteq Settled \cup {c}, Reserved' = Reserved \ {k}
    PROVE  SlotsBound'
<1>1. IsFiniteSet(Settled) /\ IsFiniteSet(Reserved)
  BY FiniteAssumption, FS_Subset DEF Settled, Running, Reserved
<1>2. /\ IsFiniteSet(Settled \cup {c})
      /\ Cardinality(Settled \cup {c}) <= Cardinality(Settled) + 1
  <2>1. Cardinality(Settled) \in Nat
    BY <1>1, FS_CardinalityType
  <2>2. /\ IsFiniteSet(Settled \cup {c})
        /\ \/ Cardinality(Settled \cup {c}) = Cardinality(Settled)
           \/ Cardinality(Settled \cup {c}) = Cardinality(Settled) + 1
    BY <1>1, FS_AddElement
  <2> QED BY <2>1, <2>2
<1>3. /\ IsFiniteSet(Settled')
      /\ Cardinality(Settled') <= Cardinality(Settled \cup {c})
  BY <1>2, FS_Subset
<1>4. /\ IsFiniteSet(Reserved')
      /\ Cardinality(Reserved') = Cardinality(Reserved) - 1
  BY <1>1, FS_RemoveElement
<1>5. /\ Cardinality(Settled) \in Nat /\ Cardinality(Reserved) \in Nat
      /\ Cardinality(Settled') \in Nat /\ Cardinality(Reserved') \in Nat
      /\ Cardinality(Settled \cup {c}) \in Nat
  BY <1>1, <1>2, <1>3, <1>4, FS_CardinalityType
<1> QED BY <1>2, <1>3, <1>4, <1>5, MaxAssumption DEF PoolInv, SlotsBound

LEMMA RegisterSlots == ASSUME PoolInv, NEW x \in Call, Register(x) PROVE SlotsBound'
<1> USE NoneAssumption, PrincipalKey DEF PoolInv, TypeOK
<1>1. /\ cl[x] \in Client /\ KeyOf(x) \in Reserved
      /\ spawning[KeyOf(x)] = x
  BY DEF Register, RequestShape, SlotShape, Starting, Reserved, KeyOf
<1>2. Reserved' = Reserved \ {KeyOf(x)}
  BY <1>1 DEF Register, EndStartup, Reserved
<1>3. /\ Running' = Running
      /\ \A d \in Client : BeingStarted(d) => d = cl[x] \/ BeingStarted(d)'
  BY DEF Register, EndStartup, process, Running, BeingStarted, Starting
<1>4. Settled' \subseteq Settled \cup {cl[x]}
  BY <1>3 DEF Settled, Running
<1> QED BY <1>1, <1>2, <1>4, SlotsSwap

LEMMA StartupFailsSlots == ASSUME PoolInv, NEW x \in Call, StartupFails(x) PROVE SlotsBound'
<1> USE NoneAssumption, PrincipalKey DEF PoolInv, TypeOK
<1>1. /\ cl[x] \in Client \cup {None} /\ KeyOf(x) \in Reserved
      /\ spawning[KeyOf(x)] = x
  BY DEF StartupFails, RequestShape, SlotShape, Starting, Reserved, KeyOf
<1>2. Reserved' = Reserved \ {KeyOf(x)}
  BY <1>1 DEF StartupFails, EndStartup, Reserved
<1>3. /\ Running' = Running
      /\ \A d \in Client : BeingStarted(d) => d = cl[x] \/ BeingStarted(d)'
  BY DEF StartupFails, EndStartup, process, Running, BeingStarted, Starting
<1>4. Settled' \subseteq Settled \cup {cl[x]}
  BY <1>3 DEF Settled, Running
<1>5. CASE cl[x] = None
  BY <1>2, <1>4, <1>5, SlotsShrink DEF Settled, Running
<1>6. CASE cl[x] \in Client
  BY <1>1, <1>2, <1>4, <1>6, SlotsSwap
<1> QED BY <1>1, <1>5, <1>6

LEMMA ReserveSlots == ASSUME PoolInv, NEW x \in Call, GetReserves(x) PROVE SlotsBound'
<1> USE NoneAssumption, PrincipalKey DEF PoolInv, TypeOK
<1>1. KeyOf(x) \in Key
  BY DEF GetReserves, MustStart, NoWorker, AtTable, RequestShape, KeyOf
<1>2. Reserved' = Reserved \cup {KeyOf(x)} /\ KeyOf(x) \notin Reserved
  BY <1>1 DEF GetReserves, MustStart, Reserved
<1>3. Settled \subseteq Current \cup retiring
  BY DEF Settled, TrackShape, EveryProcessIsTracked, Owned, IsCurrent, BeingStarted, SlotShape,
         Reserved, GetReserves, MustStart, NoWorker, AtTable
<1>4. Settled' \subseteq Settled
  BY DEF GetReserves, MustStart, NoWorker, AtTable, Goto, process, Settled, Running,
         BeingStarted, Starting
<1> HIDE DEF PoolInv, TypeOK
<1>5. IsFiniteSet(Current) /\ IsFiniteSet(retiring) /\ IsFiniteSet(Reserved)
  BY FiniteAssumption, FS_Subset DEF PoolInv, TypeOK, Current, Reserved
<1>6. /\ IsFiniteSet(Current \cup retiring)
      /\ Cardinality(Current \cup retiring) <= Cardinality(Current) + Cardinality(retiring)
  <2>1. /\ IsFiniteSet(Current \cup retiring) /\ IsFiniteSet(Current \cap retiring)
        /\ Cardinality(Current \cup retiring)
             = Cardinality(Current) + Cardinality(retiring) - Cardinality(Current \cap retiring)
    BY <1>5, FS_Union, FS_Subset
  <2> QED BY <2>1, <1>5, FS_CardinalityType
<1>7. IsFiniteSet(Settled') /\ Cardinality(Settled') <= Cardinality(Current \cup retiring)
  BY <1>3, <1>4, <1>6, FS_Subset
<1>8. IsFiniteSet(Reserved') /\ Cardinality(Reserved') = Cardinality(Reserved) + 1
  BY <1>2, <1>5, FS_AddElement
<1>9. /\ Cardinality(Settled') \in Nat /\ Cardinality(Reserved) \in Nat
      /\ Cardinality(Current) \in Nat /\ Cardinality(retiring) \in Nat
      /\ Cardinality(Current \cup retiring) \in Nat
  BY <1>5, <1>6, <1>7, FS_CardinalityType
<1>10. Cardinality(Current) + Cardinality(Reserved) + Cardinality(retiring) < Max
  BY DEF GetReserves, HasRoom, SlotsInUse
<1> QED BY <1>6, <1>7, <1>8, <1>9, <1>10, MaxAssumption DEF SlotsBound

LEMMA SlotsBoundNext == PoolInv /\ [Next]_vars => SlotsBound'
<1> SUFFICES ASSUME PoolInv, [Next]_vars PROVE SlotsBound'
  OBVIOUS
<1> USE NoneAssumption, PrincipalKey DEF PoolInv, TypeOK, RequestShape, SlotShape, Holding,
         Starting, KeyOf, Running, Reserved, BeingStarted, Settled, Goto, Return, Take,
         Hold, LastOut, Release, Charge, IsCurrent, Detach, Retire, AtTable, NoWorker,
         MustStart, EndStartup, table, process, stop, down, upload, request, history
<1> DEFINE Shrinks == Settled' \subseteq Settled /\ Reserved' \subseteq Reserved
<1> DEFINE Fits == Shrinks \/ SlotsBound'
<1>1. ASSUME NEW x \in Call, Acquire(x) PROVE Fits
  <2>1. CASE GetGivesUp(x)
    BY <2>1 DEF GetGivesUp
  <2>2. CASE GetWorker(x)
    BY <2>2 DEF GetWorker
  <2>3. CASE GetSupersedes(x)
    BY <2>3 DEF GetSupersedes
  <2>4. CASE MarkRetired(x)
    BY <2>4 DEF MarkRetired
  <2>5. CASE GetFindsCorpse(x)
    BY <2>5 DEF GetFindsCorpse
  <2>6. CASE GetJoins(x)
    BY <2>6 DEF GetJoins
  <2>7. CASE GetIsBlocked(x)
    BY <2>7 DEF GetIsBlocked
  <2>8. CASE GetFindsNoRoom(x)
    BY <2>8 DEF GetFindsNoRoom
  <2>9. CASE GetEvicts(x)
    BY <2>9 DEF GetEvicts
  <2>10. CASE GetReserves(x)
    BY <2>10, ReserveSlots
  <2>11. CASE PingAnswered(x)
    BY <2>11 DEF PingAnswered
  <2>12. CASE PingFails(x)
    BY <2>12 DEF PingFails
  <2>13. CASE DropWorker(x)
    BY <2>13 DEF DropWorker
  <2> QED BY <1>1, <2>1, <2>2, <2>3, <2>4, <2>5, <2>6, <2>7, <2>8, <2>9, <2>10, <2>11,
       <2>12, <2>13 DEF Acquire
<1>2. ASSUME NEW x \in Call, Startup(x) PROVE Fits
  <2>1. ASSUME NEW c \in Client, Fork(x, c) PROVE Fits
    BY <2>1 DEF Fork
  <2>2. CASE ForkFails(x)
    BY <2>2 DEF ForkFails
  <2>3. CASE HelloAnswered(x)
    BY <2>3 DEF HelloAnswered
  <2>4. CASE HelloFails(x)
    BY <2>4 DEF HelloFails
  <2>5. CASE Register(x)
    BY <2>5, RegisterSlots
  <2>6. CASE StartupFails(x)
    BY <2>6, StartupFailsSlots
  <2> QED BY <1>2, <2>1, <2>2, <2>3, <2>4, <2>5, <2>6 DEF Startup
<1>3. ASSUME NEW x \in Call, Use(x) PROVE Fits
  BY <1>3 DEF Use, Done, Broken, OpenStream, StartJob, JobOutlivesGrace, CancelJob,
       OpenWrite, Finalized, FinalizeLost, FinalizeRefused
<1>4. ASSUME NEW x \in Call, NEW p \in Principal, Begin(x, p) PROVE Fits
  BY <1>4 DEF Begin
<1>5. ASSUME NEW x \in Call, NEW p \in Principal, NEW h \in Handle, ClaimUpload(x, p, h)
      PROVE  Fits
  BY <1>5 DEF ClaimUpload
<1>6. ASSUME NEW h \in Handle, WorkerDropsUpload(h) \/ SweepPin(h) PROVE Fits
  BY <1>6 DEF WorkerDropsUpload, SweepPin
<1>7. ASSUME NEW k \in Key, ReapIdle(k) PROVE Fits
  BY <1>7 DEF ReapIdle
<1>8. ASSUME NEW c \in Client, Worker(c) PROVE Fits
  BY <1>8 DEF Worker, RetireBroken, Terminate, Exit, ReadEnd, SlotFreed
<1>9. ASSUME Shutdown \/ ShutdownStep PROVE Fits
  BY <1>9 DEF Shutdown, ShutdownStep, DropPins, Sweep, StartupsSettled, ShutdownDone
<1>10. ASSUME UNCHANGED vars PROVE Fits
  BY <1>10 DEF vars
<1>11. ASSUME Fits PROVE SlotsBound'
  <2> HIDE DEF TypeOK, RequestShape, SlotShape, Settled, Reserved, PoolInv
  <2> QED BY <1>11, SlotsShrink
<1> QED BY <1>1, <1>2, <1>3, <1>4, <1>5, <1>6, <1>7, <1>8, <1>9, <1>10, <1>11 DEF Next

-----------------------------------------------------------------------------
(* Shutdown. *)

LEMMA ShutdownShapeNext == PoolInv /\ [Next]_vars => ShutdownShape'
<1> SUFFICES ASSUME PoolInv, [Next]_vars PROVE ShutdownShape'
  OBVIOUS
<1> USE NoneAssumption, PrincipalKey DEF PoolInv, TypeOK, RequestShape, ShutdownShape,
         SlotShape, TrackShape, EveryProcessIsTracked, Holding, Starting, KeyOf, Running,
         Reserved, closed, Owned, Current, Goto, Return, Take, Hold, LastOut, Release,
         Charge, IsCurrent, Detach, Retire, AtTable, NoWorker, MustStart, EndStartup, table,
         process, stop, down, upload, request, history
<1>1. ASSUME NEW x \in Call, Acquire(x) PROVE ShutdownShape'
  <2>1. CASE GetGivesUp(x)
    BY <2>1 DEF GetGivesUp
  <2>2. CASE GetWorker(x)
    BY <2>2 DEF GetWorker
  <2>3. CASE GetSupersedes(x)
    BY <2>3 DEF GetSupersedes
  <2>4. CASE MarkRetired(x)
    BY <2>4 DEF MarkRetired
  <2>5. CASE GetFindsCorpse(x)
    BY <2>5 DEF GetFindsCorpse
  <2>6. CASE GetJoins(x)
    BY <2>6 DEF GetJoins
  <2>7. CASE GetIsBlocked(x)
    BY <2>7 DEF GetIsBlocked
  <2>8. CASE GetFindsNoRoom(x)
    BY <2>8 DEF GetFindsNoRoom
  <2>9. CASE GetEvicts(x)
    BY <2>9 DEF GetEvicts
  <2>10. CASE GetReserves(x)
    BY <2>10 DEF GetReserves
  <2>11. CASE PingAnswered(x)
    BY <2>11 DEF PingAnswered
  <2>12. CASE PingFails(x)
    BY <2>12 DEF PingFails
  <2>13. CASE DropWorker(x)
    BY <2>13 DEF DropWorker
  <2> QED BY <1>1, <2>1, <2>2, <2>3, <2>4, <2>5, <2>6, <2>7, <2>8, <2>9, <2>10, <2>11,
       <2>12, <2>13 DEF Acquire
<1>2. ASSUME NEW x \in Call, Startup(x) PROVE ShutdownShape'
  BY <1>2 DEF Startup, Fork, ForkFails, HelloAnswered, HelloFails, Register,
       StartupFails
<1>3. ASSUME NEW x \in Call, Use(x) PROVE ShutdownShape'
  BY <1>3 DEF Use, Done, Broken, OpenStream, StartJob, JobOutlivesGrace, CancelJob,
       OpenWrite, Finalized, FinalizeLost, FinalizeRefused
<1>4. ASSUME NEW x \in Call, NEW p \in Principal, Begin(x, p) PROVE ShutdownShape'
  BY <1>4 DEF Begin
<1>5. ASSUME NEW x \in Call, NEW p \in Principal, NEW h \in Handle, ClaimUpload(x, p, h)
      PROVE  ShutdownShape'
  BY <1>5 DEF ClaimUpload
<1>6. ASSUME NEW h \in Handle, WorkerDropsUpload(h) \/ SweepPin(h) PROVE ShutdownShape'
  BY <1>6 DEF WorkerDropsUpload, SweepPin
<1>7. ASSUME NEW k \in Key, ReapIdle(k) PROVE ShutdownShape'
  BY <1>7 DEF ReapIdle
<1>8. ASSUME NEW c \in Client, Worker(c) PROVE ShutdownShape'
  BY <1>8 DEF Worker, RetireBroken, Terminate, Exit, ReadEnd, SlotFreed
<1>9. ASSUME Shutdown \/ ShutdownStep PROVE ShutdownShape'
  <2>1. CASE Shutdown
    BY <2>1 DEF Shutdown
  <2>2. CASE DropPins
    BY <2>2 DEF DropPins
  <2>3. CASE Sweep
    BY <2>3 DEF Sweep
  <2>4. CASE StartupsSettled
    BY <2>4 DEF StartupsSettled
  <2>5. CASE ShutdownDone
    BY <2>5 DEF ShutdownDone
  <2> QED BY <1>9, <2>1, <2>2, <2>3, <2>4, <2>5 DEF ShutdownStep
<1>10. CASE UNCHANGED vars
  BY <1>10 DEF vars
<1> QED BY <1>1, <1>2, <1>3, <1>4, <1>5, <1>6, <1>7, <1>8, <1>9, <1>10 DEF Next

-----------------------------------------------------------------------------
(* The theorems. *)

LEMMA InitPoolInv == Init => PoolInv
<1> SUFFICES ASSUME Init PROVE PoolInv
  OBVIOUS
<1> USE NoneAssumption DEF Init
<1>1. TypeOK
  BY DEF TypeOK, CallState
<1>2. RequestShape /\ OwnShape /\ SlotShape /\ TableShape /\ StarteeShape
  BY DEF RequestShape, OwnShape, SlotShape, TableShape, StarteeShape, Holding, Starting, Finalizing
<1>3. LeftShape /\ HandleShape /\ HandleStaysReachable /\ ChargedOnce
  BY DEF LeftShape, HandleShape, Finalizing, HandleStaysReachable, ChargedOnce
<1>4. \A c \in Client : Holders(c) = {} /\ PinsOn(c) = {}
  BY DEF Holders, Holding, PinsOn
<1>5. HoldShape
  <2>1. \A c \in Client :
          IsFiniteSet(PinsOn(c)) /\ Cardinality(Holders(c)) = 0 /\ Cardinality(PinsOn(c)) = 0
    BY <1>4, FS_EmptySet
  <2> QED BY <2>1 DEF HoldShape, HoldsBalance
<1>6. Settled = {} /\ Reserved = {} /\ Running = {}
  BY DEF Settled, Running, Reserved
<1>7. SlotsBound
  BY <1>6, FS_EmptySet, MaxAssumption DEF SlotsBound
<1>8. TrackShape /\ ShutdownShape
  BY <1>6 DEF TrackShape, EveryProcessIsTracked, ShutdownShape
<1> QED BY <1>1, <1>2, <1>3, <1>5, <1>7, <1>8 DEF PoolInv

LEMMA NextPoolInv == PoolInv /\ [Next]_vars => PoolInv'
  BY TypeOKNext, RequestShapeNext, OwnShapeNext, SlotShapeNext, TableShapeNext,
     StarteeShapeNext, LeftShapeNext, HandleShapeNext, HandleStaysReachableNext,
     HoldShapeNext, ChargedOnceNext, TrackShapeNext, SlotsBoundNext, ShutdownShapeNext
     DEF PoolInv

\* The pool keeps its books: the invariant the theorems below follow from.
THEOREM PoolInvariant == Spec => []PoolInv
  BY InitPoolInv, NextPoolInv, PTL DEF Spec

\* Whatever the keys, groups, clients, requests, uploads and failures: a
\* request is served by a process forked for its own principal, and a Finalize
\* by the user's own process (acquire, spawn, claimUpload).
THEOREM ServedAsOneself == Spec => []OwnIdentity
<1>1. PoolInv => OwnIdentity
  BY DEF PoolInv, OwnShape, OwnIdentity, Finalizing
<1> QED BY <1>1, PoolInvariant, PTL

\* inflight counts exactly the requests and pins that hold a worker, so what the
\* pool stops for being unused is in nobody's hands (release, done, sweeps).
THEOREM HoldsAreExact == Spec => []HoldsProtect
<1>1. ASSUME PoolInv PROVE NobodyIsInterrupted
  <2> SUFFICES ASSUME NEW c \in graceful PROVE Holders(c) = {} /\ PinsOn(c) = {}
    BY DEF NobodyIsInterrupted
  <2>1. c \in Client /\ IsFiniteSet(PinsOn(c)) /\ IsFiniteSet(Holders(c))
    BY <1>1, FiniteAssumption, FS_Subset DEF PoolInv, TypeOK, HoldShape, Holders
  <2>2. Cardinality(Holders(c)) + Cardinality(PinsOn(c)) = 0
    BY <1>1, <2>1 DEF PoolInv, HoldShape, HoldsBalance
  <2>3. Cardinality(Holders(c)) = 0 /\ Cardinality(PinsOn(c)) = 0
    BY <2>1, <2>2, FS_CardinalityType
  <2> QED BY <2>1, <2>3, FS_EmptySet
<1>2. PoolInv => HoldsProtect
  BY <1>1 DEF PoolInv, HoldShape, HoldsProtect
<1> QED BY <1>2, PoolInvariant, PTL

\* However many requests notice that a worker is broken, and in whatever order,
\* the user's restart budget pays for it once (detach, noteRestartLocked).
THEOREM OneDeathOneCharge == Spec => []ChargedOnce
<1>1. PoolInv => ChargedOnce
  BY DEF PoolInv
<1> QED BY <1>1, PoolInvariant, PTL

\* An upload whose worker lives can be finished or discarded until the pool is
\* closed: no refusal and no sweep leaves its handle unreachable (stream.go).
THEOREM HandlesAreKept == Spec => []HandleStaysReachable
<1>1. PoolInv => HandleStaysReachable
  BY DEF PoolInv
<1> QED BY <1>1, PoolInvariant, PTL

\* Max bounds the processes alive, counting those that start, serve, retire and
\* refuse to die, and each of them is on one of the pool's books.
THEOREM PoolStaysBounded == Spec => []PoolIsBounded
<1>1. ASSUME PoolInv PROVE MaxIsACeiling
  <2> DEFINE Started == {cl[spawning[k]] : k \in Reserved}
  <2>1. IsFiniteSet(Reserved) /\ IsFiniteSet(Settled)
    BY FiniteAssumption, FS_Subset DEF Reserved, Settled, Running
  <2>2. IsFiniteSet(Started) /\ Cardinality(Started) <= Cardinality(Reserved)
    <3> DEFINE f == [k \in Reserved |-> cl[spawning[k]]]
    <3>1. f \in Surjection(Reserved, Started)
      BY DEF Surjection
    <3> QED BY <2>1, <3>1, FS_Surjection
  <2>3. Running \subseteq Settled \cup Started
    BY <1>1, PrincipalKey, NoneAssumption
       DEF PoolInv, TypeOK, RequestShape, SlotShape, Running, Settled, Reserved, BeingStarted,
           Starting, KeyOf
  <2> HIDE DEF Started
  <2>4. /\ IsFiniteSet(Settled \cup Started)
        /\ Cardinality(Settled \cup Started) <= Cardinality(Settled) + Cardinality(Started)
    <3>1. /\ IsFiniteSet(Settled \cup Started) /\ IsFiniteSet(Settled \cap Started)
          /\ Cardinality(Settled \cup Started)
               = Cardinality(Settled) + Cardinality(Started) - Cardinality(Settled \cap Started)
      BY <2>1, <2>2, FS_Union, FS_Subset
    <3> QED BY <3>1, <2>1, <2>2, FS_CardinalityType
  <2>5. IsFiniteSet(Running) /\ Cardinality(Running) <= Cardinality(Settled \cup Started)
    BY <2>3, <2>4, FS_Subset
  <2>6. /\ Cardinality(Running) \in Nat /\ Cardinality(Settled \cup Started) \in Nat
        /\ Cardinality(Settled) \in Nat /\ Cardinality(Started) \in Nat
        /\ Cardinality(Reserved) \in Nat
    BY <2>1, <2>2, <2>4, <2>5, FS_CardinalityType
  <2>7. Cardinality(Settled) + Cardinality(Reserved) <= Max
    BY <1>1 DEF PoolInv, SlotsBound
  <2> QED BY <2>2, <2>4, <2>5, <2>6, <2>7, MaxAssumption DEF MaxIsACeiling
<1>2. PoolInv => PoolIsBounded
  BY <1>1 DEF PoolInv, TrackShape, PoolIsBounded
<1> QED BY <1>2, PoolInvariant, PTL

\* When Shutdown has reported completion there is no worker process and no
\* startup from which one could appear; this is the safety half of
\* ShutdownCompletes.
THEOREM NothingSurvivesShutdown == Spec => []ShutdownLeavesNothing
<1>1. PoolInv => ShutdownLeavesNothing
  BY DEF PoolInv, ShutdownShape, ShutdownLeavesNothing
<1> QED BY <1>1, PoolInvariant, PTL
=============================================================================
