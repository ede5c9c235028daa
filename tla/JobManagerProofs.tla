---- MODULE JobManagerProofs ----
EXTENDS JobManager, FiniteSetTheorems, TLAPS

LEMMA FiniteSubset ==
  ASSUME NEW S \in SUBSET Entries
  PROVE  IsFiniteSet(S) /\ Cardinality(S) \in Nat
<1>1. IsFiniteSet(Entries)
  BY LimitsAssumption, FS_Interval DEF Entries
<1>2. IsFiniteSet(S)
  BY <1>1, FS_Subset
<1> QED
  BY <1>2, FS_CardinalityType

LEMMA FiniteBorrowing ==
  ASSUME NEW c
  PROVE  IsFiniteSet(Borrowing(c)) /\ Cardinality(Borrowing(c)) \in Nat
<1>1. Borrowing(c) \in SUBSET Admitters
  BY DEF Borrowing
<1>2. IsFiniteSet(Borrowing(c))
  BY <1>1, AdmittersAssumption, FS_Subset
<1> QED
  BY <1>2, FS_CardinalityType

LEMMA CountMove ==
  ASSUME NEW S, IsFiniteSet(S), NEW x, NEW T,
         T = S \cup {x} \/ T = S \ {x}
  PROVE  Cardinality(T) = Cardinality(S) + (IF x \in T THEN 1 ELSE 0) - (IF x \in S THEN 1 ELSE 0)
<1>1. Cardinality(S) \in Nat
  BY FS_CardinalityType
<1>2. CASE T = S \cup {x}
  BY <1>1, <1>2, FS_AddElement
<1>3. CASE T = S \ {x}
  BY <1>1, <1>3, FS_RemoveElement
<1> QED
  BY <1>2, <1>3

\* 1 when x is in S, 0 when it is not.
In(x, S) == IF x \in S THEN 1 ELSE 0
BusyPCs == PCs \ {"idle", "gone"}

LEMMA HoldingCount ==
  ASSUME JobType, NEW e \in Entries, pc' = [pc EXCEPT ![e] = pc'[e]],
         class' = class, NEW c \in Class
  PROVE  Cardinality(Holding(c)') = Cardinality(Holding(c)) +
           (IF class[e] = c THEN In(pc'[e], SlotPCs) - In(pc[e], SlotPCs) ELSE 0)
<1>1. IsFiniteSet(Holding(c)) /\ Cardinality(Holding(c)) \in Nat
  BY FiniteSubset DEF Holding
<1>2. Holding(c)' = Holding(c) \cup {e} \/ Holding(c)' = Holding(c) \ {e}
  BY DEF Holding, JobType
<1>3. /\ e \in Holding(c)' <=> class[e] = c /\ pc'[e] \in SlotPCs
      /\ e \in Holding(c) <=> class[e] = c /\ pc[e] \in SlotPCs
  BY DEF Holding
<1> QED
  BY <1>1, <1>2, <1>3, CountMove DEF In

LEMMA WaitingCount ==
  ASSUME JobType, NEW e \in Entries, pc' = [pc EXCEPT ![e] = pc'[e]],
         class' = class, NEW c \in Class
  PROVE  Cardinality(Waiting(c)') = Cardinality(Waiting(c)) +
           (IF class[e] = c THEN In(pc'[e], QueuePCs) - In(pc[e], QueuePCs) ELSE 0)
<1>1. IsFiniteSet(Waiting(c)) /\ Cardinality(Waiting(c)) \in Nat
  BY FiniteSubset DEF Waiting
<1>2. Waiting(c)' = Waiting(c) \cup {e} \/ Waiting(c)' = Waiting(c) \ {e}
  BY DEF Waiting, JobType
<1>3. /\ e \in Waiting(c)' <=> class[e] = c /\ pc'[e] \in QueuePCs
      /\ e \in Waiting(c) <=> class[e] = c /\ pc[e] \in QueuePCs
  BY DEF Waiting
<1> QED
  BY <1>1, <1>2, <1>3, CountMove DEF In

LEMMA UnfinishedCount ==
  ASSUME JobType, JobType', NEW e \in Entries, pc' = [pc EXCEPT ![e] = pc'[e]]
  PROVE  Cardinality(Unfinished') = Cardinality(Unfinished) + In(pc'[e], BusyPCs) - In(pc[e], BusyPCs)
<1>1. IsFiniteSet(Unfinished) /\ Cardinality(Unfinished) \in Nat
  BY FiniteSubset DEF Unfinished
<1>2. Unfinished' = Unfinished \cup {e} \/ Unfinished' = Unfinished \ {e}
  BY DEF Unfinished, JobType
<1>3. /\ e \in Unfinished' <=> pc'[e] \in BusyPCs
      /\ e \in Unfinished <=> pc[e] \in BusyPCs
  BY DEF Unfinished, JobType, BusyPCs
<1> QED
  BY <1>1, <1>2, <1>3, CountMove DEF In

LEMMA CountedMove ==
  ASSUME TypeOK, Counted, JobType', NEW e \in Entries,
         pc' = [pc EXCEPT ![e] = pc'[e]], class' = class, admit' = admit,
         \A c \in Class :
            /\ sem'[c] = sem[c] + (IF class[e] = c THEN In(pc'[e], SlotPCs) - In(pc[e], SlotPCs) ELSE 0)
            /\ sem'[c] <= Slots[c]
            /\ queued'[c] = queued[c] + (IF class[e] = c THEN In(pc'[e], QueuePCs) - In(pc[e], QueuePCs) ELSE 0)
            /\ queued'[c] <= QueueDepth,
         wg' = wg + In(pc'[e], BusyPCs) - In(pc[e], BusyPCs)
  PROVE  Counted'
<1>1. ASSUME NEW c \in Class
      PROVE  sem'[c] = Cardinality(Holding(c)') + Cardinality(Borrowing(c)')
  <2>1. /\ sem[c] = Cardinality(Holding(c)) + Cardinality(Borrowing(c))
        /\ Borrowing(c)' = Borrowing(c)
    BY DEF Counted, Borrowing
  <2>2. Cardinality(Holding(c)) \in Nat /\ Cardinality(Borrowing(c)) \in Nat
    BY FiniteSubset, FiniteBorrowing DEF Holding
  <2>3. Cardinality(Holding(c)') = Cardinality(Holding(c)) +
           (IF class[e] = c THEN In(pc'[e], SlotPCs) - In(pc[e], SlotPCs) ELSE 0)
    BY HoldingCount DEF TypeOK
  <2> QED
    BY <2>1, <2>2, <2>3 DEF In
<1>2. ASSUME NEW c \in Class
      PROVE  queued'[c] = Cardinality(Waiting(c)')
  <2>1. Cardinality(Waiting(c)') = Cardinality(Waiting(c)) +
           (IF class[e] = c THEN In(pc'[e], QueuePCs) - In(pc[e], QueuePCs) ELSE 0)
    BY WaitingCount DEF TypeOK
  <2> QED
    BY <2>1 DEF Counted
<1>3. wg' = Cardinality(Unfinished')
  <2>1. Cardinality(Unfinished') = Cardinality(Unfinished) + In(pc'[e], BusyPCs) - In(pc[e], BusyPCs)
    BY UnfinishedCount DEF TypeOK
  <2> QED
    BY <2>1 DEF Counted
<1> QED
  BY <1>1, <1>2, <1>3 DEF Counted

LEMMA TakeSlotStep ==
  ASSUME IndInv, NEW e \in Entries, TakeSlot(e)
  PROVE  IndInv'
<1> USE DEF IndInv, TypeOK, Goto, TakeSlot, mgrVars, slotVars, closeVars, jobVars, histVars
<1>0. class[e] \in Class
  BY DEF EntryShape
<1>1. MgrType' /\ SlotType' /\ CloseType' /\ HistType'
  BY <1>0, LimitsAssumption DEF MgrType, SlotType, CloseType, HistType
<1>2. JobType'
  BY DEF JobType, PCs, QueuePCs, SlotPCs, JobStates, TerminalStates, MgrType
<1>3. \A f \in Entries : EntryShape(f)' /\ HistShape(f)'
  BY DEF JobType, HistType, EntryShape, HistShape, Terminal, TerminalStates, QueuePCs, SlotPCs
<1>4. Counted'
  <2>1. pc' = [pc EXCEPT ![e] = pc'[e]] /\ class' = class /\ admit' = admit
    BY DEF JobType
  <2>2. \A c \in Class : /\ sem'[c] = sem[c] + (IF class[e] = c THEN In(pc'[e], SlotPCs) - In(pc[e], SlotPCs) ELSE 0)
                          /\ sem'[c] <= Slots[c]
    <3> SUFFICES ASSUME NEW c \in Class
                 PROVE  sem'[c] = sem[c] + (IF class[e] = c THEN In(pc'[e], SlotPCs) - In(pc[e], SlotPCs) ELSE 0) /\ sem'[c] <= Slots[c]
      OBVIOUS
    <3>1. In(pc'[e], SlotPCs) = 1 /\ In(pc[e], SlotPCs) = 0
      BY DEF In, SlotPCs, JobType
    <3>2. sem[c] \in Int /\ Slots[c] \in Nat /\ sem[c] <= Slots[c]
      BY LimitsAssumption DEF SlotType, Counted
    <3> QED
      BY <1>0, <3>1, <3>2 DEF SlotType
  <2>3. \A c \in Class : /\ queued'[c] = queued[c] + (IF class[e] = c THEN In(pc'[e], QueuePCs) - In(pc[e], QueuePCs) ELSE 0)
                          /\ queued'[c] <= QueueDepth
    BY <1>0, LimitsAssumption DEF Counted, In, QueuePCs, MgrType, JobType
  <2>4. wg' = wg + In(pc'[e], BusyPCs) - In(pc[e], BusyPCs)
    BY DEF In, BusyPCs, PCs, QueuePCs, SlotPCs, MgrType, JobType
  <2> QED
    BY <1>2, <2>1, <2>2, <2>3, <2>4, CountedMove, ZenonT(60)
<1>5. Reachable'
  BY DEF Reachable, LiveIsReachable, Live, Submitted, Terminal, TerminalStates, JobType, MgrType
<1>6. CloseShape'
  BY DEF CloseShape, Live, Submitted, Terminal, TerminalStates, JobType, CloseType, Unfinished
<1> QED
  BY <1>1, <1>2, <1>3, <1>4, <1>5, <1>6

LEMMA SeeCancelledStep ==
  ASSUME IndInv, NEW e \in Entries, SeeCancelled(e)
  PROVE  IndInv'
<1> USE DEF IndInv, TypeOK, Goto, SeeCancelled, mgrVars, slotVars, closeVars, jobVars, histVars
<1>0. class[e] \in Class
  BY DEF EntryShape
<1>1. MgrType' /\ SlotType' /\ CloseType' /\ HistType'
  BY <1>0, LimitsAssumption DEF MgrType, SlotType, CloseType, HistType
<1>2. JobType'
  BY DEF JobType, PCs, QueuePCs, SlotPCs, JobStates, TerminalStates, MgrType
<1>3. \A f \in Entries : EntryShape(f)' /\ HistShape(f)'
  BY DEF JobType, HistType, EntryShape, HistShape, Terminal, TerminalStates, QueuePCs, SlotPCs
<1>4. Counted'
  <2>1. pc' = [pc EXCEPT ![e] = pc'[e]] /\ class' = class /\ admit' = admit
    BY DEF JobType
  <2>2. \A c \in Class : /\ sem'[c] = sem[c] + (IF class[e] = c THEN In(pc'[e], SlotPCs) - In(pc[e], SlotPCs) ELSE 0)
                          /\ sem'[c] <= Slots[c]
    BY <1>0, LimitsAssumption DEF Counted, In, SlotPCs, SlotType, JobType
  <2>3. \A c \in Class : /\ queued'[c] = queued[c] + (IF class[e] = c THEN In(pc'[e], QueuePCs) - In(pc[e], QueuePCs) ELSE 0)
                          /\ queued'[c] <= QueueDepth
    BY <1>0, LimitsAssumption DEF Counted, In, QueuePCs, MgrType, JobType
  <2>4. wg' = wg + In(pc'[e], BusyPCs) - In(pc[e], BusyPCs)
    BY DEF In, BusyPCs, PCs, QueuePCs, SlotPCs, MgrType, JobType
  <2> QED
    BY <1>2, <2>1, <2>2, <2>3, <2>4, CountedMove, ZenonT(60)
<1>5. Reachable'
  BY DEF Reachable, LiveIsReachable, Live, Submitted, Terminal, TerminalStates, JobType, MgrType
<1>6. CloseShape'
  BY DEF CloseShape, Live, Submitted, Terminal, TerminalStates, JobType, CloseType, Unfinished
<1> QED
  BY <1>1, <1>2, <1>3, <1>4, <1>5, <1>6

LEMMA leaveQueueStep ==
  ASSUME IndInv, NEW e \in Entries, leaveQueue(e)
  PROVE  IndInv'
<1> USE DEF IndInv, TypeOK, Goto, leaveQueue, mgrVars, slotVars, closeVars, jobVars, histVars
<1>0. class[e] \in Class
  BY DEF EntryShape
<1>1. MgrType' /\ SlotType' /\ CloseType' /\ HistType'
  BY <1>0, LimitsAssumption DEF MgrType, SlotType, CloseType, HistType
<1>2. JobType'
  BY DEF JobType, PCs, QueuePCs, SlotPCs, JobStates, TerminalStates, MgrType
<1>3. \A f \in Entries : EntryShape(f)' /\ HistShape(f)'
  BY DEF JobType, HistType, EntryShape, HistShape, Terminal, TerminalStates, QueuePCs, SlotPCs
<1>4. Counted'
  <2>1. pc' = [pc EXCEPT ![e] = pc'[e]] /\ class' = class /\ admit' = admit
    BY DEF JobType
  <2>2. \A c \in Class : /\ sem'[c] = sem[c] + (IF class[e] = c THEN In(pc'[e], SlotPCs) - In(pc[e], SlotPCs) ELSE 0)
                          /\ sem'[c] <= Slots[c]
    BY <1>0, LimitsAssumption DEF Counted, In, SlotPCs, SlotType, JobType
  <2>3. \A c \in Class : /\ queued'[c] = queued[c] + (IF class[e] = c THEN In(pc'[e], QueuePCs) - In(pc[e], QueuePCs) ELSE 0)
                          /\ queued'[c] <= QueueDepth
    <3> SUFFICES ASSUME NEW c \in Class
                 PROVE  queued'[c] = queued[c] + (IF class[e] = c THEN In(pc'[e], QueuePCs) - In(pc[e], QueuePCs) ELSE 0) /\ queued'[c] <= QueueDepth
      OBVIOUS
    <3>1. In(pc'[e], QueuePCs) = 0 /\ In(pc[e], QueuePCs) = 1
      BY DEF In, QueuePCs, JobType
    <3>2. queued[c] \in Nat /\ queued[c] <= QueueDepth
      BY DEF MgrType, Counted
    <3>3. class[e] = c => queued[c] > 0
      <4> SUFFICES ASSUME class[e] = c PROVE queued[c] > 0
        OBVIOUS
      <4>1. e \in Waiting(c) /\ Waiting(c) \in SUBSET Entries
        BY DEF Waiting, QueuePCs
      <4>2. Cardinality(Waiting(c)) # 0
        BY <4>1, FiniteSubset, FS_EmptySet
      <4> QED
        BY <3>2, <4>2 DEF Counted
    <3> QED
      BY <1>0, <3>1, <3>2, <3>3, LimitsAssumption DEF MgrType
  <2>4. wg' = wg + In(pc'[e], BusyPCs) - In(pc[e], BusyPCs)
    BY DEF In, BusyPCs, PCs, QueuePCs, SlotPCs, MgrType, JobType
  <2> QED
    BY <1>2, <2>1, <2>2, <2>3, <2>4, CountedMove, ZenonT(60)
<1>5. Reachable'
  BY DEF Reachable, LiveIsReachable, Live, Submitted, Terminal, TerminalStates, JobType, MgrType
<1>6. CloseShape'
  BY DEF CloseShape, Live, Submitted, Terminal, TerminalStates, JobType, CloseType, Unfinished
<1> QED
  BY <1>1, <1>2, <1>3, <1>4, <1>5, <1>6

LEMMA isClosedStep ==
  ASSUME IndInv, NEW e \in Entries, isClosed(e)
  PROVE  IndInv'
<1> USE DEF IndInv, TypeOK, Goto, isClosed, mgrVars, slotVars, closeVars, jobVars, histVars
<1>0. class[e] \in Class
  BY DEF EntryShape
<1>1. MgrType' /\ SlotType' /\ CloseType' /\ HistType'
  BY <1>0, LimitsAssumption DEF MgrType, SlotType, CloseType, HistType
<1>2. JobType'
  BY DEF JobType, PCs, QueuePCs, SlotPCs, JobStates, TerminalStates, MgrType
<1>3. \A f \in Entries : EntryShape(f)' /\ HistShape(f)'
  BY DEF JobType, HistType, EntryShape, HistShape, Terminal, TerminalStates, QueuePCs, SlotPCs
<1>4. Counted'
  <2>1. pc' = [pc EXCEPT ![e] = pc'[e]] /\ class' = class /\ admit' = admit
    BY DEF JobType
  <2>2. \A c \in Class : /\ sem'[c] = sem[c] + (IF class[e] = c THEN In(pc'[e], SlotPCs) - In(pc[e], SlotPCs) ELSE 0)
                          /\ sem'[c] <= Slots[c]
    BY <1>0, LimitsAssumption DEF Counted, In, SlotPCs, SlotType, JobType
  <2>3. \A c \in Class : /\ queued'[c] = queued[c] + (IF class[e] = c THEN In(pc'[e], QueuePCs) - In(pc[e], QueuePCs) ELSE 0)
                          /\ queued'[c] <= QueueDepth
    BY <1>0, LimitsAssumption DEF Counted, In, QueuePCs, MgrType, JobType
  <2>4. wg' = wg + In(pc'[e], BusyPCs) - In(pc[e], BusyPCs)
    BY DEF In, BusyPCs, PCs, QueuePCs, SlotPCs, MgrType, JobType
  <2> QED
    BY <1>2, <2>1, <2>2, <2>3, <2>4, CountedMove, ZenonT(60)
<1>5. Reachable'
  BY DEF Reachable, LiveIsReachable, Live, Submitted, Terminal, TerminalStates, JobType, MgrType
<1>6. CloseShape'
  BY DEF CloseShape, Live, Submitted, Terminal, TerminalStates, JobType, CloseType, Unfinished
<1> QED
  BY <1>1, <1>2, <1>3, <1>4, <1>5, <1>6

LEMMA startStep ==
  ASSUME IndInv, NEW e \in Entries, start(e)
  PROVE  IndInv'
<1> USE DEF IndInv, TypeOK, Goto, start, mgrVars, slotVars, closeVars, jobVars, histVars
<1>0. class[e] \in Class
  BY DEF EntryShape
<1>1. MgrType' /\ SlotType' /\ CloseType' /\ HistType'
  BY <1>0, LimitsAssumption DEF MgrType, SlotType, CloseType, HistType
<1>2. JobType'
  BY DEF JobType, PCs, QueuePCs, SlotPCs, JobStates, TerminalStates, MgrType
<1>3. \A f \in Entries : EntryShape(f)' /\ HistShape(f)'
  BY DEF JobType, HistType, EntryShape, HistShape, Terminal, TerminalStates, QueuePCs, SlotPCs
<1>4. Counted'
  <2>1. pc' = [pc EXCEPT ![e] = pc'[e]] /\ class' = class /\ admit' = admit
    BY DEF JobType
  <2>2. \A c \in Class : /\ sem'[c] = sem[c] + (IF class[e] = c THEN In(pc'[e], SlotPCs) - In(pc[e], SlotPCs) ELSE 0)
                          /\ sem'[c] <= Slots[c]
    BY <1>0, LimitsAssumption DEF Counted, In, SlotPCs, SlotType, JobType
  <2>3. \A c \in Class : /\ queued'[c] = queued[c] + (IF class[e] = c THEN In(pc'[e], QueuePCs) - In(pc[e], QueuePCs) ELSE 0)
                          /\ queued'[c] <= QueueDepth
    BY <1>0, LimitsAssumption DEF Counted, In, QueuePCs, MgrType, JobType
  <2>4. wg' = wg + In(pc'[e], BusyPCs) - In(pc[e], BusyPCs)
    BY DEF In, BusyPCs, PCs, QueuePCs, SlotPCs, MgrType, JobType
  <2> QED
    BY <1>2, <2>1, <2>2, <2>3, <2>4, CountedMove, ZenonT(60)
<1>5. Reachable'
  <2>1. \A f \in Entries : Live(f)' => Live(f)
    BY DEF Live, Submitted, Terminal, TerminalStates, JobType, EntryShape
  <2> QED
    BY <2>1 DEF Reachable, LiveIsReachable
<1>6. CloseShape'
  <2>1. \A f \in Entries : Live(f)' => Live(f)
    BY DEF Live, Submitted, Terminal, TerminalStates, JobType, EntryShape
  <2>2. closer = "nil" => Unfinished' = {}
    BY DEF CloseShape, Unfinished, JobType
  <2> QED
    BY <2>1, <2>2 DEF CloseShape
<1> QED
  BY <1>1, <1>2, <1>3, <1>4, <1>5, <1>6

LEMMA finishQueuedStep ==
  ASSUME IndInv, NEW e \in Entries, finishQueued(e)
  PROVE  IndInv'
<1> USE DEF IndInv, TypeOK, Goto, finishQueued, mgrVars, slotVars, closeVars, jobVars, histVars
<1>0. class[e] \in Class
  BY DEF EntryShape
<1>1. MgrType' /\ SlotType' /\ CloseType' /\ HistType'
  BY <1>0, LimitsAssumption DEF MgrType, SlotType, CloseType, HistType
<1>2. JobType'
  BY DEF JobType, PCs, QueuePCs, SlotPCs, JobStates, TerminalStates, MgrType
<1>3. \A f \in Entries : EntryShape(f)' /\ HistShape(f)'
  BY DEF JobType, HistType, EntryShape, HistShape, Terminal, TerminalStates, QueuePCs, SlotPCs
<1>4. Counted'
  <2>1. pc' = [pc EXCEPT ![e] = pc'[e]] /\ class' = class /\ admit' = admit
    BY DEF JobType
  <2>2. \A c \in Class : /\ sem'[c] = sem[c] + (IF class[e] = c THEN In(pc'[e], SlotPCs) - In(pc[e], SlotPCs) ELSE 0)
                          /\ sem'[c] <= Slots[c]
    BY <1>0, LimitsAssumption DEF Counted, In, SlotPCs, SlotType, JobType
  <2>3. \A c \in Class : /\ queued'[c] = queued[c] + (IF class[e] = c THEN In(pc'[e], QueuePCs) - In(pc[e], QueuePCs) ELSE 0)
                          /\ queued'[c] <= QueueDepth
    BY <1>0, LimitsAssumption DEF Counted, In, QueuePCs, MgrType, JobType
  <2>4. wg' = wg + In(pc'[e], BusyPCs) - In(pc[e], BusyPCs)
    BY DEF In, BusyPCs, PCs, QueuePCs, SlotPCs, MgrType, JobType
  <2> QED
    BY <1>2, <2>1, <2>2, <2>3, <2>4, CountedMove, ZenonT(60)
<1>5. Reachable'
  BY DEF Reachable, LiveIsReachable, Live, Submitted, Terminal, TerminalStates, JobType, MgrType
<1>6. CloseShape'
  BY DEF CloseShape, Live, Submitted, Terminal, TerminalStates, JobType, CloseType, Unfinished
<1> QED
  BY <1>1, <1>2, <1>3, <1>4, <1>5, <1>6

LEMMA finishStep ==
  ASSUME IndInv, NEW e \in Entries, finish(e)
  PROVE  IndInv'
<1> USE DEF IndInv, TypeOK, Goto, finish, mgrVars, slotVars, closeVars, jobVars, histVars
<1>0. class[e] \in Class
  BY DEF EntryShape
<1>1. MgrType' /\ SlotType' /\ CloseType' /\ HistType'
  BY <1>0, LimitsAssumption DEF MgrType, SlotType, CloseType, HistType
<1>2. JobType'
  BY DEF JobType, PCs, QueuePCs, SlotPCs, JobStates, TerminalStates, MgrType
<1>3. \A f \in Entries : EntryShape(f)' /\ HistShape(f)'
  BY DEF JobType, HistType, EntryShape, HistShape, Terminal, TerminalStates, QueuePCs, SlotPCs
<1>4. Counted'
  <2>1. pc' = [pc EXCEPT ![e] = pc'[e]] /\ class' = class /\ admit' = admit
    BY DEF JobType
  <2>2. \A c \in Class : /\ sem'[c] = sem[c] + (IF class[e] = c THEN In(pc'[e], SlotPCs) - In(pc[e], SlotPCs) ELSE 0)
                          /\ sem'[c] <= Slots[c]
    BY <1>0, LimitsAssumption DEF Counted, In, SlotPCs, SlotType, JobType
  <2>3. \A c \in Class : /\ queued'[c] = queued[c] + (IF class[e] = c THEN In(pc'[e], QueuePCs) - In(pc[e], QueuePCs) ELSE 0)
                          /\ queued'[c] <= QueueDepth
    BY <1>0, LimitsAssumption DEF Counted, In, QueuePCs, MgrType, JobType
  <2>4. wg' = wg + In(pc'[e], BusyPCs) - In(pc[e], BusyPCs)
    BY DEF In, BusyPCs, PCs, QueuePCs, SlotPCs, MgrType, JobType
  <2> QED
    BY <1>2, <2>1, <2>2, <2>3, <2>4, CountedMove, ZenonT(60)
<1>5. Reachable'
  BY DEF Reachable, LiveIsReachable, Live, Submitted, Terminal, TerminalStates, JobType, MgrType
<1>6. CloseShape'
  BY DEF CloseShape, Live, Submitted, Terminal, TerminalStates, JobType, CloseType, Unfinished
<1> QED
  BY <1>1, <1>2, <1>3, <1>4, <1>5, <1>6

LEMMA releaseSlotStep ==
  ASSUME IndInv, NEW e \in Entries, releaseSlot(e)
  PROVE  IndInv'
<1> USE DEF IndInv, TypeOK, Goto, releaseSlot, mgrVars, slotVars, closeVars, jobVars, histVars
<1>0. class[e] \in Class
  BY DEF EntryShape
<1>1. MgrType' /\ SlotType' /\ CloseType' /\ HistType'
  BY <1>0, LimitsAssumption DEF MgrType, SlotType, CloseType, HistType
<1>2. JobType'
  BY DEF JobType, PCs, QueuePCs, SlotPCs, JobStates, TerminalStates, MgrType
<1>3. \A f \in Entries : EntryShape(f)' /\ HistShape(f)'
  BY DEF JobType, HistType, EntryShape, HistShape, Terminal, TerminalStates, QueuePCs, SlotPCs
<1>4. Counted'
  <2>1. pc' = [pc EXCEPT ![e] = pc'[e]] /\ class' = class /\ admit' = admit
    BY DEF JobType
  <2>2. \A c \in Class : /\ sem'[c] = sem[c] + (IF class[e] = c THEN In(pc'[e], SlotPCs) - In(pc[e], SlotPCs) ELSE 0)
                          /\ sem'[c] <= Slots[c]
    <3> SUFFICES ASSUME NEW c \in Class
                 PROVE  sem'[c] = sem[c] + (IF class[e] = c THEN In(pc'[e], SlotPCs) - In(pc[e], SlotPCs) ELSE 0) /\ sem'[c] <= Slots[c]
      OBVIOUS
    <3>1. In(pc'[e], SlotPCs) = 0 /\ In(pc[e], SlotPCs) = 1
      BY DEF In, SlotPCs, JobType
    <3>2. sem[c] \in Int /\ Slots[c] \in Nat /\ sem[c] <= Slots[c]
      BY LimitsAssumption DEF SlotType, Counted
    <3> QED
      BY <1>0, <3>1, <3>2 DEF SlotType
  <2>3. \A c \in Class : /\ queued'[c] = queued[c] + (IF class[e] = c THEN In(pc'[e], QueuePCs) - In(pc[e], QueuePCs) ELSE 0)
                          /\ queued'[c] <= QueueDepth
    BY <1>0, LimitsAssumption DEF Counted, In, QueuePCs, MgrType, JobType
  <2>4. wg' = wg + In(pc'[e], BusyPCs) - In(pc[e], BusyPCs)
    BY DEF In, BusyPCs, PCs, QueuePCs, SlotPCs, MgrType, JobType
  <2> QED
    BY <1>2, <2>1, <2>2, <2>3, <2>4, CountedMove, ZenonT(60)
<1>5. Reachable'
  BY DEF Reachable, LiveIsReachable, Live, Submitted, Terminal, TerminalStates, JobType, MgrType
<1>6. CloseShape'
  BY DEF CloseShape, Live, Submitted, Terminal, TerminalStates, JobType, CloseType, Unfinished
<1> QED
  BY <1>1, <1>2, <1>3, <1>4, <1>5, <1>6

LEMMA notifyFinishStep ==
  ASSUME IndInv, NEW e \in Entries, notifyFinish(e)
  PROVE  IndInv'
<1> USE DEF IndInv, TypeOK, Goto, notifyFinish, mgrVars, slotVars, closeVars, jobVars, histVars
<1>0. class[e] \in Class
  BY DEF EntryShape
<1>1. MgrType' /\ SlotType' /\ CloseType' /\ HistType'
  BY <1>0, LimitsAssumption DEF MgrType, SlotType, CloseType, HistType
<1>2. JobType'
  BY DEF JobType, PCs, QueuePCs, SlotPCs, JobStates, TerminalStates, MgrType
<1>3. \A f \in Entries : EntryShape(f)' /\ HistShape(f)'
  BY DEF JobType, HistType, EntryShape, HistShape, Terminal, TerminalStates, QueuePCs, SlotPCs
<1>4. Counted'
  <2>1. pc' = [pc EXCEPT ![e] = pc'[e]] /\ class' = class /\ admit' = admit
    BY DEF JobType
  <2>2. \A c \in Class : /\ sem'[c] = sem[c] + (IF class[e] = c THEN In(pc'[e], SlotPCs) - In(pc[e], SlotPCs) ELSE 0)
                          /\ sem'[c] <= Slots[c]
    BY <1>0, LimitsAssumption DEF Counted, In, SlotPCs, SlotType, JobType
  <2>3. \A c \in Class : /\ queued'[c] = queued[c] + (IF class[e] = c THEN In(pc'[e], QueuePCs) - In(pc[e], QueuePCs) ELSE 0)
                          /\ queued'[c] <= QueueDepth
    BY <1>0, LimitsAssumption DEF Counted, In, QueuePCs, MgrType, JobType
  <2>4. wg' = wg + In(pc'[e], BusyPCs) - In(pc[e], BusyPCs)
    BY DEF In, BusyPCs, PCs, QueuePCs, SlotPCs, MgrType, JobType
  <2> QED
    BY <1>2, <2>1, <2>2, <2>3, <2>4, CountedMove, ZenonT(60)
<1>5. Reachable'
  BY DEF Reachable, LiveIsReachable, Live, Submitted, Terminal, TerminalStates, JobType, MgrType
<1>6. CloseShape'
  BY DEF CloseShape, Live, Submitted, Terminal, TerminalStates, JobType, CloseType, Unfinished
<1> QED
  BY <1>1, <1>2, <1>3, <1>4, <1>5, <1>6

LEMMA OnFinishStep ==
  ASSUME IndInv, NEW e \in Entries, OnFinish(e)
  PROVE  IndInv'
<1> USE DEF IndInv, TypeOK, Goto, OnFinish, mgrVars, slotVars, closeVars, jobVars, histVars
<1>0. class[e] \in Class
  BY DEF EntryShape
<1>1. MgrType' /\ SlotType' /\ CloseType' /\ HistType'
  BY <1>0, LimitsAssumption DEF MgrType, SlotType, CloseType, HistType
<1>2. JobType'
  BY DEF JobType, PCs, QueuePCs, SlotPCs, JobStates, TerminalStates, MgrType
<1>3. \A f \in Entries : EntryShape(f)' /\ HistShape(f)'
  BY DEF JobType, HistType, EntryShape, HistShape, Terminal, TerminalStates, QueuePCs, SlotPCs
<1>4. Counted'
  <2>1. pc' = [pc EXCEPT ![e] = pc'[e]] /\ class' = class /\ admit' = admit
    BY DEF JobType
  <2>2. \A c \in Class : /\ sem'[c] = sem[c] + (IF class[e] = c THEN In(pc'[e], SlotPCs) - In(pc[e], SlotPCs) ELSE 0)
                          /\ sem'[c] <= Slots[c]
    BY <1>0, LimitsAssumption DEF Counted, In, SlotPCs, SlotType, JobType
  <2>3. \A c \in Class : /\ queued'[c] = queued[c] + (IF class[e] = c THEN In(pc'[e], QueuePCs) - In(pc[e], QueuePCs) ELSE 0)
                          /\ queued'[c] <= QueueDepth
    BY <1>0, LimitsAssumption DEF Counted, In, QueuePCs, MgrType, JobType
  <2>4. wg' = wg + In(pc'[e], BusyPCs) - In(pc[e], BusyPCs)
    BY DEF In, BusyPCs, PCs, QueuePCs, SlotPCs, MgrType, JobType
  <2> QED
    BY <1>2, <2>1, <2>2, <2>3, <2>4, CountedMove, ZenonT(60)
<1>5. Reachable'
  BY DEF Reachable, LiveIsReachable, Live, Submitted, Terminal, TerminalStates, JobType, MgrType
<1>6. CloseShape'
  BY DEF CloseShape, Live, Submitted, Terminal, TerminalStates, JobType, CloseType, Unfinished
<1> QED
  BY <1>1, <1>2, <1>3, <1>4, <1>5, <1>6

LEMMA callStep ==
  ASSUME IndInv, NEW e \in Entries, NEW err \in {"nil", "canceled", "error"}, call(e, err)
  PROVE  IndInv'
<1> USE DEF IndInv, TypeOK, Goto, call, mgrVars, slotVars, closeVars, jobVars, histVars
<1>0. class[e] \in Class
  BY DEF EntryShape
<1>1. MgrType' /\ SlotType' /\ CloseType' /\ HistType'
  BY <1>0, LimitsAssumption DEF MgrType, SlotType, CloseType, HistType
<1>2. JobType'
  BY DEF JobType, PCs, QueuePCs, SlotPCs, JobStates, TerminalStates, MgrType
<1>3. \A f \in Entries : EntryShape(f)'
  BY DEF JobType, HistType, EntryShape, Terminal, TerminalStates, QueuePCs, SlotPCs, None
<1>4. \A f \in Entries : HistShape(f)'
  BY DEF JobType, HistType, EntryShape, HistShape, Terminal, TerminalStates, QueuePCs, SlotPCs
<1>5. Counted'
  <2>1. pc' = [pc EXCEPT ![e] = pc'[e]] /\ class' = class /\ admit' = admit
    BY DEF JobType
  <2>2. \A c \in Class : /\ sem'[c] = sem[c] + (IF class[e] = c THEN In(pc'[e], SlotPCs) - In(pc[e], SlotPCs) ELSE 0)
                          /\ sem'[c] <= Slots[c]
    BY <1>0, LimitsAssumption DEF Counted, In, SlotPCs, SlotType, JobType
  <2>3. \A c \in Class : /\ queued'[c] = queued[c] + (IF class[e] = c THEN In(pc'[e], QueuePCs) - In(pc[e], QueuePCs) ELSE 0)
                          /\ queued'[c] <= QueueDepth
    BY <1>0, LimitsAssumption DEF Counted, In, QueuePCs, MgrType, JobType
  <2>4. wg' = wg + In(pc'[e], BusyPCs) - In(pc[e], BusyPCs)
    BY DEF In, BusyPCs, PCs, QueuePCs, SlotPCs, MgrType, JobType
  <2> QED
    BY <1>2, <2>1, <2>2, <2>3, <2>4, CountedMove, ZenonT(60)
<1>6. Reachable'
  BY DEF Reachable, LiveIsReachable, Live, Submitted, Terminal, TerminalStates, JobType, MgrType
<1>7. CloseShape'
  BY DEF CloseShape, Live, Submitted, Terminal, TerminalStates, JobType, CloseType, Unfinished
<1> QED
  BY <1>1, <1>2, <1>3, <1>4, <1>5, <1>6, <1>7

LEMMA SubmitStep ==
  ASSUME IndInv, NEW i \in IDs, NEW c \in Class, Submit(i, c)
  PROVE  IndInv'
<1> USE DEF IndInv, TypeOK, Goto, Submit, register, mgrVars, slotVars, closeVars, jobVars, histVars
<1>1. MgrType' /\ SlotType' /\ CloseType' /\ HistType'
  BY LimitsAssumption DEF MgrType, SlotType, CloseType, HistType
<1>2. JobType'
  BY DEF JobType, PCs, QueuePCs, SlotPCs, JobStates, TerminalStates, MgrType
<1>3. \A f \in Entries : EntryShape(f)'
  <2>0. seq + 1 \in Entries /\ seq \in Nat
    BY LimitsAssumption DEF MgrType, Entries
  <2>1. PICK n \in Entries : n = seq + 1 /\ seq' = n /\ n \in Nat
    BY <2>0
  <2>2. EntryShape(n)'
    BY <2>0, <2>1 DEF JobType, HistType, EntryShape, Terminal, TerminalStates, QueuePCs, SlotPCs
  <2>3. ASSUME NEW f \in Entries, f # n PROVE EntryShape(f)'
    <3>1. f \in Int /\ (f > n <=> f > seq)
      BY <2>0, <2>1, <2>3 DEF Entries
    <3>2. pc'[f] = pc[f] /\ state'[f] = state[f] /\ class'[f] = class[f] /\ id'[f] = id[f]
      BY <2>1, <2>3 DEF JobType
    <3> QED
      BY <2>1, <3>1, <3>2 DEF EntryShape, Terminal
  <2> QED
    BY <2>2, <2>3
<1>4. \A f \in Entries : HistShape(f)'
  BY DEF JobType, HistType, EntryShape, HistShape, Terminal, TerminalStates, QueuePCs, SlotPCs
<1>5. Counted'
  <2>0. seq + 1 \in Entries
    BY LimitsAssumption DEF MgrType, Entries
  <2>1. PICK e \in Entries : e = seq + 1 /\ pc[e] = "idle" /\ class[e] = None
    BY <2>0 DEF EntryShape
  <2>2. ASSUME NEW d \in Class
        PROVE  sem'[d] = Cardinality(Holding(d)') + Cardinality(Borrowing(d)') /\ sem'[d] <= Slots[d]
    <3>1. Holding(d)' = Holding(d) /\ Borrowing(d)' = Borrowing(d)
      BY <2>1, NoneAssumption DEF Holding, Borrowing, SlotPCs, JobType
    <3> QED
      BY <3>1 DEF Counted
  <2>3. ASSUME NEW d \in Class
        PROVE  queued'[d] = Cardinality(Waiting(d)') /\ queued'[d] <= QueueDepth
    <3>1. CASE d = c
      <4>1. Waiting(d)' = Waiting(d) \cup {e} /\ e \notin Waiting(d)
        BY <2>1, <3>1 DEF Waiting, QueuePCs, JobType
      <4>2. Cardinality(Waiting(d)') = Cardinality(Waiting(d)) + 1
        BY <4>1, FiniteSubset, FS_AddElement DEF Waiting
      <4> QED
        BY <3>1, <4>2, LimitsAssumption DEF Counted, MgrType
    <3>2. CASE d # c
      <4>1. Waiting(d)' = Waiting(d)
        BY <2>1, <3>2, NoneAssumption DEF Waiting, QueuePCs, JobType
      <4> QED
        BY <3>2, <4>1 DEF Counted, MgrType
    <3> QED
      BY <3>1, <3>2
  <2>4. wg' = Cardinality(Unfinished')
    <3>1. Unfinished' = Unfinished \cup {e} /\ e \notin Unfinished
      BY <2>1 DEF Unfinished, JobType
    <3>2. IsFiniteSet(Unfinished)
      BY FiniteSubset DEF Unfinished
    <3>3. Cardinality(Unfinished') = Cardinality(Unfinished) + 1
      BY <3>1, <3>2, FS_AddElement
    <3> QED
      BY <3>3 DEF Counted
  <2> QED
    BY <2>2, <2>3, <2>4 DEF Counted
<1>6. Reachable'
  <2>1. seq \in Nat /\ seq + 1 \in Entries /\ seq + 1 # 0
    BY LimitsAssumption DEF MgrType, Entries
  <2>2. \A k \in IDs : jobs'[k] <= seq'
    BY <2>1 DEF Reachable, MgrType
  <2>3. ASSUME NEW f \in Entries, Live(f)' PROVE id'[f] \in IDs /\ jobs'[id'[f]] = f
    <3>1. CASE f = seq + 1
      BY <2>1, <3>1 DEF JobType, MgrType
    <3>2. CASE f # seq + 1
      <4>1. Live(f) /\ id'[f] = id[f]
        BY <2>3, <3>2 DEF Live, Submitted, Terminal, JobType
      <4>2. id[f] \in IDs /\ jobs[id[f]] = f
        BY <4>1 DEF Reachable, LiveIsReachable
      <4>3. f # 0
        BY DEF Entries
      <4> QED
        BY <4>1, <4>2, <4>3 DEF MgrType
    <3> QED
      BY <3>1, <3>2
  <2> QED
    BY <2>2, <2>3 DEF Reachable, LiveIsReachable
<1>7. CloseShape'
  BY DEF CloseShape, Live, Submitted, Terminal, TerminalStates, JobType, CloseType, Unfinished
<1> QED
  BY <1>1, <1>2, <1>3, <1>4, <1>5, <1>6, <1>7

LEMMA CancelStep ==
  ASSUME IndInv, NEW e \in Entries, Cancel(e)
  PROVE  IndInv'
<1> USE DEF IndInv, TypeOK, Goto, Cancel, requestCancel, mgrVars, slotVars, closeVars, jobVars, histVars
<1>1. MgrType' /\ SlotType' /\ CloseType' /\ HistType'
  BY LimitsAssumption DEF MgrType, SlotType, CloseType, HistType
<1>2. JobType'
  BY DEF JobType, PCs, QueuePCs, SlotPCs, JobStates, TerminalStates, MgrType
<1>3. \A f \in Entries : EntryShape(f)' /\ HistShape(f)'
  BY ZenonT(60) DEF JobType, HistType, EntryShape, HistShape, Terminal, TerminalStates, QueuePCs, SlotPCs
<1>4. Counted'
  BY DEF Counted, Holding, Waiting, Borrowing, Unfinished
<1>5. Reachable'
  BY DEF Reachable, LiveIsReachable, Live, Submitted, Terminal, TerminalStates, JobType, MgrType
<1>6. CloseShape'
  BY DEF CloseShape, Live, Submitted, Terminal, TerminalStates, JobType, CloseType, Unfinished
<1> QED
  BY <1>1, <1>2, <1>3, <1>4, <1>5, <1>6

LEMMA CloseCancelStep ==
  ASSUME IndInv, NEW e \in Entries, CloseCancel(e)
  PROVE  IndInv'
<1> USE DEF IndInv, TypeOK, Goto, CloseCancel, requestCancel, mgrVars, slotVars, closeVars, jobVars, histVars
<1>1. MgrType' /\ SlotType' /\ CloseType' /\ HistType'
  BY LimitsAssumption DEF MgrType, SlotType, CloseType, HistType
<1>2. JobType'
  BY DEF JobType, PCs, QueuePCs, SlotPCs, JobStates, TerminalStates, MgrType
<1>3. \A f \in Entries : EntryShape(f)' /\ HistShape(f)'
  BY ZenonT(60) DEF JobType, HistType, EntryShape, HistShape, Terminal, TerminalStates, QueuePCs, SlotPCs
<1>4. Counted'
  BY DEF Counted, Holding, Waiting, Borrowing, Unfinished
<1>5. Reachable'
  BY DEF Reachable, LiveIsReachable, Live, Submitted, Terminal, TerminalStates, JobType, MgrType
<1>6. CloseShape'
  BY DEF CloseShape, Live, Submitted, Terminal, TerminalStates, JobType, CloseType, Unfinished
<1> QED
  BY <1>1, <1>2, <1>3, <1>4, <1>5, <1>6

LEMMA ReplaceResultStep ==
  ASSUME IndInv, NEW e \in Entries, ReplaceResult(e)
  PROVE  IndInv'
<1> USE DEF IndInv, TypeOK, Goto, ReplaceResult, mgrVars, slotVars, closeVars, jobVars, histVars
<1>1. MgrType' /\ SlotType' /\ CloseType' /\ HistType'
  BY LimitsAssumption DEF MgrType, SlotType, CloseType, HistType
<1>2. JobType'
  BY DEF JobType, PCs, QueuePCs, SlotPCs, JobStates, TerminalStates, MgrType
<1>3. \A f \in Entries : EntryShape(f)' /\ HistShape(f)'
  BY DEF JobType, HistType, EntryShape, HistShape, Terminal, TerminalStates, QueuePCs, SlotPCs
<1>4. Counted'
  BY DEF Counted, Holding, Waiting, Borrowing, Unfinished
<1>5. Reachable'
  BY DEF Reachable, LiveIsReachable, Live, Submitted, Terminal, TerminalStates, JobType, MgrType
<1>6. CloseShape'
  BY DEF CloseShape, Live, Submitted, Terminal, TerminalStates, JobType, CloseType, Unfinished
<1> QED
  BY <1>1, <1>2, <1>3, <1>4, <1>5, <1>6

LEMMA AdmitTakeStep ==
  ASSUME IndInv, NEW a \in Admitters, NEW c \in Class, AdmitTake(a, c)
  PROVE  IndInv'
<1> USE DEF IndInv, TypeOK, Goto, AdmitTake, mgrVars, slotVars, closeVars, jobVars, histVars
<1>1. MgrType' /\ SlotType' /\ CloseType' /\ HistType'
  BY LimitsAssumption DEF MgrType, SlotType, CloseType, HistType
<1>2. JobType'
  BY DEF JobType, PCs, QueuePCs, SlotPCs, JobStates, TerminalStates, MgrType
<1>3. \A f \in Entries : EntryShape(f)' /\ HistShape(f)'
  BY DEF JobType, HistType, EntryShape, HistShape, Terminal, TerminalStates, QueuePCs, SlotPCs
<1>4. Counted'
  <2>1. \A d \in Class : Holding(d)' = Holding(d) /\ Waiting(d)' = Waiting(d)
    BY DEF Holding, Waiting
  <2>2. Unfinished' = Unfinished
    BY DEF Unfinished
  <2>3. ASSUME NEW d \in Class
        PROVE  sem'[d] = Cardinality(Holding(d)') + Cardinality(Borrowing(d)') /\ sem'[d] <= Slots[d]
    <3>1. Cardinality(Holding(d)) \in Nat /\ Cardinality(Borrowing(d)) \in Nat /\ IsFiniteSet(Borrowing(d))
      BY FiniteSubset, FiniteBorrowing DEF Holding
    <3>2. CASE d = c
      <4>1. Borrowing(d)' = Borrowing(d) \cup {a} /\ a \notin Borrowing(d)
        BY <3>2, NoneAssumption DEF Borrowing, SlotType
      <4>2. Cardinality(Borrowing(d)') = Cardinality(Borrowing(d)) + 1
        BY <3>1, <4>1, FS_AddElement
      <4> QED
        <5>1. sem[d] \in Int /\ Slots[d] \in Nat /\ sem[d] <= Slots[d]
          BY LimitsAssumption DEF Counted, SlotType
        <5>2. sem'[d] = sem[d] + 1
          BY <3>2 DEF SlotType
        <5>3. sem'[d] <= Slots[d]
          BY <3>2, <5>1, <5>2
        <5> QED
          BY <2>1, <3>1, <4>2, <5>2, <5>3 DEF Counted
    <3>3. CASE d # c
      <4>1. Borrowing(d)' = Borrowing(d)
        BY <3>3, NoneAssumption DEF Borrowing, SlotType
      <4> QED
        BY <2>1, <3>3, <4>1 DEF Counted, SlotType
    <3> QED
      BY <3>2, <3>3
  <2> QED
    BY <2>1, <2>2, <2>3 DEF Counted
<1>5. Reachable'
  BY DEF Reachable, LiveIsReachable, Live, Submitted, Terminal, TerminalStates, JobType, MgrType
<1>6. CloseShape'
  BY DEF CloseShape, Live, Submitted, Terminal, TerminalStates, JobType, CloseType, Unfinished
<1> QED
  BY <1>1, <1>2, <1>3, <1>4, <1>5, <1>6

LEMMA AdmitReleaseStep ==
  ASSUME IndInv, NEW a \in Admitters, AdmitRelease(a)
  PROVE  IndInv'
<1> USE DEF IndInv, TypeOK, Goto, AdmitRelease, mgrVars, slotVars, closeVars, jobVars, histVars
<1>1. MgrType' /\ SlotType' /\ CloseType' /\ HistType'
  BY LimitsAssumption DEF MgrType, SlotType, CloseType, HistType
<1>2. JobType'
  BY DEF JobType, PCs, QueuePCs, SlotPCs, JobStates, TerminalStates, MgrType
<1>3. \A f \in Entries : EntryShape(f)' /\ HistShape(f)'
  BY DEF JobType, HistType, EntryShape, HistShape, Terminal, TerminalStates, QueuePCs, SlotPCs
<1>4. Counted'
  <2>1. \A d \in Class : Holding(d)' = Holding(d) /\ Waiting(d)' = Waiting(d)
    BY DEF Holding, Waiting
  <2>2. Unfinished' = Unfinished
    BY DEF Unfinished
  <2>3. ASSUME NEW d \in Class
        PROVE  sem'[d] = Cardinality(Holding(d)') + Cardinality(Borrowing(d)') /\ sem'[d] <= Slots[d]
    <3>1. Cardinality(Holding(d)) \in Nat /\ Cardinality(Borrowing(d)) \in Nat /\ IsFiniteSet(Borrowing(d))
      BY FiniteSubset, FiniteBorrowing DEF Holding
    <3>2. CASE d = admit[a]
      <4>1. Borrowing(d)' = Borrowing(d) \ {a} /\ a \in Borrowing(d)
        BY <3>2, NoneAssumption DEF Borrowing, SlotType
      <4>2. Cardinality(Borrowing(d)') = Cardinality(Borrowing(d)) - 1
        BY <3>1, <4>1, FS_RemoveElement
      <4> QED
        <5>1. sem[d] \in Int /\ Slots[d] \in Nat /\ sem[d] <= Slots[d]
          BY LimitsAssumption DEF Counted, SlotType
        <5>2. sem'[d] = sem[d] - 1
          BY <3>2 DEF SlotType
        <5>3. sem'[d] <= Slots[d]
          BY <3>2, <5>1, <5>2
        <5> QED
          BY <2>1, <3>1, <4>2, <5>2, <5>3 DEF Counted
    <3>3. CASE d # admit[a]
      <4>1. Borrowing(d)' = Borrowing(d)
        BY <3>3, NoneAssumption DEF Borrowing, SlotType
      <4> QED
        BY <2>1, <3>3, <4>1 DEF Counted, SlotType
    <3> QED
      BY <3>2, <3>3
  <2> QED
    BY <2>1, <2>2, <2>3 DEF Counted
<1>5. Reachable'
  BY DEF Reachable, LiveIsReachable, Live, Submitted, Terminal, TerminalStates, JobType, MgrType
<1>6. CloseShape'
  BY DEF CloseShape, Live, Submitted, Terminal, TerminalStates, JobType, CloseType, Unfinished
<1> QED
  BY <1>1, <1>2, <1>3, <1>4, <1>5, <1>6

LEMMA ReapStep ==
  ASSUME IndInv, Reap
  PROVE  IndInv'
<1> USE DEF IndInv, TypeOK, Goto, Reap, mgrVars, slotVars, closeVars, jobVars, histVars
<1>1. MgrType' /\ SlotType' /\ CloseType' /\ HistType'
  BY LimitsAssumption DEF MgrType, SlotType, CloseType, HistType
<1>2. JobType'
  BY DEF JobType, PCs, QueuePCs, SlotPCs, JobStates, TerminalStates, MgrType
<1>3. \A f \in Entries : EntryShape(f)' /\ HistShape(f)'
  BY DEF JobType, HistType, EntryShape, HistShape, Terminal, TerminalStates, QueuePCs, SlotPCs
<1>4. Counted'
  BY DEF Counted, Holding, Waiting, Borrowing, Unfinished
<1>5. Reachable'
  <2>1. \A k \in IDs : jobs'[k] <= seq'
    BY DEF Reachable, MgrType
  <2>2. ASSUME NEW f \in Entries, Live(f)' PROVE id'[f] \in IDs /\ jobs'[id'[f]] = f
    <3>1. Live(f) /\ id[f] \in IDs /\ jobs[id[f]] = f
      BY <2>2 DEF Live, Submitted, Terminal, Reachable, LiveIsReachable
    <3>2. id[f] \notin Expired
      BY <3>1 DEF Expired, Finished, Live
    <3> QED
      BY <3>1, <3>2
  <2> QED
    BY <2>1, <2>2 DEF Reachable, LiveIsReachable
<1>6. CloseShape'
  BY DEF CloseShape, Live, Submitted, Terminal, TerminalStates, JobType, CloseType, Unfinished
<1> QED
  BY <1>1, <1>2, <1>3, <1>4, <1>5, <1>6

LEMMA TickStep ==
  ASSUME IndInv, Tick
  PROVE  IndInv'
<1> USE DEF IndInv, TypeOK, Goto, Tick, mgrVars, slotVars, closeVars, jobVars, histVars
<1>1. MgrType' /\ SlotType' /\ CloseType' /\ HistType'
  BY LimitsAssumption DEF MgrType, SlotType, CloseType, HistType
<1>2. JobType'
  BY DEF JobType, PCs, QueuePCs, SlotPCs, JobStates, TerminalStates, MgrType
<1>3. \A f \in Entries : EntryShape(f)' /\ HistShape(f)'
  BY DEF JobType, HistType, EntryShape, HistShape, Terminal, TerminalStates, QueuePCs, SlotPCs
<1>4. Counted'
  BY DEF Counted, Holding, Waiting, Borrowing, Unfinished
<1>5. Reachable'
  BY DEF Reachable, LiveIsReachable, Live, Submitted, Terminal, TerminalStates, JobType, MgrType
<1>6. CloseShape'
  BY DEF CloseShape, Live, Submitted, Terminal, TerminalStates, JobType, CloseType, Unfinished
<1> QED
  BY <1>1, <1>2, <1>3, <1>4, <1>5, <1>6

LEMMA CloseBeginStep ==
  ASSUME IndInv, CloseBegin
  PROVE  IndInv'
<1> USE DEF IndInv, TypeOK, Goto, CloseBegin, mgrVars, slotVars, closeVars, jobVars, histVars
<1>1. MgrType' /\ HistType'
  BY LimitsAssumption DEF MgrType, HistType
<1>2. SlotType'
  BY DEF SlotType
<1>3. CloseType'
  BY DEF CloseType, MgrType, Entries
<1>4. JobType'
  BY DEF JobType, PCs, QueuePCs, SlotPCs, JobStates, TerminalStates, MgrType
<1>5. \A f \in Entries : EntryShape(f)' /\ HistShape(f)'
  BY DEF JobType, HistType, EntryShape, HistShape, Terminal, TerminalStates, QueuePCs, SlotPCs
<1>6. Counted'
  BY DEF Counted, Holding, Waiting, Borrowing, Unfinished
<1>7. Reachable'
  BY DEF Reachable, LiveIsReachable, Live, Submitted, Terminal, TerminalStates, JobType, MgrType
<1>8. CloseShape'
  <2>1. ASSUME NEW f \in Entries, Live(f)' PROVE f \in toCancel'
    <3>1. id[f] \in IDs /\ jobs[id[f]] = f
      BY <2>1 DEF Live, Submitted, Terminal, Reachable, LiveIsReachable
    <3>2. f # 0
      BY DEF Entries
    <3> QED
      BY <3>1, <3>2
  <2> QED
    BY <2>1 DEF CloseShape
<1> QED
  BY <1>1, <1>2, <1>3, <1>4, <1>5, <1>6, <1>7, <1>8

LEMMA CloseWaitStep ==
  ASSUME IndInv, CloseWait
  PROVE  IndInv'
<1> USE DEF IndInv, TypeOK, Goto, CloseWait, mgrVars, slotVars, closeVars, jobVars, histVars
<1>1. MgrType' /\ SlotType' /\ CloseType' /\ HistType'
  BY LimitsAssumption DEF MgrType, SlotType, CloseType, HistType
<1>2. JobType'
  BY DEF JobType, PCs, QueuePCs, SlotPCs, JobStates, TerminalStates, MgrType
<1>3. \A f \in Entries : EntryShape(f)' /\ HistShape(f)'
  BY DEF JobType, HistType, EntryShape, HistShape, Terminal, TerminalStates, QueuePCs, SlotPCs
<1>4. Counted'
  BY DEF Counted, Holding, Waiting, Borrowing, Unfinished
<1>5. Reachable'
  BY DEF Reachable, LiveIsReachable, Live, Submitted, Terminal, TerminalStates, JobType, MgrType
<1>6. CloseShape'
  <2>1. Unfinished' = Unfinished /\ \A f \in Entries : Live(f)' = Live(f)
    BY DEF Unfinished, Live, Submitted, Terminal
  <2>2. closer' = "nil" => Unfinished = {}
    <3>1. IsFiniteSet(Unfinished)
      BY FiniteSubset DEF Unfinished
    <3> QED
      BY <3>1, FS_EmptySet DEF Counted
  <2> QED
    BY <2>1, <2>2 DEF CloseShape
<1> QED
  BY <1>1, <1>2, <1>3, <1>4, <1>5, <1>6

LEMMA IndInit == Init => IndInv
<1> SUFFICES ASSUME Init PROVE IndInv
  OBVIOUS
<1>1. MgrType
  BY LimitsAssumption DEF Init, MgrType
<1>2. SlotType
  BY DEF Init, SlotType
<1>3. CloseType
  BY DEF Init, CloseType
<1>4. JobType
  BY LimitsAssumption DEF Init, JobType, PCs, JobStates
<1>5. HistType
  BY DEF Init, HistType
<1>6. \A e \in Entries : EntryShape(e) /\ HistShape(e)
  BY DEF Init, EntryShape, HistShape, Entries, QueuePCs, SlotPCs, Terminal, TerminalStates
<1>7. Counted
  <2>1. ASSUME NEW c \in Class
        PROVE  Holding(c) = {} /\ Borrowing(c) = {} /\ Waiting(c) = {}
    BY NoneAssumption DEF Init, Holding, Borrowing, Waiting, QueuePCs, SlotPCs
  <2>2. Unfinished = {}
    BY DEF Init, Unfinished
  <2>3. Cardinality({}) = 0
    BY FS_EmptySet
  <2>4. ASSUME NEW c \in Class
        PROVE  sem[c] = 0 /\ queued[c] = 0 /\ Slots[c] \in Nat /\ QueueDepth \in Nat
    BY LimitsAssumption DEF Init
  <2>5. wg = 0
    BY DEF Init
  <2> QED
    BY <2>1, <2>2, <2>3, <2>4, <2>5 DEF Counted
<1>8. Reachable
  BY DEF Init, Reachable, LiveIsReachable, Live, Submitted
<1>9. CloseShape
  BY DEF Init, CloseShape
<1> QED
  BY <1>1, <1>2, <1>3, <1>4, <1>5, <1>6, <1>7, <1>8, <1>9 DEF IndInv, TypeOK

LEMMA StutterStep == IndInv /\ UNCHANGED vars => IndInv'
<1> SUFFICES ASSUME IndInv, UNCHANGED vars PROVE IndInv'
  OBVIOUS
<1> USE DEF vars, mgrVars, slotVars, closeVars, jobVars, histVars
<1>1. TypeOK'
  BY DEF IndInv, TypeOK, MgrType, SlotType, CloseType, JobType, HistType
<1>2. \A e \in Entries : EntryShape(e)' /\ HistShape(e)'
  BY DEF IndInv, EntryShape, HistShape, Terminal
<1>3. Counted'
  BY DEF IndInv, Counted, Holding, Borrowing, Waiting, Unfinished
<1>4. Reachable' /\ CloseShape'
  BY DEF IndInv, Reachable, LiveIsReachable, CloseShape, Live, Submitted, Terminal, Unfinished
<1> QED
  BY <1>1, <1>2, <1>3, <1>4 DEF IndInv

\* The strengthened invariant is preserved by every step of the manager.
THEOREM IndNext == IndInv /\ [Next]_vars => IndInv'
<1> SUFFICES ASSUME IndInv, [Next]_vars PROVE IndInv'
  OBVIOUS
<1>1. ASSUME NEW e \in Entries, Advance(e) PROVE IndInv'
  BY <1>1, SeeCancelledStep, leaveQueueStep, isClosedStep, startStep, finishQueuedStep,
     finishStep, releaseSlotStep, notifyFinishStep, OnFinishStep DEF Advance
<1>2. ASSUME NEW e \in Entries, run(e) PROVE IndInv'
  BY <1>1, <1>2, TakeSlotStep, callStep DEF run, Return
<1>3. ASSUME NEW e \in Entries, Cancel(e) \/ ReplaceResult(e) PROVE IndInv'
  BY <1>3, CancelStep, ReplaceResultStep
<1>4. CASE Close
  BY <1>4, CloseBeginStep, CloseCancelStep, CloseWaitStep DEF Close
<1>5. CASE Next
  BY <1>2, <1>3, <1>4, <1>5, SubmitStep, AdmitTakeStep, AdmitReleaseStep, ReapStep, TickStep DEF Next
<1> QED
  BY <1>5, StutterStep

THEOREM Inductive == Spec => []IndInv
  BY IndInit, IndNext, PTL DEF Spec

-----------------------------------------------------------------------------
\* Every variable keeps its type, whatever the limits.
THEOREM TypeCorrect == Spec => []TypeOK
<1>1. IndInv => TypeOK
  BY DEF IndInv
<1> QED
  BY <1>1, Inductive, PTL

\* For any number of slots, jobs and borrowers: the semaphore of a class holds a
\* token for each of its jobs and borrowers at work, and never more than Slots.
THEOREM SlotsAreExact == Spec => []SlotsExact
<1>1. IndInv => SlotsExact
  BY DEF IndInv, Counted, SlotsExact
<1> QED
  BY <1>1, Inductive, PTL

\* The queue counters never drift from the jobs that wait, nor pass QueueDepth.
THEOREM QueueIsExact == Spec => []QueueExact
<1>1. IndInv => QueueExact
  BY DEF IndInv, Counted, QueueExact
<1> QED
  BY <1>1, Inductive, PTL

\* The semaphore tokens and the queue counters are both exact in every state.
THEOREM CountersAreExact == Spec => []CountersExact
  BY SlotsAreExact, QueueIsExact, PTL DEF CountersExact

\* The completion hook runs once, after the final state and without the slot.
THEOREM HookRunsOnce == Spec => []HookOnceAtTheEnd
<1>1. IndInv => HookOnceAtTheEnd
  BY DEF IndInv, EntryShape, HookOnceAtTheEnd, SlotPCs, TypeOK, JobType
<1> QED
  BY <1>1, Inductive, PTL

\* No job that was cancelled in the queue, or that won its slot after Close
\* began, ever runs its work function.
THEOREM StoppedJobsNeverRun == Spec => []StoppedNeverRuns
<1>1. IndInv => StoppedNeverRuns
  BY DEF IndInv, HistShape, StoppedNeverRuns, TypeOK, HistType
<1> QED
  BY <1>1, Inductive, PTL

\* "Nothing was changed" is said of exactly the cancelled jobs that never ran.
THEOREM PartialIsHonest == Spec => []HonestPartial
<1>1. IndInv => HonestPartial
  BY DEF IndInv, HistShape, HonestPartial
<1> QED
  BY <1>1, Inductive, PTL

\* A job stopped in time never runs, and what a cancelled one says of its work
\* is true, whatever the order of Cancel, Close and the slots.
THEOREM CancellationIsHonest == Spec => []CancelIsHonest
  BY StoppedJobsNeverRun, PartialIsHonest, PTL DEF CancelIsHonest

\* Retention and the reuse of ids never take a live job out of reach.
THEOREM LiveJobsStayReachable == Spec => []LiveIsReachable
<1>1. IndInv => LiveIsReachable
  BY DEF IndInv, Reachable
<1> QED
  BY <1>1, Inductive, PTL

\* A Close that returns nil leaves no goroutine and no hook behind; a Close that
\* ran out of time has asked every live job to stop.
THEOREM CloseIsComplete == Spec => []CloseLeavesNothing
<1>1. ASSUME IndInv PROVE CloseLeavesNothing
  <2>1. ASSUME closer = "nil", NEW e \in Entries, Submitted(e)
        PROVE  pc[e] = "gone" /\ hookRuns[e] = 1
    <3>1. pc[e] \in {"idle", "gone"}
      BY <1>1, <2>1 DEF IndInv, CloseShape, Unfinished
    <3> QED
      BY <1>1, <2>1, <3>1 DEF IndInv, EntryShape, Submitted
  <2>2. ASSUME closer \in {"nil", "deadline"}, NEW e \in Entries, Live(e)
        PROVE  cancelRequested[e]
    BY <1>1, <2>2 DEF IndInv, CloseShape
  <2> QED
    BY <2>1, <2>2 DEF CloseLeavesNothing
<1> QED
  BY <1>1, Inductive, PTL

-----------------------------------------------------------------------------
(* What has ended stays as it was, until Reap forgets the oldest of it. *)

\* An id leads to a job of that id, and only what has ended loses its result.
EndShape ==
    /\ \A i \in IDs : jobs[i] # 0 => id[jobs[i]] = i
    /\ \A e \in Entries : result[e] = "replaced" => Terminal(e)

LEMMA EndShapeNext == IndInv /\ EndShape /\ [Next]_vars => EndShape'
<1> SUFFICES ASSUME IndInv, EndShape, [Next]_vars PROVE EndShape'
  OBVIOUS
<1> USE DEF IndInv, TypeOK, MgrType, JobType, EndShape, Goto, vars, mgrVars, slotVars, closeVars, jobVars, histVars
<1>1. ASSUME NEW i \in IDs, NEW c \in Class, Submit(i, c) PROVE EndShape'
  <2>1. seq + 1 \in Entries /\ \A k \in IDs : jobs[k] <= seq /\ jobs[k] \in 0 .. MaxSeq
    BY <1>1, LimitsAssumption DEF Submit, register, Entries, Reachable
  <2>2. PICK e \in Entries : e = seq + 1
    BY <2>1
  <2>3. \A k \in IDs : jobs'[k] # 0 => id'[jobs'[k]] = k
    BY <1>1, <2>1, <2>2, LimitsAssumption DEF Submit, register, Entries
  <2>4. \A f \in Entries : result'[f] = "replaced" => Terminal(f)'
    BY <1>1, <2>2 DEF Submit, register, EntryShape, Terminal, TerminalStates
  <2> QED
    BY <2>3, <2>4
<1>2. ASSUME NEW e \in Entries, start(e) \/ finish(e) \/ finishQueued(e) PROVE EndShape'
  BY <1>2 DEF start, finish, finishQueued, EntryShape, Terminal, TerminalStates
<1>3. ASSUME NEW e \in Entries, ReplaceResult(e) PROVE EndShape'
  BY <1>3 DEF ReplaceResult, Terminal
<1>4. ASSUME NEW e \in Entries,
             Cancel(e) \/ TakeSlot(e) \/ SeeCancelled(e) \/ leaveQueue(e)
               \/ isClosed(e) \/ Return(e) \/ releaseSlot(e) \/ notifyFinish(e)
               \/ OnFinish(e) \/ CloseCancel(e)
      PROVE  EndShape'
  <2>1. UNCHANGED <<jobs, id, result, state>>
    BY <1>4 DEF Cancel, TakeSlot, SeeCancelled, leaveQueue, isClosed, Return, call,
       releaseSlot, notifyFinish, OnFinish, CloseCancel
  <2> QED
    BY <2>1 DEF Terminal
<1>5. CASE Reap
  BY <1>5 DEF Reap, Terminal
<1>6. ASSUME \/ \E a \in Admitters : (\E c \in Class : AdmitTake(a, c)) \/ AdmitRelease(a)
             \/ Tick \/ CloseBegin \/ CloseWait \/ UNCHANGED vars
      PROVE  EndShape'
  <2>1. UNCHANGED <<jobs, id, result, state>>
    BY <1>6 DEF AdmitTake, AdmitRelease, Tick, CloseBegin, CloseWait
  <2> QED
    BY <2>1 DEF Terminal
<1> QED
  BY <1>1, <1>2, <1>3, <1>4, <1>5, <1>6 DEF Next, run, Advance, Close

NewerThan(i) == {k \in Finished : Newer(jobs[k], jobs[i])}

LEMMA FinishedIsFinite ==
  ASSUME IndInv, EndShape
  PROVE  IsFiniteSet(Finished)
<1> DEFINE f == [i \in Finished |-> jobs[i]]
<1>1. f \in Injection(Finished, Entries)
  BY DEF IndInv, TypeOK, MgrType, EndShape, Finished, Entries, Injection, IsInjective
<1>2. IsFiniteSet(Entries)
  BY FiniteSubset
<1> QED
  BY <1>1, <1>2, FS_Injection

\* The order of retention is one: newer than newer is newer, and nothing is
\* newer than itself.
LEMMA NewerIsAnOrder ==
  ASSUME IndInv, NEW i \in Finished, NEW k \in NewerThan(i)
  PROVE  NewerThan(k) \subseteq NewerThan(i) /\ NewerThan(k) # NewerThan(i)
<1>1. \A j \in Finished : jobs[j] \in Entries /\ stamp[jobs[j]] \in Int /\ jobs[j] \in Int
  BY LimitsAssumption DEF IndInv, TypeOK, MgrType, JobType, Finished, Entries
<1>2. k \in Finished /\ Newer(jobs[k], jobs[i])
  BY DEF NewerThan
<1>3. \A j \in Finished : Newer(jobs[j], jobs[k]) => Newer(jobs[j], jobs[i])
  BY <1>1, <1>2 DEF Newer
<1>4. ~Newer(jobs[k], jobs[k])
  BY <1>1, <1>2 DEF Newer
<1> QED
  BY <1>2, <1>3, <1>4 DEF NewerThan

\* Of the jobs Reap forgets some are the newest, and what is newer than those stays.
LEMMA RetainCountStay ==
  ASSUME IndInv, EndShape, NEW i \in Expired
  PROVE  RetainCount <= Cardinality(NewerThan(i) \ Expired)
<1> DEFINE Old == {k \in Finished : Cardinality(NewerThan(k)) >= RetainCount}
           Sets == {NewerThan(k) : k \in {j \in Old : j = i \/ j \in NewerThan(i)}}
<1>1. IsFiniteSet(Finished) /\ i \in Finished /\ Expired \subseteq Old /\ i \in Old
  BY FinishedIsFinite DEF Expired, NewerThan
<1>2. Sets \subseteq FiniteSubsetsOf(Finished) /\ Sets # {}
  <2>1. \A k \in Finished : NewerThan(k) \in SUBSET Finished
    BY DEF NewerThan
  <2>2. FiniteSubsetsOf(Finished) = SUBSET Finished
    BY <1>1, FS_FiniteSubsetsOfFinite
  <2>3. NewerThan(i) \in Sets
    BY <1>1
  <2> QED
    BY <2>1, <2>2, <2>3
<1>3. IsWellFoundedOn(StrictSubsetOrdering(Finished), FiniteSubsetsOf(Finished))
  BY FS_StrictSubsetOrderingWellFounded
<1>4. PICK S \in Sets : \A T \in Sets : ~(<<T, S>> \in StrictSubsetOrdering(Finished))
  <2> HIDE DEF Sets
  <2> QED
    BY <1>2, <1>3, WFMin
<1>5. PICK j \in Old : S = NewerThan(j) /\ (j = i \/ j \in NewerThan(i))
  BY <1>4
<1>6. NewerThan(j) \subseteq NewerThan(i)
  BY <1>1, <1>5, NewerIsAnOrder
<1>7. ASSUME NEW k \in NewerThan(j), k \in Old PROVE FALSE
  <2>1. NewerThan(k) \in Sets
    BY <1>5, <1>6, <1>7
  <2>2. NewerThan(k) \subseteq S /\ NewerThan(k) # S
    BY <1>5, NewerIsAnOrder
  <2> QED
    BY <1>4, <1>5, <2>1, <2>2 DEF StrictSubsetOrdering, NewerThan
<1>8. NewerThan(j) \subseteq NewerThan(i) \ Expired
  BY <1>1, <1>6, <1>7
<1>9. IsFiniteSet(NewerThan(i) \ Expired)
  BY <1>1, FS_Subset DEF NewerThan
<1>10. Cardinality(NewerThan(j)) <= Cardinality(NewerThan(i) \ Expired)
  BY <1>8, <1>9, FS_Subset
<1>11. RetainCount <= Cardinality(NewerThan(j))
  BY <1>5
<1>12. /\ Cardinality(NewerThan(j)) \in Nat /\ Cardinality(NewerThan(i) \ Expired) \in Nat
  BY <1>8, <1>9, FS_Subset, FS_CardinalityType
<1> QED
  BY <1>10, <1>11, <1>12, LimitsAssumption

\* What FinalIsFinal says of one step.
FinalStep ==
    /\ \A e \in Entries :
          /\ Terminal(e) => state'[e] = state[e] /\ partial'[e] = partial[e]
          /\ result[e] = "replaced" => result'[e] = "replaced"
    /\ \A i \in IDs : jobs[i] # 0 /\ jobs'[i] # jobs[i] =>
          /\ Terminal(jobs[i])
          /\ RetainCount <= Cardinality({k \in IDs : /\ jobs'[k] = jobs[k]
                                                     /\ k \in Finished
                                                     /\ Newer(jobs[k], jobs[i])})

LEMMA FinalNext == IndInv /\ EndShape /\ [Next]_vars => [FinalStep]_vars
<1> SUFFICES ASSUME IndInv, EndShape, Next PROVE FinalStep
  BY DEF FinalStep
<1> USE DEF IndInv, TypeOK, MgrType, JobType, Goto, vars, mgrVars, slotVars, closeVars, jobVars, histVars
<1>1. ASSUME NEW i \in IDs, NEW c \in Class, Submit(i, c) PROVE FinalStep
  <2>0. seq + 1 \in Entries
    BY <1>1, LimitsAssumption DEF Submit, register, Entries
  <2>1. PICK e \in Entries : e = seq + 1
    BY <2>0
  <2>2. jobs[i] = 0 /\ jobs' = [jobs EXCEPT ![i] = e] /\ UNCHANGED <<partial, result>>
    BY <1>1, <2>1 DEF Submit, register
  <2>3. \A f \in Entries : Terminal(f) => state'[f] = state[f]
    BY <1>1, <2>1 DEF Submit, register, EntryShape, Terminal, TerminalStates
  <2> QED
    BY <2>2, <2>3 DEF FinalStep
<1>2. ASSUME NEW e \in Entries, Cancel(e) \/ ReplaceResult(e) \/ run(e) \/ CloseCancel(e) PROVE FinalStep
  <2>1. jobs' = jobs
    BY <1>2 DEF Cancel, ReplaceResult, run, TakeSlot, Advance, SeeCancelled, leaveQueue, isClosed,
       start, finishQueued, finish, releaseSlot, notifyFinish, OnFinish, Return, call, CloseCancel
  <2>2. ASSUME NEW f \in Entries
        PROVE  /\ Terminal(f) => state'[f] = state[f] /\ partial'[f] = partial[f]
               /\ result[f] = "replaced" => result'[f] = "replaced"
    <3>1. CASE start(e) \/ finishQueued(e) \/ finish(e)
      BY <3>1 DEF start, finishQueued, finish, EntryShape, Terminal, TerminalStates, EndShape
    <3>2. CASE ReplaceResult(e)
      BY <3>2 DEF ReplaceResult
    <3>3. CASE ~(start(e) \/ finishQueued(e) \/ finish(e) \/ ReplaceResult(e))
      BY <1>2, <3>3 DEF Cancel, run, TakeSlot, Advance, SeeCancelled, leaveQueue, isClosed,
         releaseSlot, notifyFinish, OnFinish, Return, call, CloseCancel
    <3> QED
      BY <3>1, <3>2, <3>3
  <2> QED
    BY <2>1, <2>2 DEF FinalStep
<1>3. CASE Reap
  <2>1. UNCHANGED <<state, partial, result>>
    BY <1>3 DEF Reap
  <2>2. ASSUME NEW i \in IDs, jobs[i] # 0, jobs'[i] # jobs[i]
        PROVE  /\ Terminal(jobs[i])
               /\ RetainCount <= Cardinality({k \in IDs : /\ jobs'[k] = jobs[k]
                                                          /\ k \in Finished
                                                          /\ Newer(jobs[k], jobs[i])})
    <3>1. i \in Expired
      BY <1>3, <2>2 DEF Reap
    <3>2. {k \in IDs : jobs'[k] = jobs[k] /\ k \in Finished /\ Newer(jobs[k], jobs[i])}
            = NewerThan(i) \ Expired
      BY <1>3 DEF Reap, NewerThan, Finished, Expired
    <3>3. Terminal(jobs[i])
      BY <3>1 DEF Expired, Finished
    <3> QED
      BY <3>1, <3>2, <3>3, RetainCountStay
  <2> QED
    BY <2>1, <2>2 DEF FinalStep
<1>4. ASSUME \/ \E a \in Admitters : (\E c \in Class : AdmitTake(a, c)) \/ AdmitRelease(a)
             \/ Tick \/ CloseBegin \/ CloseWait
      PROVE  FinalStep
  <2>1. UNCHANGED <<jobs, state, partial, result>>
    BY <1>4 DEF AdmitTake, AdmitRelease, Tick, CloseBegin, CloseWait
  <2> QED
    BY <2>1 DEF FinalStep
<1> QED
  BY <1>1, <1>2, <1>3, <1>4 DEF Next, Close

\* Whatever is reaped, reused, cancelled or closed: an end is never rewritten, and
\* only what has ended is forgotten, with RetainCount newer ones kept.
THEOREM EndsAreFinal == Spec => FinalIsFinal
<1>1. Init => EndShape
  BY DEF Init, EndShape, None
<1>2. Spec => []EndShape
  BY <1>1, EndShapeNext, Inductive, PTL DEF Spec
<1>3. IndInv /\ EndShape /\ [Next]_vars => [FinalStep]_vars
  BY FinalNext
<1>4. Spec => [][FinalStep]_vars
  BY <1>2, <1>3, Inductive, PTL DEF Spec
<1> QED
  BY <1>4, PTL DEF FinalIsFinal, FinalStep

-----------------------------------------------------------------------------
(* The manager implements the job lifecycle. *)

LEMMA RoomToBegin ==
  ASSUME IndInv, NEW e \in Entries, pc[e] = "start"
  PROVE  Cardinality(Running(class[e])) < Slots[class[e]]
<1> DEFINE c == class[e]
<1>1. c \in Class
  BY DEF IndInv, EntryShape
<1>2. Running(c) \in SUBSET (Holding(c) \ {e})
  BY DEF IndInv, EntryShape, TypeOK, JobType, Running, Holding, SlotPCs, QueuePCs, PCs,
         Terminal, TerminalStates
<1>3. e \in Holding(c) /\ Holding(c) \in SUBSET Entries
  BY DEF Holding, SlotPCs
<1>4. IsFiniteSet(Holding(c)) /\ Cardinality(Holding(c)) \in Nat
  BY <1>3, FiniteSubset
<1>5. /\ IsFiniteSet(Holding(c) \ {e})
      /\ Cardinality(Holding(c) \ {e}) = Cardinality(Holding(c)) - 1
  BY <1>3, <1>4, FS_RemoveElement
<1>6. Cardinality(Running(c)) <= Cardinality(Holding(c) \ {e}) /\ IsFiniteSet(Running(c))
  BY <1>2, <1>5, FS_Subset
<1>7. Cardinality(Holding(c)) <= Slots[c]
  <2>1. sem[c] = Cardinality(Holding(c)) + Cardinality(Borrowing(c)) /\ sem[c] <= Slots[c]
    BY <1>1 DEF IndInv, Counted
  <2>2. Cardinality(Borrowing(c)) \in Nat /\ Slots[c] \in Nat
    BY <1>1, FiniteBorrowing, LimitsAssumption
  <2> QED
    BY <1>4, <2>1, <2>2
<1> QED
  BY <1>1, <1>4, <1>5, <1>6, <1>7, LimitsAssumption, FS_CardinalityType

\* The abstract module counts with the FiniteSets operators it instantiates.
LEMMA SameCount == ASSUME NEW S PROVE Lifecycle!Cardinality(S) = Cardinality(S)
  BY DEF Cardinality, Lifecycle!Cardinality

LEMMA QuietStep ==
  ASSUME UNCHANGED <<state, class, hookRuns>>
  PROVE  UNCHANGED Lifecycle!lcVars
  BY DEF Lifecycle!lcVars

LEMMA LifecycleInit == Init => Lifecycle!LCInit
  BY DEF Init, Lifecycle!LCInit

LEMMA LifecycleStep == IndInv /\ [Next]_vars => [Lifecycle!LCNext]_(Lifecycle!lcVars)
<1> SUFFICES ASSUME IndInv, [Next]_vars PROVE [Lifecycle!LCNext]_(Lifecycle!lcVars)
  OBVIOUS
<1> USE DEF IndInv, TypeOK, JobType, HistType, Goto, vars, mgrVars, slotVars, closeVars, jobVars, histVars
<1>1. ASSUME NEW i \in IDs, NEW c \in Class, Submit(i, c) PROVE Lifecycle!LCNext
  <2>0. seq + 1 \in Entries
    BY <1>1, LimitsAssumption DEF Submit, register, MgrType, Entries
  <2>1. PICK e \in Entries : e = seq + 1
    BY <2>0
  <2>2. Lifecycle!Accept(e, c)
    BY <1>1, <2>1 DEF Submit, register, EntryShape, Lifecycle!Accept
  <2> QED
    BY <2>2 DEF Lifecycle!LCNext
<1>2. ASSUME NEW e \in Entries, start(e) PROVE [Lifecycle!LCNext]_(Lifecycle!lcVars)
  <2>1. CASE cancelRequested[e]
    BY <1>2, <2>1, QuietStep DEF start
  <2>2. CASE ~cancelRequested[e]
    <3>1. Lifecycle!Cardinality(Lifecycle!AtWork(class[e])) < Slots[class[e]]
      BY <1>2, RoomToBegin, SameCount DEF start, Running, Lifecycle!AtWork
    <3>2. state' = [state EXCEPT ![e] = "running"]
      BY <1>2, <2>2 DEF start
    <3>3. state[e] = "queued"
      BY <1>2 DEF start, EntryShape
    <3>4. UNCHANGED <<class, hookRuns>>
      BY <1>2 DEF start
    <3>5. Lifecycle!Begin(e)
      BY <3>1, <3>2, <3>3, <3>4 DEF Lifecycle!Begin
    <3> QED
      BY <3>5 DEF Lifecycle!LCNext
  <2> QED
    BY <2>1, <2>2
<1>3. ASSUME NEW e \in Entries, finishQueued(e) PROVE Lifecycle!LCNext
  <2>1. Lifecycle!Withdraw(e)
    BY <1>3 DEF finishQueued, EntryShape, Terminal, TerminalStates, Lifecycle!Withdraw
  <2> QED
    BY <2>1 DEF Lifecycle!LCNext
<1>4. ASSUME NEW e \in Entries, finish(e) PROVE Lifecycle!LCNext
  <2>1. \E s \in Lifecycle!Ends : Lifecycle!End(e, s)
    BY <1>4 DEF finish, EntryShape, Lifecycle!Ends, Lifecycle!End
  <2> QED
    BY <2>1 DEF Lifecycle!LCNext
<1>5. ASSUME NEW e \in Entries, OnFinish(e) PROVE Lifecycle!LCNext
  <2>1. /\ state[e] \in Lifecycle!Ends
        /\ hookRuns[e] = 0
        /\ {f \in Entries : hookRuns'[f] > 0} = {f \in Entries : hookRuns[f] > 0} \cup {e}
    BY <1>5 DEF OnFinish, EntryShape, Terminal, TerminalStates, Lifecycle!Ends
  <2>2. Lifecycle!Tell(e)
    BY <1>5, <2>1 DEF OnFinish, Lifecycle!Tell
  <2> QED
    BY <2>2 DEF Lifecycle!LCNext
<1>6. ASSUME NEW e \in Entries,
             Cancel(e) \/ ReplaceResult(e) \/ TakeSlot(e) \/ SeeCancelled(e) \/ leaveQueue(e)
               \/ isClosed(e) \/ Return(e) \/ releaseSlot(e) \/ notifyFinish(e) \/ CloseCancel(e)
      PROVE  UNCHANGED Lifecycle!lcVars
  BY <1>6, QuietStep DEF Cancel, ReplaceResult, TakeSlot, SeeCancelled, leaveQueue, isClosed,
     Return, call, releaseSlot, notifyFinish, CloseCancel
<1>7. ASSUME \/ \E a \in Admitters : (\E c \in Class : AdmitTake(a, c)) \/ AdmitRelease(a)
             \/ Reap \/ Tick \/ CloseBegin \/ CloseWait \/ UNCHANGED vars
      PROVE  UNCHANGED Lifecycle!lcVars
  BY <1>7, QuietStep DEF AdmitTake, AdmitRelease, Reap, Tick, CloseBegin, CloseWait
<1> QED
  BY <1>1, <1>2, <1>3, <1>4, <1>5, <1>6, <1>7 DEF Next, run, Advance, Close

\* Whatever its goroutines, locks and races do, the manager never shows a caller
\* anything but the plain life of a job (module JobLifecycle).
THEOREM ManagerImplementsLifecycle == Spec => ImplementsLifecycle
  BY Inductive, LifecycleInit, LifecycleStep, PTL DEF Spec, ImplementsLifecycle, Lifecycle!LCSpec
=============================================================================
