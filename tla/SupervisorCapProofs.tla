------------------------ MODULE SupervisorCapProofs ------------------------
(***************************************************************************)
(* The cap on running children, for any number of callers.  A launch       *)
(* checks the cap long before its child is in the table, so the bound is   *)
(* not inductive: CapInv counts the launches under way as well.            *)
(***************************************************************************)
EXTENDS SupervisorOrderProofs, FiniteSetTheorems

RunningSet == {p \in Pids : children[p] = "running"}
Launching == {c \in Callers : pc[c] \in {"fork", "insert"}}

CapInv == Cardinality(RunningSet) + Cardinality(Launching)
          <= MaxRunning + Cardinality(Callers) - 1

\* The sets counted are finite, and monotone in size.
LEMMA Sizes ==
  /\ Cardinality(RunningSet) \in Nat /\ IsFiniteSet(RunningSet)
  /\ Cardinality(Launching) \in Nat /\ IsFiniteSet(Launching)
  /\ Cardinality(Launching) <= Cardinality(Callers)
  /\ Cardinality(Callers) \in Nat
<1>1. RunningSet \subseteq Pids /\ Launching \subseteq Callers
  BY DEF RunningSet, Launching
<1> QED
  BY <1>1, FinitenessAssumption, FS_Subset, FS_CardinalityType

\* Only the check of the cap adds a launch.
LEMMA LaunchChanges ==
  ASSUME TypeOK, [Next]_vars
  PROVE  \/ Launching' \subseteq Launching
         \/ \E c \in Callers : SpawnCheck(c)
<1> USE DEF Launching, TypeOK, CallerTypes, caller
<1>1. ASSUME NEW p \in Pids, Kernel(p)
      PROVE  UNCHANGED pc
  BY <1>1 DEF Kernel, ChildExits, ClaimStales, SettleOverdue, HelperForks,
              HelperExits
<1>2. ASSUME NEW p \in Pids, Reader(p) \/ ReaperRefresh(p)
      PROVE  UNCHANGED pc
  BY <1>2 DEF Reader, ReaderEnds, ReaperRefresh
<1>3. ASSUME NEW p \in Pids, Reaper(p)
      PROVE  UNCHANGED pc
  BY <1>3 DEF Reaper, ReaderFinalizes, ClaimReap, ReaperCensus, NoteReapPoll,
              TryReapEnter, TryReapReaped, TryReapPending, TryReapFailed,
              ReaperOwed, ReaperOrder, ReaperSettle, ReaperRecord,
              ReaperConfirm, ReaperPublish, ReaperUnguard
<1>4. ASSUME NEW c \in Callers, NEW p \in Pids, SpawnFork(c, p)
      PROVE  Launching' \subseteq Launching
  BY <1>4 DEF SpawnFork, GoTo
<1>5. ASSUME NEW c \in Callers, SpawnFails(c) \/ SpawnInsert(c)
      PROVE  Launching' \subseteq Launching
  BY <1>5 DEF SpawnFails, SpawnInsert, Return, GoTo
<1>6. ASSUME NEW c \in Callers, NEW p \in Pids,
             ObserveClaim(c, p) \/ StopRegister(c, p)
      PROVE  Launching' \subseteq Launching
  BY <1>6 DEF ObserveClaim, StopRegister, GoTo
<1>7. ASSUME NEW c \in Callers,
             \/ ObserveAnswers(c) \/ ObserveReaps(c) \/ ObserveTerminal(c)
             \/ ObserveFails(c) \/ CallerOrders(c) \/ CallerConfirms(c)
             \/ ObservePublishes(c) \/ StopPublishes(c)
      PROVE  Launching' \subseteq Launching
  BY <1>7 DEF ObserveAnswers, ObserveReaps, ObserveTerminal, ObserveFails,
              CallerOrders, CallerConfirms, ObservePublishes, StopPublishes,
              AfterLook, Return, GoTo
<1>8. ASSUME NEW c \in Callers,
             \/ StopAwaits(c) \/ StopAnswers(c) \/ StopChecks(c)
             \/ StopCensus(c) \/ StopTerm(c) \/ StopKill(c)
             \/ StopSignalUncertain(c) \/ StopReaps(c) \/ StopFindsReaped(c)
             \/ StopGivesUp(c) \/ StopSettles(c) \/ StopRecords(c)
             \/ StopReturns(c)
      PROVE  Launching' \subseteq Launching
  BY <1>8 DEF StopAwaits, StopAnswers, StopChecks, StopCensus, StopTerm,
              StopKill, StopSignalUncertain, StopReaps, StopFindsReaped,
              StopGivesUp, StopSettles, StopRecords, StopReturns, Return, GoTo
<1> QED
  BY <1>1, <1>2, <1>3, <1>4, <1>5, <1>6, <1>7, <1>8
  DEF Next, vars, Call, Proceed

\* Only an insertion adds a running entry.
LEMMA RunningChanges ==
  ASSUME TypeOK, [Next]_vars
  PROVE  \/ RunningSet' \subseteq RunningSet
         \/ \E c \in Callers : SpawnInsert(c)
<1> USE DEF RunningSet, TypeOK, TableTypes
<1>1. ASSUME NEW p, RecordTerminalOrder(p)
      PROVE  RunningSet' \subseteq RunningSet
  BY <1>1 DEF RecordTerminalOrder, Evict
<1>2. ASSUME NEW p \in Pids, ReaperOrder(p)
      PROVE  RunningSet' \subseteq RunningSet
  BY <1>1, <1>2 DEF ReaperOrder
<1>3. ASSUME NEW c \in Callers, CallerOrders(c)
      PROVE  RunningSet' \subseteq RunningSet
  BY <1>1, <1>3 DEF CallerOrders
<1>4. ASSUME NEW p \in Pids, TryReapReaped(p)
      PROVE  RunningSet' \subseteq RunningSet
  BY <1>4 DEF TryReapReaped
<1>5. ASSUME NEW p \in Pids, ReaperRecord(p)
      PROVE  RunningSet' \subseteq RunningSet
  <2>1. rverdict[p] # "running"
    BY <1>5 DEF ReaperRecord, ReaperTypes, Terminal
  <2>2. UNCHANGED children \/ WriteSettled(p, rverdict[p])
    BY <1>5 DEF ReaperRecord
  <2> QED
    BY <2>1, <2>2 DEF WriteSettled
<1>6. ASSUME NEW c \in Callers, ObserveReaps(c) \/ StopReaps(c)
      PROVE  RunningSet' \subseteq RunningSet
  <2>1. PICK state \in {"exited", "killed"} :
          children' = [children EXCEPT ![on[c]] = state]
    BY <1>6 DEF ObserveReaps, StopReaps
  <2> QED
    BY <2>1
<1>7. ASSUME NEW c \in Callers, StopRecords(c)
      PROVE  RunningSet' \subseteq RunningSet
  <2>1. res[c] # "running"
    BY <1>7 DEF StopRecords, CallerTypes, HoldsState, Terminal
  <2> QED
    BY <1>7, <2>1 DEF StopRecords, WriteSettled
<1> QED
  BY <1>2, <1>3, <1>4, <1>5, <1>6, <1>7, TableChanges

\* Every step keeps the count.
LEMMA CapStep ==
  ASSUME TypeOK, TypeOK', CapInv, [Next]_vars
  PROVE  CapInv'
<1>1. /\ Cardinality(RunningSet) \in Nat /\ IsFiniteSet(RunningSet)
      /\ Cardinality(Launching) \in Nat /\ IsFiniteSet(Launching)
      /\ Cardinality(Callers) \in Nat
  BY Sizes
<1>2. /\ Cardinality(RunningSet') \in Nat /\ IsFiniteSet(RunningSet')
      /\ Cardinality(Launching') \in Nat /\ IsFiniteSet(Launching')
      /\ Cardinality(Launching') <= Cardinality(Callers)
  <2>1. RunningSet' \subseteq Pids /\ Launching' \subseteq Callers
    BY DEF RunningSet, Launching
  <2> QED
    BY <2>1, FinitenessAssumption, FS_Subset, FS_CardinalityType
<1>3. MaxRunning \in Nat
  BY NumbersAssumption
<1>4. ASSUME NEW c \in Callers, SpawnCheck(c)
      PROVE  CapInv'
  <2>1. RunningSet' = RunningSet
    BY <1>4 DEF SpawnCheck, tables, RunningSet
  <2>2. Cardinality(RunningSet) < MaxRunning
    BY <1>4 DEF SpawnCheck, HasCapacity, RunningCount, RunningSet
  <2> QED
    BY <1>1, <1>2, <1>3, <2>1, <2>2 DEF CapInv
<1>5. ASSUME NEW c \in Callers, SpawnInsert(c)
      PROVE  CapInv'
  <2>1. PICK p : p = on[c]
    OBVIOUS
  <2>2. RunningSet' \subseteq RunningSet \cup {p}
    BY <1>5, <2>1 DEF SpawnInsert, RunningSet, TypeOK, TableTypes
  <2>3. Cardinality(RunningSet') <= Cardinality(RunningSet) + 1
    <3>a. /\ IsFiniteSet(RunningSet \cup {p})
          /\ Cardinality(RunningSet \cup {p}) =
               IF p \in RunningSet THEN Cardinality(RunningSet)
               ELSE Cardinality(RunningSet) + 1
      BY <1>1, FS_AddElement
    <3>1. /\ IsFiniteSet(RunningSet \cup {p})
          /\ Cardinality(RunningSet \cup {p}) <= Cardinality(RunningSet) + 1
          /\ Cardinality(RunningSet \cup {p}) \in Nat
      BY <1>1, <3>a
    <3>2. Cardinality(RunningSet') <= Cardinality(RunningSet \cup {p})
      BY <2>2, <3>1, FS_Subset
    <3> QED
      BY <1>1, <1>2, <3>1, <3>2
  <2>4. c \in Launching /\ Launching' = Launching \ {c}
    BY <1>5 DEF SpawnInsert, Return, GoTo, Launching, TypeOK, CallerTypes
  <2>5. Cardinality(Launching') = Cardinality(Launching) - 1
    BY <1>1, <2>4, FS_RemoveElement
  <2> QED
    BY <1>1, <1>2, <1>3, <2>3, <2>5 DEF CapInv
<1>6. CASE Launching' \subseteq Launching /\ RunningSet' \subseteq RunningSet
  <2>1. /\ Cardinality(Launching') <= Cardinality(Launching)
        /\ Cardinality(RunningSet') <= Cardinality(RunningSet)
    BY <1>1, <1>6, FS_Subset
  <2> QED
    BY <1>1, <1>2, <1>3, <2>1 DEF CapInv
<1> QED
  BY <1>4, <1>5, <1>6, LaunchChanges, RunningChanges

\* With any number of callers, finitely many, launching at the same time,
\* the cap is exceeded by at most one child per caller beyond the first
\* (RunningBound), process ids recycled or not.
THEOREM CapCorrect == Spec => []RunningBound
<1>1. Init => CapInv
  <2> SUFFICES ASSUME Init PROVE CapInv
    OBVIOUS
  <2>1. RunningSet = {} /\ Launching = {}
    BY DEF Init, RunningSet, Launching
  <2>2. Cardinality(RunningSet) = 0 /\ Cardinality(Launching) = 0
    BY <2>1, FS_EmptySet
  <2> QED
    BY <2>2, NumbersAssumption, Sizes DEF CapInv
<1>2. TypeOK /\ TypeOK' /\ CapInv /\ [Next]_vars => CapInv'
  BY CapStep
<1>3. CapInv => RunningBound
  BY Sizes, NumbersAssumption DEF CapInv, RunningBound, RunningCount, RunningSet
<1> QED
  BY <1>1, <1>2, <1>3, TypeCorrect, PTL DEF Spec
=============================================================================
