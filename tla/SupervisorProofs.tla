-------------------------- MODULE SupervisorProofs --------------------------
(***************************************************************************)
(* Theorems about the supervisor, for any number of children, callers,     *)
(* readers and helpers and any bounds.                                     *)
(***************************************************************************)
EXTENDS Supervisor, SequenceTheorems, TLAPS

-----------------------------------------------------------------------------
(* Types.                                                                  *)

\* A walk of /proc yields a census.
LEMMA WalkIsCensus ==
  ASSUME TypeOK, NEW p \in Pids, NEW w \in Walk(p)
  PROVE  w \in Census
<1>1. live[p] \in SUBSET Helpers
  BY DEF TypeOK, OsTypes
<1>2. Unavailable \in Census
  BY DEF Census, Unavailable
<1>3. \A s \in SUBSET Helpers : [known |-> TRUE, seen |-> s] \in Census
  BY DEF Census
<1>4. (IF os[p] = "alive" THEN live[p] ELSE {}) \in SUBSET Helpers
  BY <1>1
<1>5. w = Unavailable
        \/ w = [known |-> TRUE,
                seen |-> IF os[p] = "alive" THEN live[p] ELSE {}]
  BY DEF Walk
<1> QED
  BY <1>2, <1>3, <1>4, <1>5

\* Settling only ends helpers, and yields the reaped state or "orphan".
LEMMA SettleOutcome ==
  ASSUME TypeOK, NEW p \in Pids, NEW c \in Census, NEW reaped, NEW settled,
         Settle(p, c, reaped, settled)
  PROVE  /\ live' \in [Pids -> SUBSET Helpers]
         /\ settled \in {reaped, "orphan"}
<1>1. live \in [Pids -> SUBSET Helpers]
  BY DEF TypeOK, OsTypes
<1>2. PICK swept \in SUBSET (c.seen \cap live[p]) :
        live' = [live EXCEPT ![p] = @ \ swept]
  BY DEF Settle
<1>3. live[p] \ swept \in SUBSET Helpers
  BY <1>1
<1>4. live' \in [Pids -> SUBSET Helpers]
  BY <1>1, <1>2, <1>3
<1>5. settled \in {reaped, "orphan"}
  BY DEF Settle
<1> QED
  BY <1>4, <1>5

\* record_terminal_order keeps the types of what it writes.
LEMMA RecordOrderTypes ==
  ASSUME TypeOK, NEW p \in Pids, RecordTerminalOrder(p)
  PROVE  /\ os' \in [Pids -> {"none", "alive", "zombie", "gone"}]
         /\ children' \in [Pids -> {"absent", "running"} \cup Terminal]
         /\ order' \in Seq(Pids)
<1> DEFINE pushed == Append(order, p)
<1>1. order \in Seq(Pids)
  BY DEF TypeOK, TableTypes
<1>a. pushed \in Seq(Pids) /\ Len(pushed) = Len(order) + 1
  BY <1>1
<1>b. pushed # <<>>
  BY <1>1, AppendProperties
<1>2. Head(pushed) \in Pids /\ Tail(pushed) \in Seq(Pids)
  BY <1>a, <1>b, HeadTailProperties
<1>3. CASE Len(pushed) > MaxRetained
  <2>1. order' = Tail(pushed) /\ Evict(Head(pushed))
    BY <1>3 DEF RecordTerminalOrder
  <2> QED
    BY <1>2, <2>1 DEF Evict, TypeOK, OsTypes, TableTypes
<1>4. CASE ~(Len(pushed) > MaxRetained)
  BY <1>a, <1>4 DEF RecordTerminalOrder, TypeOK, OsTypes, TableTypes
<1> QED
  BY <1>3, <1>4

\* Every step keeps the type invariant.
LEMMA TypeStep ==
  ASSUME TypeOK, [Next]_vars
  PROVE  TypeOK'
<1> USE DEF TypeOK, OsTypes, TableTypes, OutputTypes, ReaperTypes,
            CallerTypes, osVars, tables, output, reaper, caller
<1>1. ASSUME NEW p \in Pids, ChildExits(p)
      PROVE  TypeOK'
  BY <1>1 DEF ChildExits
<1>2. ASSUME NEW p \in Pids, ClaimStales(p)
      PROVE  TypeOK'
  BY <1>2 DEF ClaimStales, Terminal
<1>3. ASSUME NEW p \in Pids, SettleOverdue(p)
      PROVE  TypeOK'
  BY <1>3 DEF SettleOverdue, Terminal
<1>4. ASSUME NEW p \in Pids, NEW h \in Helpers, HelperForks(p, h)
      PROVE  TypeOK'
  BY <1>4 DEF HelperForks
<1>5. ASSUME NEW p \in Pids, NEW h \in Helpers, HelperExits(p, h)
      PROVE  TypeOK'
  BY <1>5 DEF HelperExits
<1>6. ASSUME NEW p \in Pids, ReaderEnds(p)
      PROVE  TypeOK'
  <2>1. readers[p] - 1 \in 0 .. Readers
    BY <1>6, NumbersAssumption DEF ReaderEnds
  <2> QED
    BY <1>6, <2>1 DEF ReaderEnds, ReaperGoTo, ReaperLabels
<1>7. ASSUME NEW p \in Pids, ReaderFinalizes(p)
      PROVE  TypeOK'
  BY <1>7 DEF ReaderFinalizes, ReaperGoTo, TryFinalize, ReaperLabels,
               Terminal
<1>8. ASSUME NEW p \in Pids, ClaimReap(p)
      PROVE  TypeOK'
  <2>1. UNCHANGED <<osVars, tables, readers, confirmed, frame, caller>>
    BY <1>8 DEF ClaimReap
  <2>2. CASE MayClaim(p)
    <3>1. /\ claim' = [claim EXCEPT ![p] = "fresh"]
          /\ ReaperGoTo(p, "census")
          /\ UNCHANGED <<rcensus, rverdict>>
      BY <1>8, <2>2 DEF ClaimReap
    <3> QED
      BY <1>8, <2>2, <2>1, <3>1 DEF ReaperGoTo, ReaperLabels, Terminal
  <2>3. CASE ~MayClaim(p)
    <3>1. /\ ReaperReturns(p)
          /\ UNCHANGED claim
      BY <1>8, <2>3 DEF ClaimReap
    <3> QED
      BY <1>8, <2>3, <2>1, <3>1 DEF ReaperReturns, ReaperGoTo, ReaperLabels, Census,
                                Unavailable, Terminal
  <2> QED
    BY <1>8, <2>2, <2>3 DEF ClaimReap
<1>9. ASSUME NEW p \in Pids, ReaperCensus(p)
      PROVE  TypeOK'
  <2>1. PICK w \in Walk(p) : rcensus' = [rcensus EXCEPT ![p] = w]
    BY <1>9 DEF ReaperCensus
  <2>2. rcensus' \in [Pids -> Census]
    BY <2>1, WalkIsCensus
  <2> QED
    BY <1>9, <2>2 DEF ReaperCensus, ReaperGoTo, ReaperLabels
<1>10. ASSUME NEW p \in Pids, ReaperRefresh(p)
      PROVE  TypeOK'
  <2>1. PICK w \in Walk(p) : rcensus' = [rcensus EXCEPT ![p] = w]
    BY <1>10 DEF ReaperRefresh
  <2>2. rcensus' \in [Pids -> Census]
    BY <2>1, WalkIsCensus
  <2> QED
    BY <1>10, <2>2 DEF ReaperRefresh
<1>11. ASSUME NEW p \in Pids, NoteReapPoll(p)
      PROVE  TypeOK'
  BY <1>11 DEF NoteReapPoll, ReaperGoTo, ReaperLabels, Terminal
<1>12. ASSUME NEW p \in Pids, TryReapEnter(p)
      PROVE  TypeOK'
  <2>1. UNCHANGED <<osVars, children, order, stopping, settling, output,
                    caller>>
    BY <1>12 DEF TryReapEnter
  <2>2. CASE children[p] # "running"
    <3>1. /\ ReaperReturns(p)
          /\ UNCHANGED holder
      BY <1>12, <2>2 DEF TryReapEnter
    <3> QED
      BY <1>12, <2>2, <2>1, <3>1 DEF ReaperReturns, ReaperGoTo, ReaperLabels, Census,
                                Unavailable, Terminal
  <2>3. CASE children[p] = "running" /\ StopOwns(p)
    <3>1. /\ ReaperGoTo(p, "owed")
          /\ UNCHANGED <<holder, rcensus, rverdict>>
      BY <1>12, <2>3 DEF TryReapEnter
    <3> QED
      BY <1>12, <2>3, <2>1, <3>1 DEF ReaperGoTo, ReaperLabels, Terminal
  <2>4. CASE children[p] = "running" /\ ~StopOwns(p)
    <3>1. /\ ReaperGoTo(p, "wait") /\ holder' = p
          /\ UNCHANGED <<rcensus, rverdict>>
      BY <1>12, <2>4 DEF TryReapEnter
    <3> QED
      BY <1>12, <2>4, <2>1, <3>1 DEF ReaperGoTo, ReaperLabels, Terminal
  <2> QED
    BY <1>12, <2>2, <2>3, <2>4 DEF TryReapEnter
<1>13. ASSUME NEW p \in Pids, TryReapReaped(p)
      PROVE  TypeOK'
  BY <1>13 DEF TryReapReaped, ReaperGoTo, AfterReap, ReaperLabels, Terminal
<1>14. ASSUME NEW p \in Pids, TryReapPending(p)
      PROVE  TypeOK'
  BY <1>14 DEF TryReapPending, ReaperGoTo, ReaperLabels, Terminal
<1>15. ASSUME NEW p \in Pids, TryReapFailed(p)
      PROVE  TypeOK'
  BY <1>15 DEF TryReapFailed, ReaperReturns, ReaperGoTo, ReaperLabels,
               Census, Unavailable, Terminal
<1>16. ASSUME NEW p \in Pids, ReaperOwed(p)
      PROVE  TypeOK'
  <2>1. UNCHANGED <<osVars, tables, readers, confirmed, frame, caller>>
    BY <1>16 DEF ReaperOwed
  <2>2. CASE FrameOwed(p)
    <3>1. /\ claim' = [claim EXCEPT ![p] = "fresh"]
          /\ ReaperGoTo(p, "poll")
          /\ UNCHANGED <<rcensus, rverdict>>
      BY <1>16, <2>2 DEF ReaperOwed
    <3> QED
      BY <1>16, <2>2, <2>1, <3>1 DEF ReaperGoTo, ReaperLabels, Terminal
  <2>3. CASE ~FrameOwed(p)
    <3>1. /\ ReaperReturns(p)
          /\ UNCHANGED claim
      BY <1>16, <2>3 DEF ReaperOwed
    <3> QED
      BY <1>16, <2>3, <2>1, <3>1 DEF ReaperReturns, ReaperGoTo, ReaperLabels, Census,
                                Unavailable, Terminal
  <2> QED
    BY <1>16, <2>2, <2>3 DEF ReaperOwed
<1>17. ASSUME NEW p \in Pids, ReaperOrder(p)
      PROVE  TypeOK'
  <2>1. RecordTerminalOrder(p)
    BY <1>17 DEF ReaperOrder
  <2> QED
    BY <1>17, <2>1, RecordOrderTypes DEF ReaperOrder, ReaperGoTo, ReaperLabels
<1>18. ASSUME NEW p \in Pids, ReaperSettle(p)
      PROVE  TypeOK'
  <2>1. PICK v \in Terminal :
          /\ Settle(p, rcensus[p], "exited", v)
          /\ rverdict' = [rverdict EXCEPT ![p] = v]
    BY <1>18 DEF ReaperSettle
  <2>2. live' \in [Pids -> SUBSET Helpers]
    BY <2>1, SettleOutcome
  <2> QED
    BY <1>18, <2>1, <2>2 DEF ReaperSettle, ReaperGoTo, ReaperLabels
<1>19. ASSUME NEW p \in Pids, ReaperRecord(p)
      PROVE  TypeOK'
  <2>1. UNCHANGED <<osVars, order, stopping, settling, holder, output, rcensus,
                    rverdict, caller>>
    BY <1>19 DEF ReaperRecord
  <2>2. CASE SettleOwed(p)
    <3>1. /\ rverdict[p] \in Terminal
          /\ WriteSettled(p, rverdict[p])
          /\ ReaperGoTo(p, "confirm")
      BY <1>19, <2>2 DEF ReaperRecord
    <3> QED
      BY <1>19, <2>2, <2>1, <3>1 DEF ReaperGoTo, ReaperLabels, Terminal, WriteSettled
  <2>3. CASE ~SettleOwed(p)
    <3>1. /\ ReaperGoTo(p, "unguard")
          /\ UNCHANGED children
      BY <1>19, <2>3 DEF ReaperRecord
    <3> QED
      BY <1>19, <2>3, <2>1, <3>1 DEF ReaperGoTo, ReaperLabels, Terminal
  <2> QED
    BY <1>19, <2>2, <2>3 DEF ReaperRecord
<1>20. ASSUME NEW p \in Pids, ReaperConfirm(p)
      PROVE  TypeOK'
  BY <1>20 DEF ReaperConfirm, ReaperGoTo, Confirm, ReaperLabels, Terminal
<1>21. ASSUME NEW p \in Pids, ReaperPublish(p)
      PROVE  TypeOK'
  BY <1>21 DEF ReaperPublish, ReaperGoTo, TryFinalize, ReaperLabels,
               Terminal
<1>22. ASSUME NEW p \in Pids, ReaperUnguard(p)
      PROVE  TypeOK'
  BY <1>22 DEF ReaperUnguard, ReaperReturns, DropGuard, ReaperGoTo,
               ReaperLabels, Census, Unavailable, Terminal
<1>23. ASSUME NEW c \in Callers, NEW p \in Pids, SpawnFork(c, p)
      PROVE  TypeOK'
  <2>1. Readers \in 0 .. Readers
    BY NumbersAssumption
  <2> QED
    BY <1>23, <2>1 DEF SpawnFork, GoTo, CallerLabels, HoldsState, ReaperGoTo, ReaperLabels,
                    ReaderCount
<1>24. ASSUME NEW c \in Callers, NEW p \in Pids, ObserveClaim(c, p)
      PROVE  TypeOK'
  BY <1>24, ZenonT(60) DEF ObserveClaim, GoTo, CallerLabels, HoldsState, Terminal
<1>25. ASSUME NEW c \in Callers, NEW p \in Pids, StopRegister(c, p)
      PROVE  TypeOK'
  BY <1>25, ZenonT(60) DEF StopRegister, GoTo, CallerLabels, HoldsState, Terminal
<1>26. ASSUME NEW c \in Callers, SpawnCheck(c)
      PROVE  TypeOK'
  BY <1>26, ZenonT(60) DEF SpawnCheck, GoTo, CallerLabels, HoldsState, Terminal
<1>27. ASSUME NEW c \in Callers, SpawnFails(c)
      PROVE  TypeOK'
  BY <1>27 DEF SpawnFails, Return, GoTo, CallerLabels, HoldsState, Census,
               Unavailable
<1>28. ASSUME NEW c \in Callers, SpawnInsert(c)
      PROVE  TypeOK'
  BY <1>28, ZenonT(60) DEF SpawnInsert, Return, GoTo, CallerLabels, HoldsState, Census,
               Unavailable, Terminal
<1>29. ASSUME NEW c \in Callers, ObserveAnswers(c)
      PROVE  TypeOK'
  BY <1>29, ZenonT(60) DEF ObserveAnswers, Return, GoTo, CallerLabels, HoldsState,
               Census, Unavailable, Terminal
<1>30. ASSUME NEW c \in Callers, ObserveReaps(c)
      PROVE  TypeOK'
  BY <1>30, ZenonT(60) DEF ObserveReaps, GoTo, AfterLook, CallerLabels, HoldsState,
               Terminal
<1>31. ASSUME NEW c \in Callers, ObserveTerminal(c)
      PROVE  TypeOK'
  BY <1>31, ZenonT(60) DEF ObserveTerminal, GoTo, AfterLook, CallerLabels, HoldsState,
               Terminal
<1>32. ASSUME NEW c \in Callers, ObserveFails(c)
      PROVE  TypeOK'
  BY <1>32, ZenonT(60) DEF ObserveFails, GoTo, AfterLook, LeavesEntry, CallerLabels,
               HoldsState, Terminal
<1>33. ASSUME NEW c \in Callers, StopAwaits(c)
      PROVE  TypeOK'
  BY <1>33, ZenonT(60) DEF StopAwaits, GoTo, CallerLabels, HoldsState, Terminal
<1>34. ASSUME NEW c \in Callers, StopAnswers(c)
      PROVE  TypeOK'
  <2>1. on[c] \in Pids
    BY <1>34 DEF StopAnswers
  <2>2. children[on[c]] \in Terminal \cup {"absent"}
    BY <1>34, <2>1 DEF StopAnswers, StillRunning
  <2>3. res' \in [Callers -> Terminal \cup {None}]
    BY <1>34, <2>2 DEF StopAnswers
  <2> QED
    BY <1>34, <2>3 DEF StopAnswers, GoTo, CallerLabels, HoldsState
<1>35. ASSUME NEW c \in Callers, StopChecks(c)
      PROVE  TypeOK'
  BY <1>35, ZenonT(60) DEF StopChecks, GoTo, CallerLabels, HoldsState, Terminal
<1>36. ASSUME NEW c \in Callers, StopCensus(c)
      PROVE  TypeOK'
  <2>1. PICK w \in Walk(on[c]) : census' = [census EXCEPT ![c] = w]
    BY <1>36 DEF StopCensus
  <2>2. on[c] \in Pids
    BY <1>36 DEF StopCensus
  <2>3. census' \in [Callers -> Census]
    BY <2>1, <2>2, WalkIsCensus
  <2> QED
    BY <1>36, <2>3 DEF StopCensus, GoTo, CallerLabels, HoldsState
<1>37. ASSUME NEW c \in Callers, StopTerm(c)
      PROVE  TypeOK'
  BY <1>37, ZenonT(60) DEF StopTerm, GoTo, CallerLabels, HoldsState, Terminal
<1>38. ASSUME NEW c \in Callers, StopKill(c)
      PROVE  TypeOK'
  <2>1. on[c] \in Pids
    BY <1>38 DEF StopKill
  <2>2. os' \in [Pids -> {"none", "alive", "zombie", "gone"}]
    <3>1. CASE UNCHANGED os
      BY <3>1
    <3>2. CASE os' = [os EXCEPT ![on[c]] = IF @ = "alive" THEN "zombie" ELSE @]
      BY <2>1, <3>2
    <3> QED
      BY <1>38, <3>1, <3>2 DEF StopKill
  <2>3. live' \in [Pids -> SUBSET Helpers]
    <3>1. CASE UNCHANGED live
      BY <3>1
    <3>2. CASE live' = [live EXCEPT ![on[c]] = @ \cap Escaped]
      BY <2>1, <3>2
    <3> QED
      BY <1>38, <3>1, <3>2 DEF StopKill
  <2> QED
    BY <1>38, <2>2, <2>3 DEF StopKill, GoTo, CallerLabels, HoldsState
<1>39. ASSUME NEW c \in Callers, StopSignalUncertain(c)
      PROVE  TypeOK'
  BY <1>39, ZenonT(60) DEF StopSignalUncertain, GoTo, CallerLabels, HoldsState,
               Terminal
<1>40. ASSUME NEW c \in Callers, StopReaps(c)
      PROVE  TypeOK'
  BY <1>40, ZenonT(60) DEF StopReaps, GoTo, CallerLabels, HoldsState, Terminal
<1>41. ASSUME NEW c \in Callers, StopFindsReaped(c)
      PROVE  TypeOK'
  BY <1>41, ZenonT(60) DEF StopFindsReaped, GoTo, CallerLabels, HoldsState, Terminal
<1>42. ASSUME NEW c \in Callers, StopGivesUp(c)
      PROVE  TypeOK'
  <2>1. UNCHANGED <<osVars, tables, output, reaper, on, census, deferring>>
    BY <1>42 DEF StopGivesUp
  <2>2. CASE pc[c] = "poll"
    <3>1. /\ GoTo(c, "kill")
          /\ UNCHANGED res
      BY <1>42, <2>2 DEF StopGivesUp
    <3> QED
      BY <1>42, <2>2, <2>1, <3>1, ZenonT(60) DEF GoTo, CallerLabels, HoldsState, Terminal
  <2>3. CASE pc[c] = "repoll"
    <3>1. /\ GoTo(c, "return")
          /\ res' = [res EXCEPT ![c] = "orphan"]
      BY <1>42, <2>3 DEF StopGivesUp
    <3> QED
      BY <1>42, <2>3, <2>1, <3>1, ZenonT(60) DEF GoTo, CallerLabels, HoldsState, Terminal
  <2> QED
    BY <1>42, <2>2, <2>3 DEF StopGivesUp
<1>43. ASSUME NEW c \in Callers, StopSettles(c)
      PROVE  TypeOK'
  <2>1. PICK v \in Terminal :
          /\ Settle(on[c], census[c], res[c], v)
          /\ res' = [res EXCEPT ![c] = v]
    BY <1>43 DEF StopSettles
  <2>2. on[c] \in Pids
    BY <1>43 DEF StopSettles
  <2>3. live' \in [Pids -> SUBSET Helpers]
    BY <2>1, <2>2, SettleOutcome
  <2> QED
    BY <1>43, <2>1, <2>3 DEF StopSettles, GoTo, CallerLabels, HoldsState
<1>44. ASSUME NEW c \in Callers, StopRecords(c)
      PROVE  TypeOK'
  BY <1>44 DEF StopRecords, WriteSettled, GoTo, CallerLabels, HoldsState
<1>45. ASSUME NEW c \in Callers, StopReturns(c)
      PROVE  TypeOK'
  BY <1>45, ZenonT(60) DEF StopReturns, Return, GoTo, CallerLabels, HoldsState, Census,
               Unavailable, Terminal
<1>46. ASSUME NEW c \in Callers, CallerOrders(c)
      PROVE  TypeOK'
  <2>1. RecordTerminalOrder(on[c]) /\ on[c] \in Pids
    BY <1>46 DEF CallerOrders
  <2> QED
    BY <1>46, <2>1, RecordOrderTypes DEF CallerOrders, GoTo, CallerLabels, HoldsState
<1>47. ASSUME NEW c \in Callers, CallerConfirms(c)
      PROVE  TypeOK'
  BY <1>47, ZenonT(60) DEF CallerConfirms, GoTo, Confirm, CallerLabels, HoldsState,
               Terminal
<1>48. ASSUME NEW c \in Callers, ObservePublishes(c)
      PROVE  TypeOK'
  BY <1>48, ZenonT(60) DEF ObservePublishes, Return, TryFinalize, GoTo, CallerLabels,
               HoldsState, Census, Unavailable, Terminal
<1>49. ASSUME NEW c \in Callers, StopPublishes(c)
      PROVE  TypeOK'
  BY <1>49, ZenonT(60) DEF StopPublishes, GoTo, TryFinalize, CallerLabels, HoldsState,
               Terminal
<1> QED
  BY <1>1, <1>2, <1>3, <1>4, <1>5, <1>6, <1>7, <1>8, <1>9, <1>10, <1>11, ZenonT(60),
     <1>12, <1>13, <1>14, <1>15, <1>16, <1>17, <1>18, <1>19, <1>20, <1>21,
     <1>22, <1>23, <1>24, <1>25, <1>26, <1>27, <1>28, <1>29, <1>30, <1>31,
     <1>32, <1>33, <1>34, <1>35, <1>36, <1>37, <1>38, <1>39, <1>40, <1>41,
     <1>42, <1>43, <1>44, <1>45, <1>46, <1>47, <1>48, <1>49
  DEF Next, Kernel, Reader, Reaper, Proceed, Call, vars

\* Every reachable state is well typed (TypeOK), for any numbers of children,
\* callers, readers and helpers: in particular a reaper that records or
\* confirms a verdict always holds one, and so does a call that writes one.
THEOREM TypeCorrect == Spec => []TypeOK
<1>1. Init => TypeOK
  BY NumbersAssumption
  DEF Init, TypeOK, OsTypes, TableTypes, OutputTypes, ReaperTypes,
      CallerTypes, ReaperLabels, CallerLabels, HoldsState, Census,
      Unavailable
<1>2. TypeOK /\ [Next]_vars => TypeOK'
  BY TypeStep
<1> QED
  BY <1>1, <1>2, PTL DEF Spec
=============================================================================
