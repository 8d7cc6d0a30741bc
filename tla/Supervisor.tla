----------------------------- MODULE Supervisor -----------------------------
(***************************************************************************)
(* The process supervisor (crates/omnifrons-supervisor/src/lib.rs) on      *)
(* Linux: the children table, the retained-terminal order, the stopping    *)
(* and settling sets and the output table's reap bookkeeping, shared by    *)
(* threads that call spawn, stop and observe through clones of one handle  *)
(* and by one self-exit reaper task per child.                             *)
(*                                                                         *)
(* Every action is one critical section of the code (a mutex held without  *)
(* interruption), or one system call made with no mutex held.  The one     *)
(* section that is cut in two is try_reap: it reads the stopping set with  *)
(* `children` held and only then reaps, and a stop that has not reached    *)
(* `children` yet can register and look at `settling` in between; `holder` *)
(* is the reaper inside that section.  Time-outs are nondeterministic.     *)
(***************************************************************************)
EXTENDS Naturals, Sequences, FiniteSets

CONSTANTS
  Pids,          \* the process ids the kernel hands out
  Callers,       \* the threads that call the supervisor
  Helpers,       \* the descendants a child may fork, named per child
  Escaped,       \* those of them that leave the process group (setsid)
  Readers,       \* reader tasks per child: 2 on pipes, 1 on a pty
  MaxRunning,    \* MAX_RUNNING_CHILDREN
  MaxRetained,   \* MAX_RETAINED_TERMINAL_CHILDREN
  WaitMayFail,   \* whether try_wait may answer with an error
  PidsRecycle,   \* whether the kernel may hand a reaped pid out again
  None           \* no pid, no state

ASSUME EscapedAssumption == Escaped \subseteq Helpers
ASSUME FinitenessAssumption == IsFiniteSet(Pids) /\ IsFiniteSet(Callers)
ASSUME NumbersAssumption == /\ Readers \in Nat \ {0}
                            /\ MaxRunning \in Nat \ {0}
                            /\ MaxRetained \in Nat \ {0}
ASSUME FlagsAssumption == WaitMayFail \in BOOLEAN /\ PidsRecycle \in BOOLEAN
ASSUME NoneAssumption ==
  None \notin Pids \cup {"absent", "running", "exited", "killed", "orphan"}

VARIABLES
  \* the kernel's side
  os,          \* the child: "none", "alive", "zombie" or "gone" (reaped)
  born,        \* the helpers a child's tree has forked
  live,        \* those of them still running
  \* Inner's tables
  children,    \* "absent", "running" or the recorded terminal state
  order,       \* terminal_order
  stopping,    \* ids a stop registered
  settling,    \* "no", "fresh" or "overdue": the owed settle verdict's age
  holder,      \* the reaper inside try_reap's critical section, or None
  \* the output table's reap bookkeeping
  readers,     \* active_readers
  claim,       \* the reaper's claim: "none", "fresh" or "stale"
  confirmed,   \* confirmed_state
  frame,       \* the state in the final frame, once it is sent
  \* the self-exit reaper tasks
  rpc, rcensus, rverdict,
  \* the calling threads
  pc, on, res, census, deferring

osVars == <<os, born, live>>
tables == <<children, order, stopping, settling, holder>>
output == <<readers, claim, confirmed, frame>>
reaper == <<rpc, rcensus, rverdict>>
caller == <<pc, on, res, census, deferring>>
vars == <<osVars, tables, output, reaper, caller>>

Terminal == {"exited", "killed", "orphan"}

\* A census is the set of helpers it recorded, or it is unavailable.
Census == [known : BOOLEAN, seen : SUBSET Helpers]
Unavailable == [known |-> FALSE, seen |-> {}]

Init ==
  /\ os = [p \in Pids |-> "none"]
  /\ born = [p \in Pids |-> {}]
  /\ live = [p \in Pids |-> {}]
  /\ children = [p \in Pids |-> "absent"]
  /\ order = <<>>
  /\ stopping = {}
  /\ settling = [p \in Pids |-> "no"]
  /\ holder = None
  /\ readers = [p \in Pids |-> 0]
  /\ claim = [p \in Pids |-> "none"]
  /\ confirmed = [p \in Pids |-> None]
  /\ frame = [p \in Pids |-> None]
  /\ rpc = [p \in Pids |-> "idle"]
  /\ rcensus = [p \in Pids |-> Unavailable]
  /\ rverdict = [p \in Pids |-> None]
  /\ pc = [c \in Callers |-> "idle"]
  /\ on = [c \in Callers |-> None]
  /\ res = [c \in Callers |-> None]
  /\ census = [c \in Callers |-> Unavailable]
  /\ deferring = [c \in Callers |-> FALSE]

-----------------------------------------------------------------------------
(* Plausible mistakes: each stands in for the guard or step of the same    *)
(* arity that its comment names, when the properties are tried on a        *)
(* program that gets it wrong.  No action uses them.                       *)

RunningCount == Cardinality({p \in Pids : children[p] = "running"})

StopIgnored(p) == FALSE                 \* for StopOwns
SettleForced(p) == TRUE                 \* for SettleOwed
FrameSent(p) == frame[p] # None         \* for FrameOwed
AnyEntry(p) == TRUE                     \* for StillRunning
AlwaysOrder(justBecameTerminal) == "observe order"  \* for AfterLook
GroupUnchecked(alive) == TRUE           \* for GroupEmpty
OneReaderTooMany == Readers + 1         \* for ReaderCount
OrderSkipped == "settle"                \* for AfterReap
GuardLeaks(p) == UNCHANGED settling     \* for DropGuard
NeverPasses(p) == FALSE                 \* for DeadlinePasses
FailureRecorded(p) == children' = [children EXCEPT ![p] = "orphan"] \* for LeavesEntry
CapPassed == RunningCount <= MaxRunning \* for HasCapacity

-----------------------------------------------------------------------------
(* Pieces several operations share.                                        *)

\* The children mutex is free.
Unlocked == holder = None

GoTo(c, label) == pc' = [pc EXCEPT ![c] = label]
ReaperGoTo(p, label) == rpc' = [rpc EXCEPT ![p] = label]

\* The call returns, and its locals are gone.
Return(c) ==
  /\ GoTo(c, "idle")
  /\ on' = [on EXCEPT ![c] = None]
  /\ res' = [res EXCEPT ![c] = None]
  /\ census' = [census EXCEPT ![c] = Unavailable]
  /\ deferring' = [deferring EXCEPT ![c] = FALSE]

\* The reaper task ends.
ReaperReturns(p) ==
  /\ ReaperGoTo(p, "done")
  /\ rcensus' = [rcensus EXCEPT ![p] = Unavailable]
  /\ rverdict' = [rverdict EXCEPT ![p] = None]

\* The id is registered by a stop (read by the reaper under `children`).
StopOwns(p) == p \in stopping

\* observe and stop still wait for the reaper's verdict.
VerdictPending(p) == settling[p] = "fresh"

\* The reaper's verdict is still wanted: observe did not take it over.
SettleOwed(p) == settling[p] # "no"

\* final_frame_owed.
FrameOwed(p) == frame[p] = None

\* The entry holds a live Child.
StillRunning(p) == children[p] = "running"

\* observe orders the id only on the transition it made itself.
AfterLook(justBecameTerminal) ==
  IF justBecameTerminal THEN "observe order" ELSE "confirm"

\* An entry removed while still Running drops its Child, and kill_on_drop
\* then kills the process.
Evict(p) ==
  /\ children' = [children EXCEPT ![p] = "absent"]
  /\ os' = [os EXCEPT ![p] = IF children[p] = "running" /\ @ = "alive"
                             THEN "zombie" ELSE @]

\* record_terminal_order: append, and evict the oldest past the bound.
RecordTerminalOrder(p) ==
  /\ Unlocked
  /\ LET pushed == Append(order, p) IN
       IF Len(pushed) > MaxRetained
       THEN order' = Tail(pushed) /\ Evict(Head(pushed))
       ELSE order' = pushed /\ UNCHANGED <<children, os>>

\* try_finalize: the final frame is sent once, when the state is confirmed
\* and every reader is done.
TryFinalize(p) ==
  frame' = [frame EXCEPT ![p] = IF @ = None /\ readers[p] = 0
                                THEN confirmed[p] ELSE @]

\* The first half of record_confirmed_state.
Confirm(p, state) == confirmed' = [confirmed EXCEPT ![p] = state]

\* record_settled_state's write to the table (a no-op once evicted).
WriteSettled(p, state) ==
  children' = [children EXCEPT ![p] = IF @ = "absent" THEN @ ELSE state]

\* What a walk of /proc records about p now: descendants hang off the child
\* only while it is alive, a zombie still has an entry but no descendants,
\* and a reaped child has no entry.  An unreadable entry spoils the walk.
Walk(p) ==
  (IF os[p] = "gone" THEN {}
   ELSE {[known |-> TRUE, seen |-> IF os[p] = "alive" THEN live[p] ELSE {}]})
  \cup {Unavailable}

\* Nothing that runs is in the child's process group.
GroupEmpty(alive) == alive \subseteq Escaped

\* Census::settle: the sweep kills recorded helpers; the reap-derived state
\* stands only if every recorded helper and the whole group are gone.
Settle(p, c, reaped, settled) ==
  \E swept \in SUBSET (c.seen \cap live[p]) :
    /\ live' = [live EXCEPT ![p] = @ \ swept]
    /\ \/ /\ c.known
          /\ c.seen \cap live'[p] = {}
          /\ GroupEmpty(live'[p])
          /\ settled = reaped
       \/ settled = "orphan"

-----------------------------------------------------------------------------
(* The kernel and the supervised program.                                  *)

ChildExits(p) ==
  /\ os[p] = "alive"
  /\ os' = [os EXCEPT ![p] = "zombie"]
  /\ UNCHANGED <<born, live, tables, output, reaper, caller>>

HelperForks(p, h) ==
  /\ os[p] = "alive" \/ live[p] # {}
  /\ h \notin born[p]
  /\ h \in Escaped \/ os[p] = "alive" \/ live[p] \ Escaped # {}
  /\ born' = [born EXCEPT ![p] = @ \cup {h}]
  /\ live' = [live EXCEPT ![p] = @ \cup {h}]
  /\ UNCHANGED <<os, tables, output, reaper, caller>>

HelperExits(p, h) ==
  /\ h \in live[p]
  /\ live' = [live EXCEPT ![p] = @ \ {h}]
  /\ UNCHANGED <<os, born, tables, output, reaper, caller>>

\* Time passes: the reaper's last poll gets older than stall_grace, or an
\* owed settle verdict older than settle_wait.
ClaimStales(p) ==
  /\ claim[p] = "fresh" /\ frame[p] = None
  /\ claim' = [claim EXCEPT ![p] = "stale"]
  /\ UNCHANGED <<osVars, tables, readers, confirmed, frame, reaper, caller>>

SettleOverdue(p) ==
  /\ settling[p] = "fresh"
  /\ settling' = [settling EXCEPT ![p] = "overdue"]
  /\ UNCHANGED <<osVars, children, order, stopping, holder, output, reaper,
                 caller>>

-----------------------------------------------------------------------------
(* spawn: finish_spawn and ensure_running_capacity.                        *)

HasCapacity == RunningCount < MaxRunning

\* ensure_running_capacity releases the lock before anything is spawned.
SpawnCheck(c) ==
  /\ pc[c] = "idle"
  /\ Unlocked
  /\ HasCapacity
  /\ GoTo(c, "fork")
  /\ UNCHANGED <<osVars, tables, output, reaper, on, res, census, deferring>>

\* A pid is handed out again only once its process is reaped, nothing is
\* left of its group and (a bound of the model) no task still works on it.
Available(p) ==
  \/ os[p] = "none"
  \/ /\ PidsRecycle
     /\ os[p] = "gone"
     /\ live[p] = {}
     /\ rpc[p] = "done"
     /\ settling[p] = "no"
     /\ \A d \in Callers : on[d] # p

\* Wiring::reader_count: the final frame is gated on exactly that many.
ReaderCount == Readers

\* The fork, a fresh output channel and its reader tasks: the child is not
\* in `children` yet.
SpawnFork(c, p) ==
  /\ pc[c] = "fork"
  /\ Available(p)
  /\ os' = [os EXCEPT ![p] = "alive"]
  /\ born' = [born EXCEPT ![p] = {}]
  /\ readers' = [readers EXCEPT ![p] = ReaderCount]
  /\ claim' = [claim EXCEPT ![p] = "none"]
  /\ confirmed' = [confirmed EXCEPT ![p] = None]
  /\ frame' = [frame EXCEPT ![p] = None]
  /\ ReaperGoTo(p, "reading")
  /\ on' = [on EXCEPT ![c] = p]
  /\ GoTo(c, "insert")
  /\ UNCHANGED <<live, tables, rcensus, rverdict, res, census, deferring>>

\* The spawn itself fails.
SpawnFails(c) ==
  /\ pc[c] = "fork"
  /\ Return(c)
  /\ UNCHANGED <<osVars, tables, output, reaper>>

SpawnInsert(c) ==
  /\ pc[c] = "insert"
  /\ Unlocked
  /\ children' = [children EXCEPT ![on[c]] = "running"]
  /\ Return(c)
  /\ UNCHANGED <<osVars, order, stopping, settling, holder, output,
                 reaper>>

-----------------------------------------------------------------------------
(* The self-exit reaper: confirm_reap_after_readers.                       *)

\* A reader task ends (the program may close its output early).  The reaper
\* call of a reader that is not the last finds others active and is a no-op.
ReaderEnds(p) ==
  /\ rpc[p] = "reading"
  /\ readers[p] > 0
  /\ readers' = [readers EXCEPT ![p] = @ - 1]
  /\ ReaperGoTo(p, IF readers[p] = 1 THEN "finalize" ELSE "reading")
  /\ UNCHANGED <<osVars, tables, claim, confirmed, frame, rcensus, rverdict,
                 caller>>

ReaderFinalizes(p) ==
  /\ rpc[p] = "finalize"
  /\ TryFinalize(p)
  /\ ReaperGoTo(p, "claim")
  /\ UNCHANGED <<osVars, tables, readers, claim, confirmed, rcensus, rverdict,
                 caller>>

\* claim_reap: refused once finalized, confirmed or claimed.
MayClaim(p) == frame[p] = None /\ confirmed[p] = None /\ claim[p] = "none"

ClaimReap(p) ==
  /\ rpc[p] = "claim"
  /\ \/ /\ MayClaim(p)
        /\ claim' = [claim EXCEPT ![p] = "fresh"]
        /\ ReaperGoTo(p, "census")
        /\ UNCHANGED <<rcensus, rverdict>>
     \/ /\ ~MayClaim(p)
        /\ ReaperReturns(p)
        /\ UNCHANGED claim
  /\ UNCHANGED <<osVars, tables, readers, confirmed, frame,
                 caller>>

ReaperCensus(p) ==
  /\ rpc[p] = "census"
  /\ \E w \in Walk(p) : rcensus' = [rcensus EXCEPT ![p] = w]
  /\ ReaperGoTo(p, "poll")
  /\ UNCHANGED <<osVars, tables, output, rverdict, caller>>

\* A refresh walk is adopted unless it ran too late to find the child.  An
\* adopted walk counts from the moment it ran: nothing reads the census in
\* between.
ReaperRefresh(p) ==
  /\ rpc[p] = "poll"
  /\ os[p] # "gone"
  /\ \E w \in Walk(p) : rcensus' = [rcensus EXCEPT ![p] = w]
  /\ UNCHANGED <<osVars, tables, output, rpc, rverdict, caller>>

NoteReapPoll(p) ==
  /\ rpc[p] = "poll"
  /\ claim' = [claim EXCEPT ![p] = "fresh"]
  /\ ReaperGoTo(p, "try")
  /\ UNCHANGED <<osVars, tables, readers, confirmed, frame, rcensus, rverdict,
                 caller>>

\* try_reap up to the check of the stopping set, with `children` taken.
TryReapEnter(p) ==
  /\ rpc[p] = "try"
  /\ Unlocked
  /\ \/ /\ children[p] # "running"
        /\ ReaperReturns(p)
        /\ UNCHANGED holder
     \/ /\ children[p] = "running"
        /\ StopOwns(p)
        /\ ReaperGoTo(p, "owed")
        /\ UNCHANGED <<holder, rcensus, rverdict>>
     \/ /\ children[p] = "running"
        /\ ~StopOwns(p)
        /\ ReaperGoTo(p, "wait")
        /\ holder' = p
        /\ UNCHANGED <<rcensus, rverdict>>
  /\ UNCHANGED <<osVars, children, order, stopping, settling, output,
                 caller>>

\* A reap is followed by record_terminal_order.
AfterReap == "order"

\* The rest of try_reap: the id is registered as settling in the section
\* that flips the entry.
TryReapReaped(p) ==
  /\ rpc[p] = "wait"
  /\ os[p] = "zombie"
  /\ os' = [os EXCEPT ![p] = "gone"]
  /\ children' = [children EXCEPT ![p] = "exited"]
  /\ settling' = [settling EXCEPT ![p] = "fresh"]
  /\ holder' = None
  /\ ReaperGoTo(p, AfterReap)
  /\ UNCHANGED <<born, live, order, stopping, output, rcensus, rverdict,
                 caller>>

TryReapPending(p) ==
  /\ rpc[p] = "wait"
  /\ os[p] = "alive"
  /\ holder' = None
  /\ ReaperGoTo(p, "owed")
  /\ UNCHANGED <<osVars, children, order, stopping, settling, output, rcensus,
                 rverdict, caller>>

TryReapFailed(p) ==
  /\ rpc[p] = "wait"
  /\ WaitMayFail
  /\ claim' = [claim EXCEPT ![p] = "none"]
  /\ holder' = None
  /\ ReaperReturns(p)
  /\ UNCHANGED <<osVars, children, order, stopping, settling, readers,
                 confirmed, frame, caller>>

\* final_frame_owed, then the stamp before the sleep.
ReaperOwed(p) ==
  /\ rpc[p] = "owed"
  /\ \/ /\ FrameOwed(p)
        /\ claim' = [claim EXCEPT ![p] = "fresh"]
        /\ ReaperGoTo(p, "poll")
        /\ UNCHANGED <<rcensus, rverdict>>
     \/ /\ ~FrameOwed(p)
        /\ ReaperReturns(p)
        /\ UNCHANGED claim
  /\ UNCHANGED <<osVars, tables, readers, confirmed, frame,
                 caller>>

ReaperOrder(p) ==
  /\ rpc[p] = "order"
  /\ RecordTerminalOrder(p)
  /\ ReaperGoTo(p, "settle")
  /\ UNCHANGED <<born, live, stopping, settling, holder, output, rcensus,
                 rverdict, caller>>

ReaperSettle(p) ==
  /\ rpc[p] = "settle"
  /\ \E v \in Terminal :
       /\ Settle(p, rcensus[p], "exited", v)
       /\ rverdict' = [rverdict EXCEPT ![p] = v]
  /\ ReaperGoTo(p, "record")
  /\ UNCHANGED <<os, born, tables, output, rcensus, caller>>

\* record_reaper_settled_state: discarded once observe took the settle over.
ReaperRecord(p) ==
  /\ rpc[p] = "record"
  /\ Unlocked
  /\ \/ /\ SettleOwed(p)
        /\ WriteSettled(p, rverdict[p])
        /\ ReaperGoTo(p, "confirm")
     \/ /\ ~SettleOwed(p)
        /\ ReaperGoTo(p, "unguard")
        /\ UNCHANGED children
  /\ UNCHANGED <<osVars, order, stopping, settling, holder, output, rcensus,
                 rverdict, caller>>

ReaperConfirm(p) ==
  /\ rpc[p] = "confirm"
  /\ Confirm(p, rverdict[p])
  /\ ReaperGoTo(p, "publish")
  /\ UNCHANGED <<osVars, tables, readers, claim, frame, rcensus, rverdict,
                 caller>>

ReaperPublish(p) ==
  /\ rpc[p] = "publish"
  /\ TryFinalize(p)
  /\ ReaperGoTo(p, "unguard")
  /\ UNCHANGED <<osVars, tables, readers, claim, confirmed, rcensus, rverdict,
                 caller>>

\* The settling guard is dropped.
DropGuard(p) == settling' = [settling EXCEPT ![p] = "no"]

ReaperUnguard(p) ==
  /\ rpc[p] = "unguard"
  /\ DropGuard(p)
  /\ ReaperReturns(p)
  /\ UNCHANGED <<osVars, children, order, stopping, holder, output,
                 caller>>

-----------------------------------------------------------------------------
(* observe.                                                                *)

\* The claim is read before `children` is taken.
ObserveClaim(c, p) ==
  /\ pc[c] = "idle"
  /\ on' = [on EXCEPT ![c] = p]
  /\ deferring' = [deferring EXCEPT ![c] = claim[p] = "fresh" /\ frame[p] = None]
  /\ GoTo(c, "look")
  /\ UNCHANGED <<osVars, tables, output, reaper, res, census>>

\* The id is unknown, or the answer is Running.
ObserveAnswers(c) ==
  LET p == on[c] IN
  /\ pc[c] = "look"
  /\ Unlocked
  /\ \/ children[p] = "absent"
     \/ children[p] = "running" /\ (deferring[c] \/ os[p] = "alive")
     \/ children[p] \in Terminal /\ VerdictPending(p)
  /\ Return(c)
  /\ UNCHANGED <<osVars, tables, output, reaper>>

\* observe reaps the child itself: no census, no sweep.
ObserveReaps(c) ==
  LET p == on[c] IN
  /\ pc[c] = "look"
  /\ Unlocked
  /\ children[p] = "running" /\ ~deferring[c]
  /\ os[p] = "zombie"
  /\ os' = [os EXCEPT ![p] = "gone"]
  /\ children' = [children EXCEPT ![p] = "exited"]
  /\ res' = [res EXCEPT ![c] = "exited"]
  /\ GoTo(c, AfterLook(TRUE))
  /\ UNCHANGED <<born, live, order, stopping, settling, holder, output,
                 reaper, on, census, deferring>>

\* The recorded state is reported; an overdue settle is taken over in the
\* same section.
ObserveTerminal(c) ==
  LET p == on[c] IN
  /\ pc[c] = "look"
  /\ Unlocked
  /\ children[p] \in Terminal
  /\ ~VerdictPending(p)
  /\ settling' = [settling EXCEPT ![p] = "no"]
  /\ res' = [res EXCEPT ![c] = children[p]]
  /\ GoTo(c, AfterLook(FALSE))
  /\ UNCHANGED <<osVars, children, order, stopping, holder, output, reaper,
                 on, census, deferring>>

\* A failed try_wait confirms nothing: the entry stays Running.
LeavesEntry(p) == UNCHANGED children

\* try_wait failed: that is reported.
ObserveFails(c) ==
  LET p == on[c] IN
  /\ pc[c] = "look"
  /\ Unlocked
  /\ WaitMayFail
  /\ children[p] = "running" /\ ~deferring[c]
  /\ LeavesEntry(p)
  /\ res' = [res EXCEPT ![c] = "orphan"]
  /\ GoTo(c, AfterLook(FALSE))
  /\ UNCHANGED <<osVars, order, stopping, settling, holder, output, reaper,
                 on, census, deferring>>

-----------------------------------------------------------------------------
(* stop.                                                                   *)

StopRegister(c, p) ==
  /\ pc[c] = "idle"
  /\ on' = [on EXCEPT ![c] = p]
  /\ stopping' = stopping \cup {p}
  /\ GoTo(c, "await")
  /\ UNCHANGED <<osVars, children, order, settling, holder, output, reaper,
                 res, census, deferring>>

\* Wait for a settle in flight, at most settle_wait.
StopAwaits(c) ==
  /\ pc[c] = "await"
  /\ ~VerdictPending(on[c])
  /\ GoTo(c, "check")
  /\ UNCHANGED <<osVars, tables, output, reaper, on, res, census, deferring>>

\* An unknown id, or the recorded state again.
StopAnswers(c) ==
  /\ pc[c] = "check"
  /\ Unlocked
  /\ ~StillRunning(on[c])
  /\ res' = [res EXCEPT ![c] = IF children[on[c]] = "absent"
                               THEN None ELSE children[on[c]]]
  /\ GoTo(c, "return")
  /\ UNCHANGED <<osVars, tables, output, reaper, on, census, deferring>>

StopChecks(c) ==
  /\ pc[c] = "check"
  /\ Unlocked
  /\ StillRunning(on[c])
  /\ GoTo(c, "census")
  /\ UNCHANGED <<osVars, tables, output, reaper, on, res, census, deferring>>

StopCensus(c) ==
  /\ pc[c] = "census"
  /\ \E w \in Walk(on[c]) : census' = [census EXCEPT ![c] = w]
  /\ GoTo(c, "term")
  /\ UNCHANGED <<osVars, tables, output, reaper, on, res, deferring>>

\* SIGTERM asks: whatever obeys it exits by the kernel's own actions.
StopTerm(c) ==
  /\ pc[c] = "term"
  /\ GoTo(c, "poll")
  /\ UNCHANGED <<osVars, tables, output, reaper, on, res, census, deferring>>

\* SIGKILL ends the child and its group, unless they are stuck in the kernel.
StopKill(c) ==
  LET p == on[c] IN
  /\ pc[c] = "kill"
  /\ GoTo(c, "repoll")
  /\ \/ /\ os' = [os EXCEPT ![p] = IF @ = "alive" THEN "zombie" ELSE @]
        /\ live' = [live EXCEPT ![p] = @ \cap Escaped]
     \/ UNCHANGED <<os, live>>
  /\ UNCHANGED <<born, tables, output, reaper, on, res, census, deferring>>

\* A signal fails for a reason other than "already gone".
StopSignalUncertain(c) ==
  /\ pc[c] \in {"term", "kill"}
  /\ res' = [res EXCEPT ![c] = "orphan"]
  /\ GoTo(c, "return")
  /\ UNCHANGED <<osVars, tables, output, reaper, on, census, deferring>>

\* poll_until_reaped reaps: the SIGTERM round reports the exit, the SIGKILL
\* round reports Killed.
StopReaps(c) ==
  LET p == on[c] IN
  /\ pc[c] \in {"poll", "repoll"}
  /\ Unlocked
  /\ children[p] = "running"
  /\ os[p] = "zombie"
  /\ LET state == IF pc[c] = "poll" THEN "exited" ELSE "killed" IN
       /\ children' = [children EXCEPT ![p] = state]
       /\ res' = [res EXCEPT ![c] = state]
  /\ os' = [os EXCEPT ![p] = "gone"]
  /\ GoTo(c, "stop order")
  /\ UNCHANGED <<born, live, order, stopping, settling, holder, output,
                 reaper, on, census, deferring>>

\* Somebody else reaped it: that recorded state is settled and reported.
StopFindsReaped(c) ==
  LET p == on[c] IN
  /\ pc[c] \in {"poll", "repoll"}
  /\ Unlocked
  /\ children[p] \in Terminal
  /\ res' = [res EXCEPT ![c] = children[p]]
  /\ GoTo(c, "settle")
  /\ UNCHANGED <<osVars, tables, output, reaper, on, census, deferring>>

\* The deadline is checked after a poll that found the child not reapable.
DeadlinePasses(p) == os[p] = "alive" \/ WaitMayFail

StopGivesUp(c) ==
  LET p == on[c] IN
  /\ pc[c] \in {"poll", "repoll"}
  /\ Unlocked
  /\ children[p] = "running"
  /\ DeadlinePasses(p)
  /\ \/ /\ pc[c] = "poll"
        /\ GoTo(c, "kill")
        /\ UNCHANGED res
     \/ /\ pc[c] = "repoll"
        /\ GoTo(c, "return")
        /\ res' = [res EXCEPT ![c] = "orphan"]
  /\ UNCHANGED <<osVars, tables, output, reaper, on, census, deferring>>

StopSettles(c) ==
  /\ pc[c] = "settle"
  /\ \E v \in Terminal :
       /\ Settle(on[c], census[c], res[c], v)
       /\ res' = [res EXCEPT ![c] = v]
  /\ GoTo(c, "record")
  /\ UNCHANGED <<os, born, tables, output, reaper, on, census, deferring>>

\* record_settled_state.
StopRecords(c) ==
  /\ pc[c] = "record"
  /\ Unlocked
  /\ WriteSettled(on[c], res[c])
  /\ GoTo(c, "stop confirm")
  /\ UNCHANGED <<osVars, order, stopping, settling, holder, output, reaper,
                 on, res, census, deferring>>

\* The stopping guard is dropped: the id leaves the set.
StopReturns(c) ==
  /\ pc[c] = "return"
  /\ stopping' = stopping \ {on[c]}
  /\ Return(c)
  /\ UNCHANGED <<osVars, children, order, settling, holder, output,
                 reaper>>

-----------------------------------------------------------------------------
(* The tails observe and stop share: the order, then the output channel.   *)

CallerOrders(c) ==
  /\ pc[c] \in {"observe order", "stop order"}
  /\ RecordTerminalOrder(on[c])
  /\ GoTo(c, IF pc[c] = "stop order" THEN "settle" ELSE "confirm")
  /\ UNCHANGED <<born, live, stopping, settling, holder, output, reaper, on,
                 res, census, deferring>>

CallerConfirms(c) ==
  /\ pc[c] \in {"confirm", "stop confirm"}
  /\ Confirm(on[c], res[c])
  /\ GoTo(c, IF pc[c] = "confirm" THEN "publish" ELSE "stop publish")
  /\ UNCHANGED <<osVars, tables, readers, claim, frame, reaper, on, res,
                 census, deferring>>

ObservePublishes(c) ==
  /\ pc[c] = "publish"
  /\ TryFinalize(on[c])
  /\ Return(c)
  /\ UNCHANGED <<osVars, tables, readers, claim, confirmed, reaper>>

StopPublishes(c) ==
  /\ pc[c] = "stop publish"
  /\ TryFinalize(on[c])
  /\ GoTo(c, "return")
  /\ UNCHANGED <<osVars, tables, readers, claim, confirmed, reaper, on, res,
                 census, deferring>>

-----------------------------------------------------------------------------
Kernel(p) ==
  \/ ChildExits(p) \/ ClaimStales(p) \/ SettleOverdue(p)
  \/ \E h \in Helpers : HelperForks(p, h) \/ HelperExits(p, h)

Reader(p) == ReaderEnds(p)

Reaper(p) ==
  \/ ReaderFinalizes(p) \/ ClaimReap(p) \/ ReaperCensus(p) \/ NoteReapPoll(p)
  \/ TryReapEnter(p) \/ TryReapReaped(p) \/ TryReapPending(p)
  \/ TryReapFailed(p) \/ ReaperOwed(p) \/ ReaperOrder(p) \/ ReaperSettle(p)
  \/ ReaperRecord(p) \/ ReaperConfirm(p) \/ ReaperPublish(p)
  \/ ReaperUnguard(p)

\* What a caller does once a call is under way.
Proceed(c) ==
  \/ \E p \in Pids : SpawnFork(c, p)
  \/ SpawnFails(c) \/ SpawnInsert(c)
  \/ ObserveAnswers(c) \/ ObserveReaps(c) \/ ObserveTerminal(c)
  \/ ObserveFails(c)
  \/ StopAwaits(c) \/ StopAnswers(c) \/ StopChecks(c) \/ StopCensus(c)
  \/ StopTerm(c) \/ StopKill(c) \/ StopSignalUncertain(c) \/ StopReaps(c)
  \/ StopFindsReaped(c) \/ StopGivesUp(c) \/ StopSettles(c)
  \/ StopRecords(c) \/ StopReturns(c)
  \/ CallerOrders(c) \/ CallerConfirms(c) \/ ObservePublishes(c)
  \/ StopPublishes(c)

Call(c) ==
  \/ SpawnCheck(c)
  \/ \E p \in Pids : ObserveClaim(c, p) \/ StopRegister(c, p)

Next ==
  \/ \E p \in Pids : Kernel(p) \/ Reader(p) \/ Reaper(p) \/ ReaperRefresh(p)
  \/ \E c \in Callers : Call(c) \/ Proceed(c)

Spec == Init /\ [][Next]_vars
-----------------------------------------------------------------------------
(* Types.                                                                  *)

ReaperLabels ==
  {"idle", "reading", "finalize", "claim", "census", "poll", "try", "wait",
   "owed", "order", "settle", "record", "confirm", "publish", "unguard",
   "done"}

CallerLabels ==
  {"idle", "fork", "insert", "look", "observe order", "confirm", "publish",
   "await", "check", "census", "term", "poll", "kill", "repoll",
   "stop order", "settle", "record", "stop confirm", "stop publish",
   "return"}

OsTypes ==
  /\ os \in [Pids -> {"none", "alive", "zombie", "gone"}]
  /\ born \in [Pids -> SUBSET Helpers]
  /\ live \in [Pids -> SUBSET Helpers]

TableTypes ==
  /\ children \in [Pids -> {"absent", "running"} \cup Terminal]
  /\ order \in Seq(Pids)
  /\ stopping \subseteq Pids
  /\ settling \in [Pids -> {"no", "fresh", "overdue"}]
  /\ holder \in Pids \cup {None}

OutputTypes ==
  /\ readers \in [Pids -> 0 .. Readers]
  /\ claim \in [Pids -> {"none", "fresh", "stale"}]
  /\ confirmed \in [Pids -> Terminal \cup {None}]
  /\ frame \in [Pids -> Terminal \cup {None}]

ReaperTypes ==
  /\ rpc \in [Pids -> ReaperLabels]
  /\ rcensus \in [Pids -> Census]
  /\ rverdict \in [Pids -> Terminal \cup {None}]
  /\ \A p \in Pids : rpc[p] \in {"record", "confirm"} => rverdict[p] \in Terminal

\* Labels at which a call holds the state it is about to write.
HoldsState == {"observe order", "confirm", "stop order", "settle", "record",
               "stop confirm"}

\* A call under way is about some pid.
CallerTypes ==
  /\ pc \in [Callers -> CallerLabels]
  /\ on \in [Callers -> Pids \cup {None}]
  /\ res \in [Callers -> Terminal \cup {None}]
  /\ census \in [Callers -> Census]
  /\ deferring \in [Callers -> BOOLEAN]
  /\ \A c \in Callers : pc[c] \notin {"idle", "fork"} => on[c] \in Pids
  /\ \A c \in Callers : pc[c] \in HoldsState => res[c] \in Terminal

\* The type invariant: every variable holds a value the code's types allow.
TypeOK == OsTypes /\ TableTypes /\ OutputTypes /\ ReaperTypes /\ CallerTypes

-----------------------------------------------------------------------------
(* What one operator at a time may rely on.                                *)

\* A signal is only ever sent to a group whose leader is unreaped, so the
\* kernel cannot have given its id to something else: the stopping guard
\* keeps the reaper away from the moment stop looked at the entry.
SignalsOnlyUnreaped ==
  \A c \in Callers : pc[c] \in {"term", "kill"} => os[on[c]] # "gone"

\* The final frame and the table tell the same story: what a later observe
\* or stop reports is what the subscriber was told.
FrameTellsTheRecord ==
  \A p \in Pids :
    frame[p] # None /\ children[p] \in Terminal => frame[p] = children[p]

\* poll_until_reaped finds the entry it was promised; its expect would
\* panic with the children mutex held and poison it for everybody.
PollFindsTheEntry ==
  \A c \in Callers : pc[c] \in {"poll", "repoll"} => children[on[c]] # "absent"

\* "Killed" in the final frame means the whole process group is gone, not
\* just the child stop signalled.
KilledMeansGroupGone ==
  \A p \in Pids : frame[p] = "killed" => live[p] \subseteq Escaped

\* While the reaper's sweep is under way and observe has not taken it over,
\* nothing is finalized with the reap-derived state.
SweepStaysPrivate ==
  \A p \in Pids :
    settling[p] = "fresh" /\ rpc[p] \in {"order", "settle", "record"}
      => confirmed[p] = None /\ frame[p] = None

\* One child never shows two terminal states: a recorded state that is not
\* being settled is never replaced by another one.
VerdictIsStable ==
  [][\A p \in Pids :
       children[p] \in Terminal /\ settling[p] = "no" /\ p \notin stopping
         => children'[p] \notin Terminal \ {children[p]}]_vars

-----------------------------------------------------------------------------
(* What holds with any number of operators.                                *)

\* An entry is Running exactly while its child is unreaped, so a pid the
\* kernel may have given away is never behind a Running entry.
TableTracksReap ==
  \A p \in Pids :
    /\ children[p] = "running" => os[p] \in {"alive", "zombie"}
    /\ children[p] \in Terminal => os[p] = "gone"

\* Every id in the eviction order is there once and names an entry that is
\* retained as terminal: eviction, which takes the oldest, removes exactly
\* one reaped entry and never a live child.
OrderIsExact ==
  /\ \A i \in 1 .. Len(order) : children[order[i]] \in Terminal
  /\ \A i, j \in 1 .. Len(order) : order[i] = order[j] => i = j

\* A terminal entry is in the order or about to be appended to it, so that
\* retained entries stay bounded.
TerminalIsOrdered ==
  \A p \in Pids : children[p] \in Terminal =>
    \/ \E i \in 1 .. Len(order) : order[i] = p
    \/ rpc[p] = "order"
    \/ \E c \in Callers : on[c] = p /\ pc[c] \in {"observe order", "stop order"}

\* An entry still Running is never evicted.
EvictsOnlyReaped ==
  [][\A p \in Pids : children[p] = "running" => children'[p] # "absent"]_vars

\* The cap is checked before the fork and the lock given back, so launches
\* that race may all pass it: each thread beyond the first takes the running
\* children at most one over the cap (ensure_running_capacity, finish_spawn).
RunningBound == RunningCount <= MaxRunning + Cardinality(Callers) - 1

-----------------------------------------------------------------------------
(* Fairness: tasks and threads keep running, the time-outs pass, the       *)
(* reaper sleeps between polls so a caller gets the children mutex, and a  *)
(* reader sees EOF once nobody is left to hold its pipe open.  Nothing     *)
(* makes a child exit and nobody has to call anything.                     *)
Fairness ==
  /\ \A p \in Pids : /\ SF_vars(Reaper(p))
                     /\ WF_vars(ReaderEnds(p) /\ os[p] \in {"zombie", "gone"}
                                               /\ live[p] = {})
                     /\ WF_vars(ClaimStales(p)) /\ WF_vars(SettleOverdue(p))
  /\ \A c \in Callers : SF_vars(Proceed(c))

FairSpec == Spec /\ Fairness

Stopping(c) == pc[c] \notin {"idle", "fork", "insert", "look", "observe order",
                            "confirm", "publish"}

\* stop is bounded by its time-outs: it returns whatever the child does.
StopReturnsEventually == \A c \in Callers : Stopping(c) ~> pc[c] = "idle"

\* An owed settle verdict is recorded or taken over, never owed forever.
SettlingEnds == \A p \in Pids : settling[p] # "no" ~> settling[p] = "no"

\* Once the reaper polls a child that is in the table, that child's exit,
\* now or later, leads to the final frame with nobody stopping it: observers
\* may come and go, or never come.
PolledExitEndsTheRun ==
  \A p \in Pids :
    /\ rpc[p] = "poll" /\ children[p] = "running"
    /\ <>(os[p] # "alive")
    /\ [](p \notin stopping)
    ~> frame[p] # None

\* A child that exited on its own, with its output closed, ends its run with
\* no operator action.
ExitEndsTheRun ==
  \A p \in Pids : os[p] \in {"zombie", "gone"} /\ readers[p] = 0 ~> frame[p] # None

=============================================================================
