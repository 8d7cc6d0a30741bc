# A verification project for Omnifrons

TLA+ modules for the parts of Omnifrons whose correctness depends on order, on
failure or on who acts first; TLC configurations that check them on small
instances; and theorems, proved with TLAPS for every value of the constants.
Every definition is translated from the Rust source. Paths below are relative
to the repository unless they name a file of this directory.

To repeat a check: `tlc -config <Run>.cfg <MCModule>.tla`; to repeat a proof:
`tlapm <Module>.tla`. `PROJECT.json` lists the runs, the lines each definition
stands for, the hazards, the findings and the theorems.

## 1. The system

Omnifrons is a desktop shell (Tauri, `src-tauri`) around user-installed command
line agents. The shell's commands call ports defined in `omnifrons-app` over
types of `omnifrons-domain`; `omnifrons-adapters` implements the ports on the
file system and `omnifrons-supervisor` implements process control.

| Component | State it keeps | Operations | What makes it correct |
| --- | --- | --- | --- |
| Process supervisor (`omnifrons-supervisor/src/lib.rs`, `descendants.rs`) | children table, order of retained terminal entries, stopping and settling sets; one self-exit reaper task per child | spawn, observe, stop, drop | only an unreaped process group is signalled; what the table, the final frame and the caller are told agrees; tables stay bounded; stop and a self-exit end |
| Output capture (`output_capture.rs`) | a bounded channel per launch, sequence and drop counters, the reap's confirmed state | reader tasks, prompt writer, finalization, subscription | frames are numbered once, drops counted once, the state frame closes the output |
| Forwarder (`ipc/commands.rs`, `harness_adapter.rs`, `terminal_normalizer.rs`) | line assembler, wire sequencer | map raw frames to wire frames | no line with a hole is parsed; the run-end inventory always runs |
| Publication (`publication.rs`, `publication_journal.rs`, `ipc/publication.rs`) | journal, catalog, published copies, held handles, the surface lock | approve, publish, list with restart replay | nothing registered twice, nothing removed before it is registered, an interrupted publication is finished or shown |
| Recovery entries, catalog repair (`ipc/recovery.rs`, `catalog_repair.rs`) | recovery directory, damaged catalog | list, approve, preview, repair | escaped bytes are kept; a repair keeps what it promised |
| Run outbox (`run_outbox.rs`, `outbox_state.rs`) | run table, run-end inventories, held candidates | prepare, inventory, hold | attribution, the cap on held handles |
| Wrong root, quarantine, ignore ledger | quarantine directory, ledger | scan, quarantine, publish, ignore | a misplaced file is moved only by choice |
| Launch gate and approval store | approval log, revocations | probe, approve, launch | only the approved executable runs |
| Managed guidance and snapshots | a block in a user's file, snapshot store | preview, apply, undo | the user's own text survives; drift is refused |
| Definitions (`definition.rs`, `definition_plan.rs`, `definition_apply.rs`, `fs_definition_writer.rs`, `fs_snapshot_store.rs`) | the identity files of a directory, snapshots, apply records | preview, create, apply | only the approved plan is written, a replaced file is in a snapshot, a stopped apply can be finished |
| Work area, staging cleanup, harness log, renderer, tools | | | see `PROJECT.json` "components" |

How they interact:

* The shell clones one supervisor handle into several command threads. Each
  child has reader tasks, a prompt writer and a reaper on a current-thread
  runtime; calls and reapers share three mutexes (`children`,
  `terminal_order`, `stopping`/`settling`) and the output table.
* `observe`, `stop` and the reaper *confirm* a reap to the output channel; the
  last of "readers ended" and "reap confirmed" sends the final state frame. The
  shell's forwarder thread drains the channel to the renderer and, at its end,
  takes the run-end inventory of the outbox.
* An entry of that outbox, once approved, is published by a command that holds
  the publication surface lock for its whole body and journals every step in
  the work area before the next one runs. A restart has nothing but the
  journal, the catalog and the copies.

What is hard: threads between a look at a table and the system call that
relies on it; verdicts owed to a caller while a sweep is still running; a
bounded channel whose drops must be accounted for across two streams; a crash
between any two durable steps; files that change under a held handle.

## 2. The modules

| Module | What it is |
| --- | --- |
| `Supervisor` | spawn, observe, stop and the self-exit reaper over the shared tables |
| `MCSupervisor` | symmetry for its runs, and a bound of the run with two threads |
| `SupervisorProofs` | type correctness |
| `SupervisorOrderProofs` | table, order, retention and eviction |
| `SupervisorCapProofs` | the cap on running children |
| `HarnessOutput`, `MCHarnessOutput` | a launch's output from reader tasks to wire frames |
| `JsonLines` | an append-only file of JSON lines and what an interrupted append leaves |
| `PublicationLife` | what the durable record promises of a publication (abstract) |
| `Publication` | the publication transaction, its restart replay and its listing; implements `PublicationLife` |
| `MCPublication` | its instances; where a shell starts again after an interrupted one |
| `DefinitionPlan` | the planner as operators: what a directory's files are, what a request plans |
| `Definition`, `MCDefinition` | preview and apply of a plan, its snapshots and record, everybody else's writes |

Operators named "a mutant of ..." (and the block of mutants at the head of
`Supervisor` and `HarnessOutput`) are plausible faults of the definition they
name. No specification uses them: putting one in the place of its original
makes the property it is listed with fail, which shows that the property is
about the code.

### Supervisor

One action is one critical section, or one system call made with no lock held.

| State | Code |
| --- | --- |
| `os`, `born`, `live` | the kernel: the child (none, alive, zombie, reaped) and its descendants |
| `children`, `order` | `Inner::children`, `Inner::terminal_order` |
| `stopping`, `settling` | the ids a stop registered; those whose settled verdict is owed, and its age |
| `holder` | the reaper inside `try_reap`'s critical section, past its look at `stopping` and not yet at its wait |
| `readers`, `claim`, `confirmed`, `frame` | the output table's reap bookkeeping |
| `rpc`, `rcensus`, `rverdict` | each reaper task: where it is and what it holds |
| `pc`, `on`, `res`, `census`, `deferring` | each calling thread |

`SpawnCheck`, `SpawnFork`, `SpawnInsert` are `spawn`; `ObserveClaim` to
`ObservePublishes` are `observe`; `StopRegister` to `StopPublishes` are
`unix::stop`, with its census, TERM, poll, KILL, second poll and settle;
`ReaderFinalizes` to `ReaperUnguard` are the reaper. `RecordTerminalOrder` is
the function of that name, eviction included.

Choices made: `ensure_running_capacity` runs twice on an approved launch and
is modelled once (the first look decides nothing the second does not);
`record_terminal_order` takes its two mutexes in turn but with `children` free
of other writers of that entry, and is one step; a census walk is taken to see
what was there when it ran; time-outs fire at any moment. `Drop for Inner`,
the Windows stop, the pty set-up and the memfd launch are not modelled.

### HarnessOutput

The reader tasks and the prompt writer of a launch share one runtime thread,
so `TrySend` is atomic for them. `emit_stdin_write_failed` is cut in two where
it gives the table's lock back (`ReportTakesNumber`, `ReportSends`), and
callers' finalization, the state-frame thread and the forwarder run in between.
A stdout frame is known by its line and its piece of that line; `Pushed` and
`LineEvent` are `LineAssembler`, `MapPty` the pty forwarder with the
normalizer's result free, `RelayAdapter` and `RelayRaw` the two forwarder
loops. What a line parses to is one event, whatever it says.

### Publication

One shell runs one command at a time: it holds the surface lock, so `pc =
"idle"` means the lock is free. Every durable step is an action of its own,
because the shell may die between any two: `Stream`, `Commit`, `Verify`,
`Discard`, `Enter`, `AddAlias`, `Unlink`, and `Noted` for every line appended
to the journal (`Note(line, where)` says which line, and where the command goes
once it is written; `NoteFails` is an append that returned an error).

| State | Code |
| --- | --- |
| `path`, `bytes` | the outbox directory and the files its names name |
| `preserved` | `recovery/` in the work area |
| `copies` | the published place of each content in each asset root |
| `journal`, `catalog` | `publications.jsonl` and the project's catalog, as `JsonLines` |
| `root` | the asset root the project's policy declares |
| `held` | `RunTable::approved` |
| `pc`, `job`, `line`, `after`, `todo` | the command under way |
| `shown` | the last answer of `publications_for` |
| `removed`, `wasReset` | history |

A publication is known by its content, because its identity is a digest of
project and content, and there is one project. `approve_candidate` is
`Approve`, `Noted`, `Hold`; `publish_approved` is `Publish` to `Unlink`;
`publications_for` is `List`, `Resume`, `Register`, `Enter`, `Defer`, `Show`.
`Meddle` changes the outbox at any moment. `ResetCatalog` and `Shift` (another
asset root, a lost or altered copy) happen between commands only: a named
limit of the model.

`publish` looks the publication up in the catalog a second time; with one shell
that look cannot differ from `acknowledge_registered`'s and is not repeated.
The cap on held handles is the choice in `Hold`. Not modelled: approvals of a
run's own inventory (their handle lives in the run record), checks without an
effect (class, type, size, a running harness), an approval-id collision,
staging files, and identities the platform cannot verify.

### DefinitionPlan and Definition

`DefinitionPlan` has no state. A file is its shape, its instructions (a text, or
imports only), its own skills block and a block of the older family; `Classify`
is `classify`, `PlanExisting` and `PlanCreate` are `plan_existing` and
`plan_new_definition` with their refusals in the order of the code, and `After`
is the directory their operations make. A digest is the file itself, so the id
of a plan is its inputs and its operations. `QWEN` stands for the three
secondary files no plan writes. Left out: refusals over a skill's metadata or a
block's layout, host extras, links and rules written by hand outside the
blocks, the bodies of child agents, permission bits, notices.

| State | Code |
| --- | --- |
| `files`, `skills`, `nested` | the directory: identity files, skill files, an agent above |
| `snapshots`, `record` | the snapshot store, oldest first; the last apply record |
| `shown` | the preview whose id an apply names |
| `run` | `Run` and where it is: check, verify, recheck, publish, read back, settle, record |
| `outcome` | how the last apply ended |
| `spent` | the bounds |

`Preview`, `StartApply` and `HarnessIsRunning` are the commands;
`CheckAndSnapshot` to `Settle` are one round of `Run::step`, cut wherever
another process may write in between, and `Record` is `Run::finish`. `EditFile`
and `ChangeSurroundings` are everybody else. `reached`, `alone` and `late` in
`run` are history for the properties. A reading of the directory is one step,
and snapshots are ordered by insertion: both are limits of the model, the
second one with a hazard (the store orders by the wall clock, so that after a
step back a fresh snapshot may be the one it prunes).

## 3. The runs

| Run | Expected | Shows |
| --- | --- | --- |
| `SupervisorOperator` | pass | one thread and a reaper over one child with a helper in its group and one outside it, pid recycling included: signalling, agreement of frame and table, privacy of the sweep, stability of verdicts; stop, settle and polled exit end |
| `SupervisorRetention` | pass | two children, one running slot, one retained entry, failing waits: order, eviction, and the entry a stop polls |
| `SupervisorThreads` | pass | two threads on one child, failing waits: an entry flips with its reap, and its id is in the order or some actor owes it; two threads launching up to three children: the cap is exceeded by one at most |
| `SupervisorObservedStop` | violation | an observe during a stop's sweep publishes a state the stop then revises |
| `SupervisorStaleSignal` | violation | an observe reaps the child between stop's look at the table and its `killpg` |
| `SupervisorFastExit` | violation | a child that exits before it is in the table leaves its reaper nothing to poll, for good |
| `HarnessOutputLaunches` | pass | demo, line and pty launches: numbering, drop counts, what a parsed line may lack, end of the output, reclaiming of the entry; every subscribed run ends |
| `HarnessOutputHole` | violation | a line that lost its first piece is parsed: the count arrives when no line is pending |
| `PublicationShell` | pass | four commands, or two after a restart with two interrupted publications, and any two mishaps: one record per publication, removal only of what is registered, good copies kept, interrupted publications shown and finished, `PublicationLife` implemented |
| `PublicationReset` | violation | after a catalog reset an interrupted second publication is never shown or resumed |
| `PublicationGluedLine` | violation | a catalog record left without its newline swallows the next one, and the entry is removed from the outbox although the catalog no longer reads |
| `DefinitionApply` | pass | every request over ten directories: what a run replaces is restorable, only the approved preview is written, others' writes survive, plans settle, a stopped run can be brought to its end |

Each violation run checks the one property that a comment or a contract of the
repository states; `PROJECT.json` "findings" quotes it. A line is parsed with a
piece missing in two ways (`docs/spike-log.md:369` forbids both). The assembler
marks a line when a count arrives while the line is pending
(`harness_adapter.rs:559`). The count of a lost head arrives too early for that,
with the line's second piece: `HarnessOutputHole` shows this one. And a count
may leave on a stderr frame between two pieces, which the assembler never sees.
`HolesAreAccountedFor` says that there is no third way, short of a report lost
with its count, and that a lost head whose count reached the assembler is at
least counted on the line's own wire frame.

Four more disagreements
of that kind have no run of their own. The failed-prompt report may arrive
behind the state frame (domain `output.rs:59-60` says the state frame is last;
`OnlyReportFollowsState` states what does hold), and the number it took is
skipped when the channel is full (`output.rs:66-67` says no number is;
`NumbersAssignedOnce` states what does hold). A definition request that resolves
a conflict for `CLAUDE.md`, with a `GEMINI.md` that differs, and stops between
the two wrappers is refused when made again (`definition_apply.rs:55-66` says
that each such state is recognised and that a rerun names its side while the
files disagree): only naming `AGENTS.md` finishes it, and `StoppedRunsRecover`
says that much. And `poll_until_reaped` expects an entry "checked present by
the caller" (supervisor `lib.rs:2003`): `PollFindsTheEntry` holds with one
calling thread, while with two an observe may reap the child during a stop's
sleep and, if the whole retention turns over (256 exits) before the next poll,
the entry is gone.

### Bounds

* Supervisor. One child suffices for what concerns one child (signalling,
  settling, publishing); eviction needs a second one, with room for one
  retained entry so that the second evicts the first. Two callers, which a race
  between calls needs, meet on one child in `SupervisorThreads`, in the
  violation runs and in the theorems (any number of them). With a cap of one
  and two launching threads, `RunningBound` allows two running children, so it
  takes three to break it: `SupervisorThreads` has three process ids, and its
  constraint `OneChildOrLaunches` lets the threads do anything while there is
  one child and only launch while there are more, each of which keeps its output
  open or has been left by its reaper. The two running children do occur: a run
  that forbids them fails. Two helpers, one escaped, are the two cases
  `descendants.rs` tells apart. No time or loop is bounded.
* HarnessOutput. A channel of one place is full as soon as the forwarder is one
  frame behind; three stdout frames make a line with a head, a middle and an end
  to lose; with a cap of two pieces the third one truncates a line.
* Publication. Four commands are two approvals and two publications of one
  content under two names, or an approval, an interrupted publication, a
  listing and a retry. Two mishaps are a failure and a crash, or a crash and a
  change beside it; two contents let the file be rewritten between two steps,
  two names let it be renamed, linked or published twice; with one file a name
  never comes to name a different one (it does in `PublicationGluedLine`). Two
  asset roots let the policy change. Two interrupted publications at one
  listing are beyond these bounds, so `ShellSpec` also starts from the work
  area a dead shell leaves: both contents copied, to any of the asset roots,
  none registered, with two commands left. `Publication` reaches that state
  from an empty work area with four commands and three mishaps (four, with two
  asset roots in it). `ListingFinishesThem` then sees one publication finished
  behind another whose copy cannot be used, which stopping there
  (`NothingMore`) breaks. `PublicationLife` may start with verified copies for
  the same reason. `PublicationReset` needs three mishaps (reset, re-created
  entry, cut registration); `PublicationGluedLine` is the only run where an
  append may tear, with one mishap.
* Definition. The ten directories reach every classification, both block
  families, the accepted link, a nested agent and a copy that no plan manages;
  one skill is enough to make a block due. Two applies let a second one meet
  what the first left, and with room for one snapshot of a file the second
  apply prunes. One change beside the shell and one failure or death fall at
  every step of them. `PlansSettle` is evaluated for every request at every
  directory so reached.

### Fairness, and why the code has it

* Supervisor: weak fairness on the kernel's delivery of an exit and on every
  task and call under way; strong fairness where a step waits for a mutex,
  because the contending loops sleep between attempts; a reader ends once its
  child has exited and no live helper holds the pipe. Nobody has to call.
* HarnessOutput: weak fairness on the report's second half, the state-frame
  thread and the forwarder, threads that run until they are done. Nothing is
  assumed of the child, the renderer or the subscriber.
* Publication: weak fairness on `Work`, the steps of a command under way, which
  runs on a thread of its own until it returns. Nothing makes the user start
  one. `CHECK_DEADLOCK FALSE` because the shell may well stay idle.
* Definition: none, its properties are safety properties.

## 4. What is proved

For every number of pids, callers, helpers, readers and any caps:

| Theorem | Module | States |
| --- | --- | --- |
| `TypeCorrect` | `SupervisorProofs` | every variable keeps its type; a call or task that is about to write a state holds one |
| `TableCorrect` | `SupervisorOrderProofs` | an entry is Running exactly while its child is unreaped |
| `OrderCorrect` | | the eviction order holds each retained terminal id once, and nothing else |
| `RetentionCorrect` | | a terminal entry is in the order, or some actor is about to put it there; so the table stays bounded |
| `InvCorrect` | | the inductive invariant of the four above; in it, whoever is about to order an id is alone |
| `EvictionCorrect` | | no step removes a Running entry |
| `CapCorrect` | `SupervisorCapProofs` | running children exceed the cap by at most one for each calling thread beyond the first |

The theorems of `SupervisorOrderProofs` assume `PidsRecycle = FALSE`. Without
it they do not hold: a pid handed out again while its old id is still in the
eviction order takes that place, and a running child can be evicted (a hazard
in `PROJECT.json`; with `PidsRecycle = TRUE` in `SupervisorRetention.cfg` TLC
shows each of them fail). `CapCorrect` does not need the assumption.

The properties are not inductive. That appending an id keeps the order exact
depends on the id not being there yet, and so on what threads and reapers hold
between the reap and the append. The invariant is `IInv == TypeOK /\ Shown /\
Held`, where `Shown` is the three properties and `Held` says that an id about
to be inserted is absent (`Inserting`), that a reaper past its checks holds the
mutex (`Holding`), that whoever is about to order an id is alone in it and
finds it terminal and not ordered (`ReaperOrdering`, `CallersOrdering`), and
that a settled state is written about reaped children only (`WritingReaped`).
`RecordOrder` is the lemma on the one operation that changes the order. The cap
is checked long before its child is in the table, so `CapInv` counts the
launches under way together with the running children. TLC checked each
invariant on the runs' instances before it was proved.

## 5. What is only model-checked

Liveness (`StopReturnsEventually`, `SettlingEnds`, `PolledExitEndsTheRun`,
`RunEnds`, `ListingFinishesThem`), which the prover does not reach. Everything
of `HarnessOutput`, `Publication` and `Definition`, the refinement of
`PublicationLife` included: their inductive invariants are next. In `Supervisor`,
`SignalsOnlyUnreaped`, `FrameTellsTheRecord`, `KilledMeansGroupGone`,
`SweepStaysPrivate`, `VerdictIsStable` and `PollFindsTheEntry`.
`FrameTellsTheRecord` is checked with `WaitMayFail = FALSE`: when `try_wait`
fails, `observe` confirms `OrphanRiskUncertain` while the entry stays Running,
which the code documents as unproven.

## 6. What is not modelled, and the plan

`PROJECT.json` "components" gives the reason for each part left out. In order:

1. Managed guidance and its snapshots: preview, apply, drift, undo, against a
   file its user edits.
2. Launch gate, approval store, run table with the cap on held handles.
3. Catalog repair and a second shell process beside `Publication`.
4. Wrong root, quarantine and the ignore ledger.
5. Line framing and the line assembler as operators, against a reference
   definition that does not know about reads.
6. Proofs: `SignalsOnlyUnreaped` and `FrameTellsTheRecord` for one caller;
   `OnlyReportFollowsState` and `EntryIsReclaimed`; `CatalogStaysReadable`,
   `RegisteredIsCatalogued` and the refinement of `PublicationLife`;
   `ReplacedIsRestorable` and `OthersWritesSurvive`.
