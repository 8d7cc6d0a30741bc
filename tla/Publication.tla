----------------------------- MODULE Publication -----------------------------
(***************************************************************************)
(* The publication transaction (HAP-001): an outbox entry is approved,     *)
(* copied into the project's asset root, verified there, registered in the *)
(* project's catalog, and removed from the outbox; a journal in the work   *)
(* area tells a restart where to resume (app publication.rs and            *)
(* publication_journal.rs, src-tauri ipc/publication.rs and                *)
(* ipc/recovery.rs, adapters jsonl_*.rs and local_dir_blob_store.rs).      *)
(*                                                                         *)
(* One shell runs one command at a time: it holds the surface lock for the *)
(* command's whole body.  Beside it, the outbox changes at any moment, the *)
(* shell may die between any two steps, and between commands the policy,   *)
(* the catalog and the copies may change.  A publication is known by the   *)
(* content it publishes: its identity is a digest of the project and of    *)
(* the content's digest, and there is one project.                         *)
(***************************************************************************)
EXTENDS Naturals, Sequences, FiniteSets, FiniteSetsExt

CONSTANTS
  Contents,     \* the contents a file may have
  Names,        \* the names of outbox entries
  Files,        \* the files those names may name
  Roots,        \* asset roots
  Nothing,      \* no file, no copy, no asset root, no content
  Torn,         \* a line that does not parse
  MayTear,      \* whether an append may stop half-way
  MaxCommands,  \* bound: commands
  MaxMishaps    \* bound: I/O failures, deaths of the shell, and changes made
                \* beside it to the outbox, the catalog, the policy or a copy

ASSUME SetsAssumption == /\ Nothing \notin Contents \cup Files \cup Roots
                         /\ IsFiniteSet(Contents) /\ IsFiniteSet(Names)
ASSUME BoundsAssumption ==
  MayTear \in BOOLEAN /\ {MaxCommands, MaxMishaps} \subseteq Nat

VARIABLES
  path, bytes,  \* the outbox: the file a name names, and a file's content
  preserved,    \* the recovery entries of the work area, by content
  copies,       \* the bytes at the published place of a content, by root
  journal, catalog, \* the two files of JSON lines
  root,         \* the asset root the project's policy declares
  held,         \* the handles held since approval, by approval
  pc, job,      \* the command under way: where it is and what it is about
  line, after,  \* the journal line to append next, and where to go then
  todo,         \* the publications a recovery still has to resume
  shown,        \* what the last listing showed
  removed,      \* history: the publications whose entry the shell removed
  wasReset,     \* history: the catalog was reset
  spent         \* how much of each bound is used up

store == <<preserved, copies, journal, catalog>>
outbox == <<path, bytes>>
command == <<pc, job, line, after, todo>>
vars == <<outbox, store, root, held, command, shown, removed, wasReset, spent>>

JL == INSTANCE JsonLines

-----------------------------------------------------------------------------
(* Lines of the two files. *)

Sources == {"outbox", "recovery"}
Approval(c, r, n, source) ==
  [kind |-> "approved", pub |-> c, root |-> r, name |-> n, source |-> source]
Step(c, step, recovery) ==
  [kind |-> "step", pub |-> c, step |-> step, recovery |-> recovery,
   root |-> Nothing, name |-> Nothing]
PublishedStep(c, r, n) ==
  [Step(c, "published-local", Nothing) EXCEPT !.root = r, !.name = n]
Record(c, r, n) == [kind |-> "record", pub |-> c, root |-> r, name |-> n]
Alias(c, n) == [kind |-> "alias", pub |-> c, name |-> n]

StepNames == {"published-local", "registered", "registration-pending", "refused",
              "integrity-mismatch", "duplicate-publication", "outbox-escape",
              "outbox-linked", "removed", "cleanup-deferred"}
Approvals == [kind : {"approved"}, pub : Contents, root : Roots, name : Names,
              source : Sources]
JournalSteps == [kind : {"step"}, pub : Contents, step : StepNames,
                 recovery : Contents \cup {Nothing},
                 root : Roots \cup {Nothing}, name : Names \cup {Nothing}]
CatalogLines == [kind : {"record"}, pub : Contents, root : Roots, name : Names]
                  \cup [kind : {"alias"}, pub : Contents, name : Names]

(* The journal as a replay reads it. *)
LinesOf(file, kind) == {i \in DOMAIN file.lines : file.lines[i] # Torn
                                                   /\ file.lines[i].kind = kind}
StepsFor(c, step) ==
  {i \in LinesOf(journal, "step") : journal.lines[i].pub = c /\ journal.lines[i].step = step}
JournalReads == JL!Parses(journal)

(* Where a publication resumes: "registered", the root of its latest       *)
(* published-local, or "not-started".                                      *)
LatestCopy(c) == journal.lines[Max(StepsFor(c, "published-local"))]

(* A mutant of ResumePoint: any later step undoes the copy. *)
ResumePointOfLastStep(c) ==
  LET of == {i \in LinesOf(journal, "step") : journal.lines[i].pub = c} IN
  IF StepsFor(c, "registered") # {} THEN "registered"
  ELSE IF of = {} \/ journal.lines[Max(of)].step # "published-local" THEN "not-started"
  ELSE LatestCopy(c).root

ResumePoint(c) ==
  IF StepsFor(c, "registered") # {} THEN "registered"
  ELSE IF StepsFor(c, "published-local") = {} THEN "not-started"
  ELSE LatestCopy(c).root

(* A mutant of PendingRegistrations: only those of the project's asset root. *)
PendingHere == {c \in Contents : ResumePoint(c) = root}

PendingRegistrations == {c \in Contents : ResumePoint(c) \in Roots}

(* The catalog as a replay reads it: it fails on a second record of one    *)
(* publication and on an alias no earlier record carries.                  *)
RecordsOf(c) == {i \in LinesOf(catalog, "record") : catalog.lines[i].pub = c}

(* A mutant of InCatalog: a record in another asset root does not count. *)
InCatalogHere(c) == \E i \in RecordsOf(c) : catalog.lines[i].root = root

InCatalog(c) == RecordsOf(c) # {}
NamesOf(c) == {catalog.lines[i].name :
                 i \in {j \in DOMAIN catalog.lines : catalog.lines[j] # Torn
                                                     /\ catalog.lines[j].pub = c}}
CatalogReads ==
  /\ JL!Parses(catalog)
  /\ \A c \in Contents : Cardinality(RecordsOf(c)) <= 1
  /\ \A i \in LinesOf(catalog, "alias") :
       \E j \in RecordsOf(catalog.lines[i].pub) : j < i

-----------------------------------------------------------------------------
(* The parts the steps are built from. *)

NoJob == [id |-> 0, pub |-> Nothing, root |-> Nothing, name |-> Nothing,
          label |-> Nothing, source |-> Nothing, handle |-> Nothing, resumes |-> FALSE]
NoLine == Nothing

(* The handle of a recovery entry, whose file nobody else touches. *)
Recovered == "recovered"

BytesOf(handle) == IF handle = Recovered THEN job.pub ELSE bytes[handle]
LinkCount(f) == Cardinality({n \in Names : path[n] = f})
EntryIsHandle == path[job.name] = job.handle
CopyVerifies(c, r) == copies[r][c] = c

Mishap == spent.mishaps < MaxMishaps /\ spent' = [spent EXCEPT !.mishaps = @ + 1]

Goto(where) == pc' = where /\ UNCHANGED <<line, after>>

(* The command ends: its body returns and the surface lock with it. *)
End == /\ pc' = "idle" /\ job' = NoJob /\ line' = NoLine /\ after' = "idle"
       /\ todo' = {}

(* Append l to the journal next, and then go to where. *)
Note(l, where) == pc' = "noting" /\ line' = l /\ after' = where

NoteStep(step, where) == Note(Step(job.pub, step, Nothing), where)

(* fail: the step is journaled, and the command ends with its error. *)
Fail(step) == NoteStep(step, "idle") /\ UNCHANGED <<job, todo>>

(* Where a transaction goes on once one publication is done with: a        *)
(* recovery takes the next one.                                            *)
Onward == IF job.resumes THEN "resuming" ELSE "idle"

-----------------------------------------------------------------------------
Init ==
  /\ path \in [Names -> Files \cup {Nothing}] /\ bytes \in [Files -> Contents]
  /\ preserved = {} /\ copies = [r \in Roots |-> [c \in Contents |-> Nothing]]
  /\ journal = JL!NewFile /\ catalog = JL!NewFile
  /\ root \in Roots
  /\ held = << >>
  /\ pc = "idle" /\ job = NoJob /\ line = NoLine /\ after = "idle" /\ todo = {}
  /\ shown = [c \in Contents |-> "nothing"]
  /\ removed = {}
  /\ wasReset = FALSE
  /\ spent = [commands |-> 0, mishaps |-> 0]

-----------------------------------------------------------------------------
(* Appending to the journal: every step is journaled before the next one   *)
(* runs, and a failed append ends the command with its error.              *)

Noted ==
  /\ pc = "noting"
  /\ journal' = JL!Written(journal, line)
  /\ IF after = "idle" THEN End
     ELSE pc' = after /\ line' = NoLine /\ after' = "idle" /\ UNCHANGED <<job, todo>>
  /\ UNCHANGED <<outbox, preserved, copies, catalog, root, held, shown, removed, wasReset, spent>>

NoteFails ==
  /\ pc = "noting" /\ Mishap
  /\ journal' \in JL!Failed(journal, line)
  /\ End
  /\ UNCHANGED <<outbox, preserved, copies, catalog, root, held, shown, removed, wasReset>>

-----------------------------------------------------------------------------
(* Approving: the entry is opened once, its facts bind the approval, and   *)
(* the handle stays held for the publication while the cap has room.       *)

MayStart == pc = "idle" /\ spent.commands < MaxCommands /\ JournalReads

Approve(n) ==
  /\ MayStart /\ root # Nothing
  /\ path[n] # Nothing /\ LinkCount(path[n]) = 1
  /\ LET c == bytes[path[n]] IN
       /\ job' = [NoJob EXCEPT !.pub = c, !.name = n, !.handle = path[n]]
       /\ Note(Approval(c, root, n, "outbox"), "holding")
  /\ spent' = [spent EXCEPT !.commands = @ + 1]
  /\ UNCHANGED <<outbox, store, root, held, todo, shown, removed, wasReset>>

(* A recovery entry is known by the outbox-escape step that preserved it,  *)
(* and carries the escaped publication's earliest name.                    *)
ApproveRecovered(c) ==
  /\ MayStart /\ root # Nothing
  /\ c \in preserved
  /\ \E i \in LinesOf(journal, "step") :
       /\ journal.lines[i].recovery = c
       /\ \A j \in LinesOf(journal, "step") : journal.lines[j].recovery = c => i <= j
       /\ LET named == {j \in LinesOf(journal, "approved") :
                          journal.lines[j].pub = journal.lines[i].pub}
              n == journal.lines[Min(named)].name
          IN /\ job' = [NoJob EXCEPT !.pub = c, !.name = n, !.handle = Recovered]
             /\ Note(Approval(c, root, n, "recovery"), "holding")
  /\ spent' = [spent EXCEPT !.commands = @ + 1]
  /\ UNCHANGED <<outbox, store, root, held, todo, shown, removed, wasReset>>

(* The approval just journaled, and a mutant of it: the next one. *)
NextApprovalId == Len(journal.lines) + 1

ApprovalId == Len(journal.lines)

Hold ==
  /\ pc = "holding"
  /\ \/ held' = [i \in DOMAIN held \cup {ApprovalId} |->
                  IF i \in DOMAIN held THEN held[i] ELSE job.handle]
     \/ UNCHANGED held
  /\ End
  /\ UNCHANGED <<outbox, store, root, shown, removed, wasReset, spent>>

-----------------------------------------------------------------------------
(* Publishing an approval. *)

Publish(i) ==
  /\ MayStart
  /\ i \in LinesOf(journal, "approved")
  /\ LET a == journal.lines[i] IN
       job' = [NoJob EXCEPT !.id = i, !.pub = a.pub, !.root = a.root,
                            !.name = a.name, !.source = a.source]
  /\ Goto("acknowledging")
  /\ spent' = [spent EXCEPT !.commands = @ + 1]
  /\ UNCHANGED <<outbox, store, root, held, todo, shown, removed, wasReset>>

(* A mutant of Acknowledge: a held handle goes straight on. *)
AcknowledgeUnlessHeld ==
  /\ pc = "acknowledging"
  /\ \/ /\ job.id \notin DOMAIN held /\ CatalogReads /\ InCatalog(job.pub)
        /\ Fail("duplicate-publication")
     \/ /\ job.id \in DOMAIN held \/ ~InCatalog(job.pub)
        /\ Goto("acquiring") /\ UNCHANGED <<job, todo>>
  /\ UNCHANGED <<outbox, store, root, held, shown, removed, wasReset, spent>>

(* A publication the catalog has is acknowledged: its name becomes an      *)
(* alias if it is a new one.  A catalog that cannot be read ends it.       *)
Acknowledge ==
  /\ pc = "acknowledging"
  /\ \/ /\ ~CatalogReads
        /\ End
     \/ /\ CatalogReads /\ ~InCatalog(job.pub)
        /\ Goto("acquiring") /\ UNCHANGED <<job, todo>>
     \/ /\ CatalogReads /\ InCatalog(job.pub)
        /\ IF job.name \in NamesOf(job.pub) THEN Fail("duplicate-publication")
           ELSE Goto("aliasing") /\ UNCHANGED <<job, todo>>
  /\ UNCHANGED <<outbox, store, root, held, shown, removed, wasReset, spent>>

AddAlias ==
  /\ pc = "aliasing"
  /\ \/ /\ catalog' = JL!Written(catalog, Alias(job.pub, job.name))
        /\ Fail("duplicate-publication")
        /\ UNCHANGED spent
     \/ /\ Mishap
        /\ catalog' \in JL!Failed(catalog, Alias(job.pub, job.name))
        /\ End
  /\ UNCHANGED <<outbox, preserved, copies, journal, root, held, shown, removed, wasReset>>

(* The handle held since approval, or the entry opened again, whose facts  *)
(* must equal the approved ones.                                           *)
Acquire ==
  /\ pc = "acquiring"
  /\ IF job.id \in DOMAIN held
     THEN /\ job' = [job EXCEPT !.handle = held[job.id]]
          /\ held' = [i \in DOMAIN held \ {job.id} |-> held[i]]
          /\ Goto("resolving") /\ UNCHANGED todo
     ELSE /\ UNCHANGED held
          /\ LET f == IF job.source = "recovery" THEN Recovered ELSE path[job.name] IN
             IF f = Nothing THEN Fail("refused")
             ELSE IF f # Recovered /\ LinkCount(f) > 1 THEN Fail("outbox-linked")
             ELSE IF BytesOf(f) # job.pub THEN Fail("refused")
             ELSE /\ job' = [job EXCEPT !.handle = f]
                  /\ Goto("resolving") /\ UNCHANGED todo
  /\ UNCHANGED <<outbox, store, root, shown, removed, wasReset, spent>>

(* The entry cannot be read when it is opened again. *)
AcquireFails ==
  /\ pc = "acquiring" /\ job.id \notin DOMAIN held
  /\ Mishap
  /\ Fail("refused")
  /\ UNCHANGED <<outbox, store, root, held, shown, removed, wasReset>>

(* A journaled copy that still verifies is registered with the record the  *)
(* journal carries; anything else is published again from the handle.      *)
Resumable == ResumePoint(job.pub) = job.root /\ CopyVerifies(job.pub, job.root)

Resolve ==
  /\ pc = "resolving"
  /\ \/ /\ Resumable
        /\ job' = [job EXCEPT !.label = LatestCopy(job.pub).name]
        /\ Goto("registering") /\ UNCHANGED <<todo, spent>>
     \/ /\ ~Resumable
        /\ Goto("checking") /\ UNCHANGED <<job, todo, spent>>
     \/ /\ Mishap /\ End
  /\ UNCHANGED <<outbox, store, root, held, shown, removed, wasReset>>

(* The handle's link count, then whether the path still names its file.    *)
Check ==
  /\ pc = "checking"
  /\ IF job.handle = Recovered THEN Goto("streaming") /\ UNCHANGED <<job, todo>>
     ELSE IF LinkCount(job.handle) > 1 THEN Fail("outbox-linked")
     ELSE IF EntryIsHandle THEN Goto("streaming") /\ UNCHANGED <<job, todo>>
     ELSE Goto("preserving") /\ UNCHANGED <<job, todo>>
  /\ UNCHANGED <<outbox, store, root, held, shown, removed, wasReset, spent>>

(* An escaped entry's bytes, as the handle has them now, become a recovery *)
(* entry; a failure to write it is journaled with no recovery.             *)
Preserve ==
  /\ pc = "preserving"
  /\ \/ /\ preserved' = preserved \cup {bytes[job.handle]}
        /\ Note(Step(job.pub, "outbox-escape", bytes[job.handle]), "idle")
        /\ UNCHANGED spent
     \/ /\ Mishap
        /\ NoteStep("outbox-escape", "idle")
        /\ UNCHANGED preserved
  /\ UNCHANGED <<outbox, copies, journal, catalog, root, held, job, todo, shown, removed, wasReset>>

(* The bytes are streamed from the handle into a staging file and digested *)
(* on the way; another digest than the approved one aborts the stage.      *)
Stream ==
  /\ pc = "streaming"
  /\ \/ /\ BytesOf(job.handle) # job.pub
        /\ Fail("integrity-mismatch") /\ UNCHANGED spent
     \/ /\ BytesOf(job.handle) = job.pub
        /\ Goto("committing") /\ UNCHANGED <<job, todo, spent>>
     \/ /\ Mishap /\ End
  /\ UNCHANGED <<outbox, store, root, held, shown, removed, wasReset>>

(* The staging file is renamed over the published place.  The fault that   *)
(* matters is a disk that does not keep the bytes it was given.            *)
Commit ==
  /\ pc = "committing"
  /\ \/ /\ copies' = [copies EXCEPT ![job.root][job.pub] = job.pub]
        /\ Goto("verifying") /\ UNCHANGED <<job, todo, spent>>
     \/ /\ Mishap
        /\ \E kept \in {Nothing} \cup (Contents \ {job.pub}) :
             copies' = [copies EXCEPT ![job.root][job.pub] = kept]
        /\ Goto("verifying") /\ UNCHANGED <<job, todo>>
     \/ /\ Mishap /\ End
        /\ UNCHANGED copies
  /\ UNCHANGED <<outbox, preserved, journal, catalog, root, held, shown, removed, wasReset>>

(* A mutant of Verify: a copy that verifies is registered at once. *)
VerifyUnnoted ==
  /\ pc = "verifying"
  /\ IF CopyVerifies(job.pub, job.root)
     THEN Goto("registering") /\ job' = [job EXCEPT !.label = job.name]
     ELSE Goto("discarding") /\ UNCHANGED job
  /\ UNCHANGED <<outbox, store, root, held, todo, shown, removed, wasReset, spent>>

(* The copy is read back; only one that has the approved digest is         *)
(* journaled as published.                                                 *)
Verify ==
  /\ pc = "verifying"
  /\ \/ /\ CopyVerifies(job.pub, job.root)
        /\ Note(PublishedStep(job.pub, job.root, job.name), "registering")
        /\ job' = [job EXCEPT !.label = job.name]
     \/ /\ ~CopyVerifies(job.pub, job.root)
        /\ Goto("discarding") /\ UNCHANGED job
  /\ UNCHANGED <<outbox, store, root, held, todo, shown, removed, wasReset, spent>>

Discard ==
  /\ pc = "discarding"
  /\ \/ copies' = [copies EXCEPT ![job.root][job.pub] = Nothing] /\ UNCHANGED spent
     \/ Mishap /\ UNCHANGED copies
  /\ Fail("integrity-mismatch")
  /\ UNCHANGED <<outbox, preserved, journal, catalog, root, held, shown, removed, wasReset>>

-----------------------------------------------------------------------------
(* Registering, in a publication and in a recovery. *)

(* Where the transaction goes once the publication is registered. *)
Registered == NoteStep("registered", IF job.resumes THEN "deferring" ELSE "cleaning")

(* A mutant of NotRegistered: the entry is cleaned up all the same. *)
PendingButCleaned == NoteStep("registration-pending", "cleaning")

NotRegistered == NoteStep("registration-pending", Onward)

(* A mutant of Register: registered is journaled before the record. *)
RegisterNotedFirst ==
  /\ pc = "registering"
  /\ IF ~CatalogReads THEN NotRegistered
     ELSE IF InCatalog(job.pub) THEN Registered
     ELSE NoteStep("registered", "entering")
  /\ UNCHANGED <<outbox, store, root, held, job, todo, shown, removed, wasReset, spent>>

(* The catalog is replayed: a record that is there already counts as       *)
(* registered, and a catalog that does not read as a failed write.         *)
Register ==
  /\ pc = "registering"
  /\ IF ~CatalogReads THEN NotRegistered
     ELSE IF InCatalog(job.pub) THEN Registered
     ELSE Goto("entering")
  /\ UNCHANGED <<outbox, store, root, held, job, todo, shown, removed, wasReset, spent>>

Enter ==
  /\ pc = "entering"
  /\ LET record == Record(job.pub, job.root, job.label) IN
       \/ /\ catalog' = JL!Written(catalog, record)
          /\ Registered /\ UNCHANGED spent
       \/ /\ Mishap
          /\ catalog' \in JL!Failed(catalog, record)
          /\ NotRegistered
  /\ UNCHANGED <<outbox, preserved, copies, journal, root, held, job, todo, shown, removed, wasReset>>

-----------------------------------------------------------------------------
(* Cleaning up: the entry is removed only after both steps, and only while *)
(* its path still names the handle's file; a recovery entry is kept.       *)

Clean ==
  /\ pc = "cleaning"
  /\ \/ /\ job.source = "outbox" /\ EntryIsHandle
        /\ Goto("unlinking")
     \/ /\ ~(job.source = "outbox" /\ EntryIsHandle)
        /\ NoteStep("cleanup-deferred", "idle")
  /\ UNCHANGED <<outbox, store, root, held, job, todo, shown, removed, wasReset, spent>>

(* The name is unlinked, whatever it names by now. *)
Unlink ==
  /\ pc = "unlinking"
  /\ \/ /\ path[job.name] # Nothing
        /\ path' = [path EXCEPT ![job.name] = Nothing]
        /\ removed' = removed \cup {job.pub}
        /\ NoteStep("removed", "idle") /\ UNCHANGED spent
     \/ /\ path[job.name] = Nothing
        /\ NoteStep("cleanup-deferred", "idle") /\ UNCHANGED <<path, removed, spent>>
     \/ /\ Mishap
        /\ NoteStep("cleanup-deferred", "idle") /\ UNCHANGED <<path, removed>>
  /\ UNCHANGED <<bytes, store, root, held, job, todo, shown, wasReset>>

-----------------------------------------------------------------------------
(* Listing: first every interrupted publication is resumed through the     *)
(* project's asset root, then the catalog and what is still pending are    *)
(* shown.                                                                  *)

List ==
  /\ MayStart
  /\ IF root = Nothing THEN Goto("listing") /\ UNCHANGED <<job, todo>>
     ELSE /\ Goto("resuming")
          /\ job' = [NoJob EXCEPT !.resumes = TRUE]
          /\ todo' = PendingRegistrations
  /\ spent' = [spent EXCEPT !.commands = @ + 1]
  /\ UNCHANGED <<outbox, store, root, held, shown, removed, wasReset>>

(* What a recovery goes on with after a copy it cannot use: the next one.   *)
(* A mutant of it: nothing, as if recover returned there.                  *)
NothingMore == "listing"

NextPending == "resuming"

(* The record to register is the one its published-local step carries; a   *)
(* copy in another asset root cannot be verified through this one.         *)
Resume ==
  /\ pc = "resuming"
  /\ \/ /\ todo = {} /\ Goto("listing") /\ UNCHANGED <<job, todo>>
     \/ \E c \in todo :
          LET copy == LatestCopy(c) IN
          /\ todo' = todo \ {c}
          /\ job' = [job EXCEPT !.pub = c, !.root = copy.root, !.label = copy.name]
          /\ IF copy.root = root /\ CopyVerifies(c, root) THEN Goto("registering")
             ELSE Note(Step(c, "integrity-mismatch", Nothing), NextPending)
  /\ UNCHANGED <<outbox, store, root, held, shown, removed, wasReset, spent>>

(* No handle survives a restart: the entry stays, and that is journaled.   *)
Defer ==
  /\ pc = "deferring"
  /\ NoteStep("cleanup-deferred", "resuming")
  /\ UNCHANGED <<outbox, store, root, held, job, todo, shown, removed, wasReset, spent>>

Show ==
  /\ pc = "listing"
  /\ shown' = IF JournalReads /\ CatalogReads
              THEN [c \in Contents |-> IF InCatalog(c) THEN "registered"
                                       ELSE IF c \in PendingRegistrations THEN "pending"
                                       ELSE "nothing"]
              ELSE shown
  /\ End
  /\ UNCHANGED <<outbox, store, root, held, removed, wasReset, spent>>

-----------------------------------------------------------------------------
(* What happens beside the commands. *)

(* The shell dies, perhaps during an append, and comes back: the handles   *)
(* are gone.                                                               *)
Crash ==
  /\ Mishap
  /\ journal' \in IF pc = "noting" THEN JL!Interrupted(journal, line) ELSE {journal}
  /\ catalog' \in CASE pc = "entering" -> JL!Interrupted(catalog, Record(job.pub, job.root, job.label))
                     [] pc = "aliasing" -> JL!Interrupted(catalog, Alias(job.pub, job.name))
                     [] OTHER -> {catalog}
  /\ held' = << >> /\ End
  /\ UNCHANGED <<outbox, preserved, copies, root, shown, removed, wasReset>>

(* Any process may rename, link, create or remove an entry, or rewrite a   *)
(* file in place.                                                          *)
Meddle ==
  /\ Mishap
  /\ \/ /\ \E n \in Names, f \in Files \cup {Nothing} :
             f # path[n] /\ path' = [path EXCEPT ![n] = f]
        /\ UNCHANGED bytes
     \/ /\ \E f \in Files, c \in Contents : c # bytes[f] /\ bytes' = [bytes EXCEPT ![f] = c]
        /\ UNCHANGED path
  /\ UNCHANGED <<store, root, held, command, shown, removed, wasReset>>

(* The project's catalog is reset: it is an ordinary file of the project.  *)
ResetCatalog ==
  /\ pc = "idle" /\ catalog # JL!NewFile
  /\ Mishap
  /\ catalog' = JL!NewFile /\ wasReset' = TRUE
  /\ UNCHANGED <<outbox, preserved, copies, journal, root, held, command, shown, removed>>

(* The policy declares another asset root or none, or a copy is lost or    *)
(* altered.                                                                *)
Shift ==
  /\ pc = "idle"
  /\ Mishap
  /\ \/ root' \in (Roots \cup {Nothing}) \ {root} /\ UNCHANGED copies
     \/ /\ \E r \in Roots, c \in Contents, b \in Contents \cup {Nothing} :
             /\ copies[r][c] \notin {b, Nothing}
             /\ copies' = [copies EXCEPT ![r][c] = b]
        /\ UNCHANGED root
  /\ UNCHANGED <<outbox, preserved, journal, catalog, held, command, shown, removed, wasReset>>

-----------------------------------------------------------------------------
(* The command under way, and everything that may start or happen. *)

Work ==
  \/ Noted \/ NoteFails \/ Hold
  \/ Acknowledge \/ AddAlias \/ Acquire \/ AcquireFails \/ Resolve \/ Check \/ Preserve
  \/ Stream \/ Commit \/ Verify \/ Discard
  \/ Register \/ Enter \/ Clean \/ Unlink
  \/ Resume \/ Defer \/ Show

Next ==
  \/ Work
  \/ \E n \in Names : Approve(n)
  \/ \E c \in Contents : ApproveRecovered(c)
  \/ \E i \in DOMAIN journal.lines : Publish(i)
  \/ List
  \/ Crash \/ Meddle \/ ResetCatalog \/ Shift

Spec == Init /\ [][Next]_vars

(* A command runs on its own thread until it returns. *)
FairSpec == Spec /\ WF_vars(Work)

-----------------------------------------------------------------------------
(* Properties. *)

PCs == {"idle", "noting", "holding", "acknowledging", "aliasing", "acquiring", "resolving",
        "checking", "preserving", "streaming", "committing", "verifying", "discarding",
        "registering", "entering", "cleaning", "unlinking", "resuming", "deferring", "listing"}
Handles == Files \cup {Recovered}

(* The type of every variable. *)
TypeOK ==
  /\ path \in [Names -> Files \cup {Nothing}] /\ bytes \in [Files -> Contents]
  /\ preserved \subseteq Contents
  /\ copies \in [Roots -> [Contents -> Contents \cup {Nothing}]]
  /\ journal.lines \in Seq(Approvals \cup JournalSteps \cup {Torn})
  /\ catalog.lines \in Seq(CatalogLines \cup {Torn})
  /\ journal.unended \in BOOLEAN /\ catalog.unended \in BOOLEAN
  /\ root \in Roots \cup {Nothing}
  /\ DOMAIN held \subseteq DOMAIN journal.lines /\ \A i \in DOMAIN held : held[i] \in Handles
  /\ pc \in PCs /\ after \in PCs /\ line \in Approvals \cup JournalSteps \cup {NoLine}
  /\ job \in [id : Nat, pub : Contents \cup {Nothing}, root : Roots \cup {Nothing},
              name : Names \cup {Nothing}, label : Names \cup {Nothing},
              source : Sources \cup {Nothing}, handle : Handles \cup {Nothing},
              resumes : BOOLEAN]
  /\ todo \subseteq Contents
  /\ shown \in [Contents -> {"nothing", "pending", "registered"}]
  /\ removed \subseteq Contents
  /\ wasReset \in BOOLEAN
  /\ spent \in [commands : Nat, mishaps : Nat]

(* One publication has one record: as long as its lines parse, the catalog *)
(* reads, whatever command a death or a failed write cut short.            *)
CatalogStaysReadable == JL!Parses(catalog) => CatalogReads

(* Nothing is completed falsely: while no append tore and the catalog was  *)
(* not reset, a publication the journal calls registered is in it.         *)
RegisteredIsCatalogued ==
  (~wasReset /\ JL!Parses(catalog))
     => \A c \in Contents : StepsFor(c, "registered") # {} => InCatalog(c)

(* An entry is removed from the outbox only when its publication has its   *)
(* record in a catalog that reads and its copy has the approved digest.    *)
RemovedIsRegistered ==
  [][(Unlink /\ path' # path) =>
       /\ CatalogReads /\ InCatalog(job.pub)
       /\ \E r \in Roots : CopyVerifies(job.pub, r)]_vars

(* No command damages or discards the good copy a record points at.        *)
RecordsKeepTheirCopy ==
  [][Work => \A i \in LinesOf(catalog, "record") :
               LET c == catalog.lines[i].pub  r == catalog.lines[i].root IN
               CopyVerifies(c, r) => copies'[r][c] = c]_vars

(* A publication that stopped between its verified copy and its record:    *)
(* the later of its published-local and registered steps is the former.    *)
Unfinished(c) ==
  /\ StepsFor(c, "published-local") # {} /\ ~InCatalog(c)
  /\ \A i \in StepsFor(c, "registered") : i < Max(StepsFor(c, "published-local"))

(* A listing shows every unfinished publication as pending, wherever its   *)
(* copy is now, until the catalog is reset ...                             *)
UnfinishedIsShown ==
  [][(Show /\ JournalReads /\ CatalogReads) =>
       \A c \in Contents : (Unfinished(c) /\ ~wasReset) => shown'[c] = "pending"]_vars

(* ... and after a reset too, says HAP-001-R29. *)
UnfinishedIsAlwaysShown ==
  [][(Show /\ JournalReads /\ CatalogReads) =>
       \A c \in Contents : Unfinished(c) => shown'[c] = "pending"]_vars

(* A listing that starts when nothing goes wrong any more registers every  *)
(* unfinished publication whose copy verifies in the project's asset root, *)
(* those behind one whose copy does not included (recover).                *)
ListingFinishesThem ==
  \A c \in Contents :
    (/\ pc = "resuming" /\ job.pub = Nothing
     /\ spent.mishaps = MaxMishaps /\ ~wasReset
     /\ CatalogReads /\ ~catalog.unended
     /\ Unfinished(c) /\ LatestCopy(c).root = root /\ CopyVerifies(c, root))
       ~> InCatalog(c)

(* The durable record goes through the stages of PublicationLife, whatever *)
(* dies and whatever fails.                                                *)
Stage(c) == IF InCatalog(c) THEN "registered"
            ELSE IF StepsFor(c, "published-local") # {} THEN "published-local"
            ELSE "new"
Life == INSTANCE PublicationLife
          WITH Publications <- Contents, stage <- [c \in Contents |-> Stage(c)],
               cleaned <- removed
LifeSpec == Life!Spec
=============================================================================
