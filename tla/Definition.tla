----------------------------- MODULE Definition -----------------------------
(***************************************************************************)
(* Applying a previewed definition plan (ADR-0005; app definition_apply.rs *)
(* and snapshot_store.rs, adapters fs_definition_writer.rs,                *)
(* fs_snapshot_store.rs and fs_apply_record.rs, src-tauri                  *)
(* ipc/definition.rs).                                                     *)
(*                                                                         *)
(* A preview shows a plan and its id; an apply names that id, plans again  *)
(* from the disk, and writes the files one at a time: check every input,   *)
(* snapshot the file, verify it twice around the temporary file, publish   *)
(* it, read it back, check every input again.  The surface lock admits one *)
(* apply at a time; a preview takes no lock, and the user's editor, a      *)
(* harness or another shell may write at any moment.  One directory is     *)
(* modelled, and one reading of it is one step.                            *)
(***************************************************************************)
EXTENDS DefinitionPlan, FiniteSets, Functions

CONSTANTS
  Sites,       \* the directory at first: its files and its surroundings
  Drafts,      \* what anybody else may leave in one of its files
  MaxUnpinned, \* unpinned snapshots kept for a file (5 in the code)
  MaxApplies,  \* bound: applies that begin to write
  MaxEdits,    \* bound: changes made beside the shell
  MaxMishaps   \* bound: failed reads and writes, and deaths of the shell

ASSUME BoundsAssumption ==
  /\ MaxUnpinned \in Nat \ {0}
  /\ {MaxApplies, MaxEdits, MaxMishaps} \subseteq Nat
ASSUME SitesAssumption ==
  /\ Sites \subseteq [files : [Kinds -> FileValues], skills : SUBSET Skills, nested : BOOLEAN]
  /\ Drafts \subseteq FileValues

VARIABLES
  files,      \* the identity files of the directory
  skills,     \* the skill files the directory's own tree holds
  nested,     \* whether another agent encloses the directory
  snapshots,  \* the snapshots of each file, oldest first by their clock
  record,     \* the last apply record stored
  shown,      \* the last preview that gave an id: its request and its plan
  run,        \* the apply under way
  outcome,    \* how the last apply since that preview ended
  spent       \* how much of each bound is used up

site == <<files, skills, nested>>
store == <<snapshots, record>>
vars == <<site, store, shown, run, outcome, spent>>

NoRun == [pc |-> "idle"]
Nothing == [k \in Kinds |-> Absent]
NoPreview == [request |-> CHOOSE o \in Requests : TRUE, plan |-> Refused("unseen", Nothing)]
NoRecord == [inputs |-> Nothing, files |-> <<>>]

Spend(bound) == spent' = [spent EXCEPT ![bound] = @ + 1]

Init ==
  /\ \E at \in Sites : files = at.files /\ skills = at.skills /\ nested = at.nested
  /\ snapshots = [k \in Kinds |-> <<>>]
  /\ record = NoRecord
  /\ shown = NoPreview
  /\ run = NoRun
  /\ outcome = "none"
  /\ spent = [applies |-> 0, edits |-> 0, mishaps |-> 0]

-----------------------------------------------------------------------------
(* Preview and the start of an apply. *)

PlanNow(o) == Plan(files, skills, nested, o)

(* A refused preview gives no id to apply.  A preview takes no lock: one   *)
(* taken while a run is under way is modelled where the run has ended,     *)
(* because no run reads it and it shows the same files.                    *)
Preview(o) ==
  /\ run = NoRun
  /\ PlanNow(o).verdict = "planned"
  /\ shown' = [request |-> o, plan |-> PlanNow(o)]
  /\ shown' # shown
  /\ outcome' = "none"
  /\ UNCHANGED <<site, store, run, spent>>

(* expected: the preview the id was copied from.  reached, alone and late  *)
(* are history: the directory was as the run promises since it last wrote, *)
(* nobody else changed it since the run began, and a file changed after    *)
(* the last look at the target and before the publish.                     *)
Begin(plan) ==
  [pc |-> "check", request |-> shown.request, plan |-> plan,
   expected |-> shown.plan, next |-> 1, inputs |-> plan.inputs, applied |-> <<>>,
   reached |-> TRUE, alone |-> TRUE, late |-> FALSE]

ApplyIsRefused(plan) ==
  /\ outcome' = IF plan.verdict # "planned" THEN plan.verdict
                ELSE IF plan # shown.plan THEN "stale" ELSE "no-op"
  /\ UNCHANGED <<run, spent>>

StartApply ==
  /\ run = NoRun
  /\ shown.plan.verdict = "planned"
  /\ LET plan == PlanNow(shown.request)
     IN IF plan = shown.plan /\ plan.ops # <<>>
        THEN /\ spent.applies < MaxApplies
             /\ run' = Begin(plan)
             /\ outcome' = "none"
             /\ Spend("applies")
        ELSE ApplyIsRefused(plan)
  /\ UNCHANGED <<site, store, shown>>

(* A live harness run refuses the apply before it plans anything. *)
HarnessIsRunning ==
  /\ run = NoRun
  /\ outcome' = "run-active"
  /\ UNCHANGED <<site, store, shown, run, spent>>

-----------------------------------------------------------------------------
(* The steps of a run. *)

Op == run.plan.ops[run.next]

End(how) ==
  /\ run' = NoRun
  /\ outcome' = how

Moves(pc) ==
  /\ run' = [run EXCEPT !.pc = pc]
  /\ UNCHANGED outcome

(* A mutant of InputsHold: only the file to write is looked at. *)
TargetHolds == files[Op.path] = run.inputs[Op.path]

InputsHold == files = run.inputs

FirstTouch == ~ \E i \in DOMAIN run.applied : run.applied[i].path = Op.path

(* A snapshot is not stored again when the newest one is the same.  The    *)
(* store orders snapshots by the wall clock: a clock that moves forward    *)
(* makes a new one the newest.                                             *)
Deduplicated(kept, file) == kept # <<>> /\ Last(kept) = file

(* Two mutants of Pruned: nothing is pruned, and the newest is. *)
NeverPruned(kept) == kept
PrunedFromTheEnd(kept) == IF Len(kept) <= MaxUnpinned THEN kept ELSE SubSeq(kept, 1, MaxUnpinned)

Pruned(kept) ==
  IF Len(kept) <= MaxUnpinned THEN kept
  ELSE SubSeq(kept, Len(kept) - MaxUnpinned + 1, Len(kept))

(* The snapshot of k's file is stored, beside the ones not pruned. *)
StoreSnapshot(k, file) ==
  \/ /\ Deduplicated(snapshots[k], file)
     /\ UNCHANGED snapshots
  \/ /\ ~Deduplicated(snapshots[k], file)
     /\ snapshots' = [snapshots EXCEPT ![k] = Pruned(Append(@, file))]

(* Only a regular file is snapshotted, and only before its first write. *)
SnapshotDue == FirstTouch /\ IsRegular(files[Op.path])

CheckAndSnapshot ==
  /\ run.pc = "check"
  /\ IF ~InputsHold THEN End("stale") /\ UNCHANGED snapshots
     ELSE /\ Moves("verify")
          /\ IF SnapshotDue THEN StoreSnapshot(Op.path, files[Op.path])
             ELSE UNCHANGED snapshots
  /\ UNCHANGED <<site, record, shown, spent>>

(* The bytes or the manifest are not stored, or an old snapshot cannot be  *)
(* deleted after the new one was stored.                                   *)
SnapshotFails ==
  /\ run.pc = "check" /\ InputsHold /\ SnapshotDue
  /\ ~Deduplicated(snapshots[Op.path], files[Op.path])
  /\ spent.mishaps < MaxMishaps
  /\ \/ UNCHANGED snapshots
     \/ LET kept == Append(snapshots[Op.path], files[Op.path])
        IN /\ Pruned(kept) # kept
           /\ snapshots' = [snapshots EXCEPT ![Op.path] = kept]
  /\ End("snapshot-unavailable")
  /\ Spend("mishaps")
  /\ UNCHANGED <<site, record, shown>>

(* The target is verified before its temporary file is written and again   *)
(* after it, when nothing else stands between it and the publish.          *)
VerifyTarget(at, then) ==
  /\ run.pc = at
  /\ IF files[Op.path] = Op.before THEN Moves(then)
     ELSE End(IF IsRegular(Op.before) /\ files[Op.path] \in {Link, Odd}
              THEN "write-failed" ELSE "stale")
  /\ UNCHANGED <<site, store, shown, spent>>

Verify == VerifyTarget("verify", "recheck")

(* A mutant of Recheck: the first look is trusted. *)
TrustTheFirst ==
  /\ run.pc = "recheck"
  /\ Moves("publish")
  /\ UNCHANGED <<site, store, shown, spent>>

Recheck == VerifyTarget("recheck", "publish")

(* A create links the temporary file, which fails over anything already    *)
(* there; a replacement renames it over whatever is there by now.          *)
Publish ==
  /\ run.pc = "publish"
  /\ IF Op.before = Absent /\ files[Op.path] # Absent
     THEN End("stale") /\ UNCHANGED files
     ELSE /\ files' = [files EXCEPT ![Op.path] = Op.after]
          /\ run' = [run EXCEPT !.pc = "read back", !.late = FALSE,
                       !.reached = files' = [run.inputs EXCEPT ![Op.path] = Op.after]]
          /\ UNCHANGED outcome
  /\ UNCHANGED <<skills, nested, store, shown, spent>>

ReadBack ==
  /\ run.pc = "read back"
  /\ IF files[Op.path] = Op.after
     THEN /\ run' = [run EXCEPT !.pc = "settle", !.inputs[Op.path] = Op.after]
          /\ UNCHANGED outcome
     ELSE End("write-failed")
  /\ UNCHANGED <<site, store, shown, spent>>

(* The file's entry in the record keeps its first before and takes the     *)
(* last after.                                                             *)
Entered ==
  IF FirstTouch
  THEN Append(run.applied, [path |-> Op.path, before |-> Op.before, after |-> Op.after])
  ELSE [i \in DOMAIN run.applied |->
          IF run.applied[i].path = Op.path
          THEN [run.applied[i] EXCEPT !.after = Op.after] ELSE run.applied[i]]

Settle ==
  /\ run.pc = "settle"
  /\ IF InputsHold
     THEN /\ run' = [run EXCEPT
                !.pc = IF run.next = Len(run.plan.ops) THEN "record" ELSE "check",
                !.applied = Entered, !.next = @ + 1]
          /\ UNCHANGED outcome
     ELSE End("stale")
  /\ UNCHANGED <<site, store, shown, spent>>

Record ==
  /\ run.pc = "record"
  /\ record' = [inputs |-> run.plan.inputs, files |-> run.applied]
  /\ End("applied")
  /\ UNCHANGED <<site, snapshots, shown, spent>>

(* A read or a write fails, or the shell dies: the files written so far    *)
(* stay, and nothing is rolled back.                                       *)
Interrupted ==
  /\ run # NoRun
  /\ spent.mishaps < MaxMishaps
  /\ \/ End("crashed")
     \/ run.pc \in {"verify", "recheck", "publish", "read back"} /\ End("write-failed")
     \/ run.pc \in {"check", "settle"} /\ End("unreadable")
     \/ run.pc = "record" /\ End("record-failed")
  /\ Spend("mishaps")
  /\ UNCHANGED <<site, store, shown>>

-----------------------------------------------------------------------------
(* Everybody else. *)

(* What the directory is to be at this point of the run. *)
Promised ==
  IF run.pc = "read back" THEN [run.inputs EXCEPT ![Op.path] = Op.after] ELSE run.inputs

Disturbed ==
  run' = IF run = NoRun THEN NoRun
         ELSE [run EXCEPT !.alone = FALSE, !.reached = @ \/ files' = Promised,
                          !.late = @ \/ (run.pc = "publish" /\ files' # files)]

HandEdited(file) ==
  (IF file.own.by = "omnifrons" THEN {[file EXCEPT !.own.by = "hand"]} ELSE {})
  \cup (IF file.old = "intact" THEN {[file EXCEPT !.old = "hand"]} ELSE {})

EditFile(k) ==
  /\ spent.edits < MaxEdits
  /\ \E draft \in (Drafts \cup HandEdited(files[k])) \ {files[k]} :
       files' = [files EXCEPT ![k] = draft]
  /\ Disturbed
  /\ Spend("edits")
  /\ UNCHANGED <<skills, nested, store, shown, outcome>>

(* Skill files come and go, and an agent appears above or vanishes. *)
ChangeSurroundings ==
  /\ spent.edits < MaxEdits
  /\ \/ skills' \in (SUBSET Skills) \ {skills} /\ UNCHANGED nested
     \/ nested' = ~nested /\ UNCHANGED skills
  /\ UNCHANGED files
  /\ Disturbed
  /\ Spend("edits")
  /\ UNCHANGED <<store, shown, outcome>>

-----------------------------------------------------------------------------
Next ==
  \/ \E o \in Requests : Preview(o)
  \/ StartApply
  \/ HarnessIsRunning
  \/ CheckAndSnapshot \/ SnapshotFails
  \/ Verify \/ Recheck \/ Publish \/ ReadBack \/ Settle \/ Record
  \/ Interrupted
  \/ \E k \in Kinds : EditFile(k)
  \/ ChangeSurroundings

Spec == Init /\ [][Next]_vars

-----------------------------------------------------------------------------
(* Properties. *)

(* Every variable keeps its type; a file has more snapshots than are kept  *)
(* only where a deletion failed.                                           *)
TypeOK ==
  /\ files \in [Kinds -> FileValues]
  /\ skills \subseteq Skills /\ nested \in BOOLEAN
  /\ \A k \in Kinds : /\ Len(snapshots[k]) <= MaxUnpinned + spent.mishaps
                      /\ Range(snapshots[k]) \subseteq FileValues
  /\ shown.request \in Requests
  /\ run = NoRun \/
       /\ run.pc \in {"check", "verify", "recheck", "publish", "read back", "settle", "record"}
       /\ run.next \in 1 .. Len(run.plan.ops) + 1
       /\ run.pc = "record" <=> run.next > Len(run.plan.ops)

(* The files this run has replaced or created so far. *)
Written == {run.applied[i].path : i \in DOMAIN run.applied}
           \cup (IF run.pc \in {"read back", "settle"} THEN {Op.path} ELSE {})

(* While a run is under way, what each file it has replaced held when the  *)
(* plan was made can still be restored from a snapshot (ADR-0005: "every   *)
(* replaced file can be restored from a snapshot").                        *)
ReplacedIsRestorable ==
  run # NoRun =>
    \A k \in Written : LET was == run.plan.inputs[k]
                       IN IsRegular(was) => was \in Range(snapshots[k])

(* A run writes a file, or stores its record, only if since it last wrote  *)
(* the whole directory was at some moment exactly what the approved        *)
(* preview makes of it at that point; it writes only what that preview     *)
(* shows, and its record says of each file what the preview found there    *)
(* and what the last operation on it left.                                 *)
IsPublish == run # NoRun /\ run.pc = "publish" /\ run' # NoRun /\ run'.pc = "read back"

WritesFollowThePreview ==
  [][ /\ IsPublish => /\ run.reached
                      /\ \E i \in DOMAIN run.expected.ops :
                           LET op == run.expected.ops[i]
                           IN files' = [files EXCEPT ![op.path] = op.after]
      /\ record' # record =>
           /\ run.reached
           /\ \A i \in DOMAIN record'.files :
                LET file == record'.files[i]
                IN /\ file.before = run.expected.inputs[file.path]
                   /\ file.after = After(run.expected.inputs, run.expected.ops)[file.path]
    ]_vars

(* A write made by anybody else while a run is under way is never lost to  *)
(* it, but in the window between the last look at the target and the       *)
(* rename; and a create replaces nothing, not even then.                   *)
OthersWritesSurvive ==
  [][IsPublish => \/ files[Op.path] = Op.before
                  \/ run.late /\ Op.before # Absent]_vars

(* The request that follows another: a winning side is named only while    *)
(* the files disagree (definition_apply.rs, "A rerun names a winning side  *)
(* with canonical_from only while the files still disagree").              *)
Again(o, d) == IF Classify(d) = "conflict" THEN o ELSE [o EXCEPT !.from = ""]

(* Whatever the directory holds between runs, a plan that is not refused   *)
(* leaves it canonical: the same request then plans nothing, every skill   *)
(* is in the index, no older block is left, and the instructions are those *)
(* of the file it was adapted from.                                        *)
Settles(o) ==
  LET plan == PlanNow(o)
      end == After(files, plan.ops)
      again == Plan(end, skills, nested, Again(o, end))
  IN plan.verdict = "planned" /\ (o.create \/ Present(files) # {}) =>
       /\ Classify(end) = "canonical"
       /\ again.verdict = "planned" /\ again.ops = <<>>
       /\ skills \subseteq end["AGENTS"].own.rows /\ end["AGENTS"].old = "none"
       /\ ~o.create => end["AGENTS"].text = files[Source(files, o)].text

PlansSettle == run = NoRun => \A o \in Requests : Settles(o)

(* Wherever a run stops, as long as nobody else changed the directory,     *)
(* some request takes it from there to the end the run was heading for     *)
(* (definition_apply.rs, "A rerun converges").  Not always the same one: a *)
(* conflict may remain in which the side it named is a wrapper by now.     *)
LeadsToTheEnd(o) ==
  LET plan == PlanNow(o)
  IN /\ plan.verdict = "planned"
     /\ After(files, plan.ops) = After(run.plan.inputs, run.plan.ops)

StoppedRunsRecover == run # NoRun /\ run.alone => \E o \in Requests : LeadsToTheEnd(o)
=============================================================================
