--------------------------- MODULE DefinitionPlan ---------------------------
(***************************************************************************)
(* The planner behind a definition's preview and apply (ADR-0005): what    *)
(* the identity files of one directory are, whether they can be adapted,   *)
(* and the operations that make them canonical (domain definition.rs, app  *)
(* definition.rs and definition_plan.rs).  Pure: no state.                 *)
(*                                                                         *)
(* A regular file is its instructions (a text, or imports only), its own   *)
(* skills block and a block of the older portable-agent family.  Skill     *)
(* metadata, host extras, line endings and the wording of refusals are     *)
(* left out; QWEN.md stands for the three secondary files that no plan     *)
(* ever writes.                                                            *)
(***************************************************************************)
EXTENDS Naturals, Sequences, SequencesExt

CONSTANTS
  Texts,   \* instructions a user may write
  Skills   \* skill files the directory's own tree may hold

ASSUME TextsAssumption == Texts \cap {"", "wrapper", "imports", "body", "nested body"} = {}

Kinds == {"AGENTS", "CLAUDE", "GEMINI", "QWEN"}
Secondary == Kinds \ {"AGENTS", "CLAUDE"}

(* A skills block: by Omnifrons, edited by hand since, or not there.  Its  *)
(* rows are the skills it lists; it always states the precedence rule.     *)
NoBlock == [by |-> "nobody", rows |-> {}]
Block(rows) == [by |-> "omnifrons", rows |-> rows]
Blocks == {NoBlock} \cup [by : {"omnifrons", "hand"}, rows : SUBSET Skills]

Shaped(shape) == [shape |-> shape, text |-> "", own |-> NoBlock, old |-> "none"]
Absent == Shaped("absent")
Link == Shaped("link")    \* a symlink whose text is AGENTS.md
Odd == Shaped("odd")      \* any other symlink, or not a regular file
Regular(text) == [Shaped("regular") EXCEPT !.text = text]
Wrapper == Regular("wrapper")       \* exactly @AGENTS.md
NearWrapper == Regular("imports")   \* imports only, not the exact bytes

FileValues ==
  {Absent, Link, Odd, Wrapper, NearWrapper} \cup
  [shape : {"regular"}, text : Texts \cup {"body", "nested body"},
   own : Blocks, old : {"none", "intact", "hand"}]

IsRegular(file) == file.shape = "regular"
Bearing(file) == IsRegular(file) /\ file \notin {Wrapper, NearWrapper}

-----------------------------------------------------------------------------
(* The state of a directory d, a function from Kinds to files. *)

Present(d) == {k \in Kinds : d[k] # Absent}

LinkAccepted(d) == d["CLAUDE"] = Link /\ IsRegular(d["AGENTS"])

Untrusted(d) ==
  \E k \in Present(d) : ~IsRegular(d[k]) /\ ~(k = "CLAUDE" /\ LinkAccepted(d))

NoSource(d) ==
  \/ Present(d) \cap {"AGENTS", "CLAUDE"} = {}
  \/ d["AGENTS"] # Absent /\ ~Bearing(d["AGENTS"])
  \/ d["AGENTS"] = Absent /\ ~Bearing(d["CLAUDE"])

Pair(d) ==
  IF d["AGENTS"] = Absent THEN "claude_only"
  ELSE IF d["CLAUDE"] = Absent THEN "agents_only"
  ELSE IF LinkAccepted(d) \/ d["CLAUDE"] = Wrapper THEN "canonical"
  ELSE IF ~Bearing(d["CLAUDE"]) THEN "near_wrapper"
  ELSE IF d["CLAUDE"] = d["AGENTS"] THEN "identical_copies"
  ELSE "conflict"

ClassifiedSource(d) == IF d["AGENTS"] = Absent THEN "CLAUDE" ELSE "AGENTS"

Differing(d, source) == {k \in Secondary : Bearing(d[k]) /\ d[k] # d[source]}

Classify(d) ==
  IF Present(d) = {} THEN "none"
  ELSE IF Untrusted(d) \/ NoSource(d) THEN "unsafe"
  ELSE IF Differing(d, ClassifiedSource(d)) # {} THEN "conflict"
  ELSE Pair(d)

-----------------------------------------------------------------------------
(* A request: adapt the directory, or create a definition in it; the side  *)
(* that wins a conflict, if one is named; whether GEMINI.md becomes a      *)
(* wrapper too; and consent for a directory nested inside another agent.   *)

Requests == [create : {FALSE}, from : {"", "AGENTS", "CLAUDE"},
             gemini : BOOLEAN, consent : BOOLEAN]
            \cup [create : {TRUE}, from : {""}, gemini : BOOLEAN, consent : BOOLEAN]

Operation(what, path, before, after) ==
  [what |-> what, path |-> path, before |-> before, after |-> after]

Source(d, o) == IF o.from = "" THEN ClassifiedSource(d) ELSE o.from

InvalidChoice(d, o) ==
  o.from # "" /\ ~(Classify(d) = "conflict" /\ Bearing(d[o.from]))

(* The content-bearing secondary files that plan o never writes. *)
Unmanaged(d, o) ==
  {k \in Secondary : Bearing(d[k]) /\ ~(o.gemini /\ k = "GEMINI")}

Edited(file) == file.own.by = "hand" \/ file.old = "hand"

(* A mutant of BlockDue: a block that is there is never written again. *)
BlockIsMissing(file, skills) == file.own.by = "nobody" /\ skills # {}

(* An intact older block is always migrated; otherwise a block is written  *)
(* only when a discovered skill is missing from the index.                 *)
BlockDue(file, skills) == file.old = "intact" \/ ~(skills \subseteq file.own.rows)

WithBlock(file, skills) == [file EXCEPT !.own = Block(skills), !.old = "none"]

WriteAgents(d, source) ==
  IF d["AGENTS"] = source THEN <<>>
  ELSE <<Operation("agents", "AGENTS", d["AGENTS"], source)>>

WriteWrapper(d, k) ==
  IF d[k] = Absent \/ (IsRegular(d[k]) /\ d[k] # Wrapper)
  THEN <<Operation("wrapper", k, d[k], Wrapper)>>
  ELSE <<>>

WriteWrappers(d, o) ==
  WriteWrapper(d, "CLAUDE") \o (IF o.gemini THEN WriteWrapper(d, "GEMINI") ELSE <<>>)

(* A mutant of IdentityOperations: the wrappers first. *)
WrappersFirst(d, o, source) == WriteWrappers(d, o) \o WriteAgents(d, source)

IdentityOperations(d, o, source) == WriteAgents(d, source) \o WriteWrappers(d, o)

WriteBlock(source, skills) ==
  IF BlockDue(source, skills)
  THEN <<Operation("block", "AGENTS", source, WithBlock(source, skills))>>
  ELSE <<>>

(* What a plan covers with its id: the inputs it read and its operations. *)
Planned(d, ops) == [verdict |-> "planned", inputs |-> d, ops |-> ops]
Refused(why, d) == [verdict |-> why, inputs |-> d, ops |-> <<>>]

(* The first refusal that applies, in the order the code tries them. *)
FirstOf(refusals) ==
  LET due == SelectSeq(refusals, LAMBDA r : r[2])
  IN IF due = <<>> THEN "" ELSE due[1][1]

Verdict(refusal, d, ops) == IF refusal = "" THEN Planned(d, ops) ELSE Refused(refusal, d)

PlanExisting(d, skills, nested, o) ==
  LET state == Classify(d)
      source == d[Source(d, o)]
      refusal == FirstOf(
        << <<"nested", nested /\ ~o.consent>>,
           <<"unsafe", state = "unsafe">>,
           <<"conflict", state = "conflict" /\ o.from = "">>,
           <<"unresolved", \E k \in Unmanaged(d, o) : d[k] # source>>,
           <<"edited block", Edited(source)>>,
           <<"diverging copy", BlockDue(source, skills) /\ Unmanaged(d, o) # {}>> >>)
      ops == IdentityOperations(d, o, source) \o WriteBlock(source, skills)
  IN IF InvalidChoice(d, o) THEN Refused("invalid choice", d)
     ELSE IF state = "none" THEN Planned(d, <<>>)
     ELSE Verdict(refusal, d, ops)

-----------------------------------------------------------------------------
(* A create: the same answers render another body inside another agent.    *)

Rendered(skills, nested) ==
  LET body == Regular(IF nested THEN "nested body" ELSE "body")
  IN IF BlockDue(body, skills) THEN WithBlock(body, skills) ELSE body

(* The files a create judges: not the wrapper it wrote to GEMINI.md. *)
OwnFiles(d, o) ==
  IF o.gemini /\ d["GEMINI"] = Wrapper THEN [d EXCEPT !["GEMINI"] = Absent] ELSE d

IdentityExists(d, full) ==
  /\ Present(d) # {}
  /\ ~ (/\ Present(d) \subseteq {"AGENTS", "CLAUDE"}
        /\ d["AGENTS"] = full
        /\ d["CLAUDE"] \in {Absent, Wrapper})

CreateWhereAbsent(d, what, k, after) ==
  IF d[k] = Absent THEN <<Operation(what, k, Absent, after)>> ELSE <<>>

PlanCreate(d, skills, nested, o) ==
  LET full == Rendered(skills, nested)
      refusal == FirstOf(
        << <<"identity exists", IdentityExists(OwnFiles(d, o), full)>>,
           <<"nested", nested /\ ~o.consent>> >>)
      ops == CreateWhereAbsent(d, "generated", "AGENTS", full)
             \o CreateWhereAbsent(d, "wrapper", "CLAUDE", Wrapper)
             \o (IF o.gemini THEN CreateWhereAbsent(d, "wrapper", "GEMINI", Wrapper)
                 ELSE <<>>)
  IN Verdict(refusal, d, ops)

Plan(d, skills, nested, o) ==
  IF o.create THEN PlanCreate(d, skills, nested, o)
  ELSE PlanExisting(d, skills, nested, o)

(* The directory after the operations, when nothing else touches it. *)
After(d, ops) == FoldLeft(LAMBDA at, op : [at EXCEPT ![op.path] = op.after], d, ops)
=============================================================================
