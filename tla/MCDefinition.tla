---------------------------- MODULE MCDefinition ----------------------------
(***************************************************************************)
(* Instances of Definition for TLC: a directory of each interesting kind.  *)
(***************************************************************************)
EXTENDS Definition

CONSTANTS t1, t2

Holds(agents, claude, gemini, qwen) ==
  [k \in Kinds |-> CASE k = "AGENTS" -> agents [] k = "CLAUDE" -> claude
                     [] k = "GEMINI" -> gemini [] k = "QWEN" -> qwen]

One == Regular(t1)
Two == Regular(t2)
Indexed == [One EXCEPT !.own = Block({})]
Migrates == [One EXCEPT !.old = "intact"]

MCTexts == {t1, t2}

Site(held, found, inside) == [files |-> held, skills |-> found, nested |-> inside]

MCSites == {
  Site(Holds(Absent, Absent, Absent, Absent), Skills, FALSE),
  Site(Holds(Absent, Absent, Absent, Absent), {}, TRUE),
  Site(Holds(Absent, One, Absent, Absent), Skills, TRUE),
  Site(Holds(One, NearWrapper, One, Absent), Skills, FALSE),
  Site(Holds(One, Two, Absent, Absent), Skills, FALSE),
  Site(Holds(Absent, One, Two, Absent), {}, FALSE),
  Site(Holds(One, One, Absent, One), {}, FALSE),
  Site(Holds(Migrates, Wrapper, Absent, Absent), Skills, FALSE),
  Site(Holds(Indexed, Link, Absent, Absent), Skills, FALSE),
  Site(Holds(One, Absent, Absent, Odd), {}, FALSE) }

MCDrafts == {Absent, Two}
=============================================================================
