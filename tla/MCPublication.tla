--------------------------- MODULE MCPublication ---------------------------
(***************************************************************************)
(* Instances of Publication for TLC.  A listing that finds several         *)
(* interrupted publications is a long way from an empty work area, so      *)
(* ShellSpec also starts where a shell is started again after one that     *)
(* copied every content and died, or failed, before it registered it.      *)
(***************************************************************************)
EXTENDS Publication, SequencesExt

\* The lines of a publication that came as far as its verified copy.
Begun(c, r, n) == <<Approval(c, r, n, "outbox"), PublishedStep(c, r, n)>>

\* One name was given all contents in turn, and each was copied to the asset
\* root the project had then; two commands are left.  Names are alike, and so
\* are contents: one name and one order stand for all.
Restarted ==
  /\ LET n == CHOOSE m \in Names : TRUE
         order == SetToSeq(Contents)
     IN \E at \in [Contents -> Roots], f \in Files :
       /\ path = [m \in Names |-> IF m = n THEN f ELSE Nothing]
       /\ bytes = [g \in Files |-> Last(order)]
       /\ journal = [lines |-> FlattenSeq([i \in DOMAIN order |->
                                             Begun(order[i], at[order[i]], n)]),
                     unended |-> FALSE]
       /\ copies = [r \in Roots |-> [c \in Contents |-> IF at[c] = r THEN c ELSE Nothing]]
  /\ preserved = {} /\ catalog = JL!NewFile /\ root \in Roots
  /\ held = << >> /\ removed = {} /\ wasReset = FALSE
  /\ pc = "idle" /\ job = NoJob /\ line = NoLine /\ after = "idle" /\ todo = {}
  /\ shown = [c \in Contents |-> "nothing"]
  /\ spent = [commands |-> MaxCommands - 2, mishaps |-> 0]

ShellSpec == (Init \/ Restarted) /\ [][Next]_vars /\ WF_vars(Work)
=============================================================================
