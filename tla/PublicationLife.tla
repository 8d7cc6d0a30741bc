--------------------------- MODULE PublicationLife ---------------------------
(***************************************************************************)
(* What the durable record promises of each publication, whatever the      *)
(* shell does and whenever it dies: first its copy is verified, then it is *)
(* registered, and only a reset of the project's catalog takes it back, to *)
(* the verified copy.  Its outbox entry goes only once it is registered.   *)
(***************************************************************************)
CONSTANT Publications

VARIABLES
  stage,   \* how far each publication has come
  cleaned  \* the publications whose entry the shell has removed

Stages == {"new", "published-local", "registered"}

\* The record outlives the shell: one that starts may find copies that an
\* earlier one verified and did not register.
Init == stage \in [Publications -> {"new", "published-local"}] /\ cleaned = {}

Verify(p) ==
  /\ stage[p] = "new"
  /\ stage' = [stage EXCEPT ![p] = "published-local"]
  /\ UNCHANGED cleaned

Register(p) ==
  /\ stage[p] = "published-local"
  /\ stage' = [stage EXCEPT ![p] = "registered"]
  /\ UNCHANGED cleaned

Clean(p) ==
  /\ stage[p] = "registered"
  /\ cleaned' = cleaned \cup {p}
  /\ UNCHANGED stage

ResetCatalog ==
  /\ stage' = [p \in Publications |->
                 IF stage[p] = "registered" THEN "published-local" ELSE stage[p]]
  /\ UNCHANGED cleaned

Next ==
  \/ \E p \in Publications : Verify(p) \/ Register(p) \/ Clean(p)
  \/ ResetCatalog

Spec == Init /\ [][Next]_<<stage, cleaned>>
=============================================================================
