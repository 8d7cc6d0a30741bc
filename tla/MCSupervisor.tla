--------------------------- MODULE MCSupervisor ---------------------------
(***************************************************************************)
(* Instances of Supervisor for TLC.  Process ids and calling threads are   *)
(* interchangeable, so safety runs identify states that differ only by a   *)
(* permutation of them; the liveness run does not use the symmetry.        *)
(***************************************************************************)
EXTENDS Supervisor, TLC

Symmetry == Permutations(Pids) \cup Permutations(Callers)

(***************************************************************************)
(* A bound of the run with two threads.  With one child they may do        *)
(* whatever they like; while there are more, they only launch, and each    *)
(* child either keeps its output open or has been left by its reaper.      *)
(***************************************************************************)
OneChild == \A p, q \in Pids : p # q => "none" \in {os[p], os[q]}

OnlyLaunches ==
  /\ \A c \in Callers : pc[c] \in {"idle", "fork", "insert"}
  /\ \A p \in Pids : rpc[p] \in {"idle", "reading", "done"}

OneChildOrLaunches == OneChild \/ OnlyLaunches
=============================================================================
