----------------------------- MODULE MCContainers -----------------------------
(***************************************************************************)
(* A finite instance of Containers: two versions of a package, and a tag   *)
(* besides "latest" that can move.                                         *)
(***************************************************************************)
EXTENDS Containers, TLC

CONSTANTS latest, nightly

\* How many faults, changes at the source and edits in Gitea may happen.
Bounds(faults, changes, edits) == "fault" :> faults @@ "change" :> changes @@ "edit" :> edits
SafetyBudget == Bounds(1, 1, 1)
MoveBudget == Bounds(0, 1, 0)
RaceBudget == Bounds(0, 0, 1)
===============================================================================
