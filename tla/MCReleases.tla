------------------------------ MODULE MCReleases ------------------------------
(***************************************************************************)
(* A finite instance of Releases: two releases with tags of their own; the *)
(* first has one asset, and b2 replaces b1 under its name in the second.   *)
(***************************************************************************)
EXTENDS Releases, TLC

CONSTANTS r1, r2, t1, t2, a1, b1, b2, x, y

MCTagOf == r1 :> t1 @@ r2 :> t2
MCReleaseOf == a1 :> r1 @@ b1 :> r2 @@ b2 :> r2
MCNameOf == a1 :> x @@ b1 :> y @@ b2 :> y

\* How many faults, changes at the source and edits in Gitea may happen.
Bounds(faults, changes, edits) == "fault" :> faults @@ "change" :> changes @@ "edit" :> edits
SafetyBudget == Bounds(1, 1, 1)
QuietBudget == Bounds(1, 2, 0)
CrashBudget == Bounds(1, 0, 0)
===============================================================================
