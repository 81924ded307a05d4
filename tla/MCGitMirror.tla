----------------------------- MODULE MCGitMirror -----------------------------
(***************************************************************************)
(* A finite instance of GitMirror: two branches, one pull request and its  *)
(* preserved name, two commits of which one needs an LFS object.           *)
(***************************************************************************)
EXTENDS GitMirror, TLC

CONSTANTS main, side, pull, kept, c1, c2

MCPreservedAs == pull :> kept

\* How many faults, damages of the cache and changes of the world may happen.
Bounds(faults, damages, changes) ==
  "fault" :> faults @@ "damage" :> damages @@ "change" :> changes
MirrorBudget == Bounds(2, 1, 2)
LockBudget == Bounds(1, 0, 2)
WikiBudget == Bounds(0, 0, 3)
==============================================================================
