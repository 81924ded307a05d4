---------------------------- MODULE MCDestinations ----------------------------
(***************************************************************************)
(* Finite instances of Destinations: two stars, one fixed source, and two  *)
(* clean names.                                                            *)
(***************************************************************************)
EXTENDS Destinations, TLC

\* How many faults, changes at the sources and edits in Gitea may happen.
Bounds(faults, changes, edits) == "fault" :> faults @@ "change" :> changes @@ "edit" :> edits
SafetyBudget == Bounds(1, 1, 1)

\* All sources start with one clean name, the case in which they meet.
CONSTANT x
MCInit == Init /\ upstream = [r \in Sources |-> x]
MCSpec == MCInit /\ [][Next]_vars /\ Fairness
===============================================================================
