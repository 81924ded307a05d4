------------------------------ MODULE SyncLedger ------------------------------
(***************************************************************************)
(* What the synchronization service promises, without its tasks, locks,    *)
(* phases and tables.  Each repository is worked on by at most one         *)
(* transfer; work that is cut short leaves stale records ("in progress",   *)
(* but nobody is at it); whoever cuts it short owes their correction, and  *)
(* is through only when nothing stale is left.  SyncService implements     *)
(* this specification: see Ledger there.                                   *)
(***************************************************************************)
CONSTANTS
  Repositories,
  Run            \* the record of the global run

Records == Repositories \cup {Run}

VARIABLES
  service,       \* "up", "closing" or "down"
  work,          \* of each repository: "idle", "working", or "ending" (cut short, still unwinding)
  stale,         \* records that say "in progress" for work that nobody will finish
  owed           \* an administrator's stop has yet to correct the records

vars == <<service, work, stale, owed>>

Working == {r \in Repositories : work[r] = "working"}

Init ==
  /\ service = "up"
  /\ work = [r \in Repositories |-> "idle"]
  /\ stale = {}
  /\ owed = FALSE

\* Work begins only on an idle repository; its record is then no longer stale, its older
\* run record may still be.
Begin(r) ==
  /\ service = "up" /\ work[r] = "idle"
  /\ work' = [work EXCEPT ![r] = "working"]
  /\ stale' \in {stale, stale \ {r}}
  /\ UNCHANGED <<service, owed>>

End(r) ==
  /\ service = "up" /\ work[r] = "working"
  /\ work' = [work EXCEPT ![r] = "idle"]
  /\ UNCHANGED <<service, stale, owed>>

\* A stop or the shutdown cuts all work short at once.
Interrupt ==
  /\ service = "up"
  /\ work' = [r \in Repositories |-> IF work[r] = "working" THEN "ending" ELSE work[r]]
  /\ \E cut \in SUBSET (Working \cup {Run}) : stale' = stale \cup cut
  /\ \/ owed' = TRUE /\ UNCHANGED service
     \/ service' = "closing" /\ UNCHANGED owed

\* What was cut short lets go of its repository, one after the other.
Release(r) ==
  /\ work[r] = "ending"
  /\ work' = [work EXCEPT ![r] = "idle"]
  /\ UNCHANGED <<service, stale, owed>>

\* A listing overwrites what a row says.
Correct ==
  /\ stale' \in SUBSET stale
  /\ UNCHANGED <<service, work, owed>>

\* A stop is through when nothing is stale; another one may still be in progress.
Settle ==
  /\ service # "down" /\ owed
  /\ stale' = {}
  /\ owed' \in BOOLEAN
  /\ UNCHANGED <<service, work>>

\* The process ends, orderly or not.
Die ==
  /\ service # "down" /\ service' = "down"
  /\ work' = [r \in Repositories |-> "idle"]
  /\ \E cut \in SUBSET Records : stale' = stale \cup cut
  /\ owed' = FALSE

Recover ==
  /\ service = "down" /\ service' = "up"
  /\ stale' = {}
  /\ UNCHANGED <<work, owed>>

Next ==
  \/ \E r \in Repositories : Begin(r) \/ End(r) \/ Release(r)
  \/ Interrupt \/ Correct \/ Settle \/ Die \/ Recover

Spec == Init /\ [][Next]_vars

\* A stale record is always somebody's debt: of a stop in progress, of the shutdown, or of the
\* next start.
DebtsAreOwed == stale # {} => owed \/ service # "up"
==============================================================================
