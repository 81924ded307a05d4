-------------------------- MODULE SyncServiceProofs --------------------------
(***************************************************************************)
(* Proofs about SyncService, for any rows, stop requests and semaphore.    *)
(***************************************************************************)
EXTENDS SyncService, FiniteSetTheorems, TLAPS

\* Every variable keeps its type: the type invariant is inductive by itself.
THEOREM TypeCorrect == Spec => []TypeOK
<1>1. Init => TypeOK
  BY DEF Init, TypeOK, Status, LastError, Phase, ChildState, ManualState, Holder, Kinds
<1>2. TypeOK /\ [Next]_vars => TypeOK'
  <2> SUFFICES ASSUME TypeOK, [Next]_vars PROVE TypeOK'
    OBVIOUS
  <2> USE DEF TypeOK, Status, LastError, Phase, ChildState, ManualState, Holder, Kinds, Tasks,
              columns, runRows, globals, stops
  <2>1. CASE StartGlobalSync
    BY <2>1 DEF StartGlobalSync
  <2>2. ASSUME NEW r \in Repos, StartRepositorySync(r) PROVE TypeOK'
    BY <2>2 DEF StartRepositorySync
  <2>3. ASSUME NEW r \in Repos, ManualRun(r) PROVE TypeOK'
    BY <2>3 DEF ManualRun, Begin, Done
  <2>4. ASSUME NEW r \in Repos, ChildRun(r) PROVE TypeOK'
    BY <2>4 DEF ChildRun, Begin, Refused
  <2>5. ASSUME NEW r \in Repos, NEW holder \in {"manual", "child"}, Finish(r, holder)
        PROVE  TypeOK'
    BY <2>5 DEF Finish, Fail, Succeed, Return, Done, StatusAfterSuccess, ErrorAfterFailure
  <2>6. ASSUME NEW r \in Repos, ManualUnwinds(r) PROVE TypeOK'
    BY <2>6 DEF ManualUnwinds, Done
  <2>7. ASSUME NEW r \in Repos, ChildUnwinds(r) PROVE TypeOK'
    BY <2>7 DEF ChildUnwinds, AbandonGlobal, Done, OrphanLock, Drop
  <2>8. ASSUME NEW r \in Repos, OrphanUnwinds(r) PROVE TypeOK'
    BY <2>8 DEF OrphanUnwinds
  <2>9. CASE GlobalRun
    BY <2>9 DEF GlobalRun
  <2>10. ASSUME NEW kind \in Kinds, ListingSucceeds(kind) PROVE TypeOK'
    <3>1. PICK seen \in SUBSET RowsOf(kind) : Reconcile(kind, seen) /\ Advance(kind, found \cup seen)
      BY <2>10 DEF ListingSucceeds
    <3>2. seen \subseteq Repos
      BY DEF RowsOf, Repos
    <3>3. /\ status' \in [Repos -> Status] /\ currently_starred' \in [Repos -> BOOLEAN]
          /\ UNCHANGED <<last_error, fresh>>
      <4>1. Missing(kind) \in Status
        BY DEF Missing
      <4>2. QED
        BY <3>1, <4>1 DEF Reconcile
    <3>4. phase' \in Phase /\ found' \subseteq Repos /\ child' \in [Repos -> ChildState]
      BY <3>1, <3>2 DEF Advance, NextPhase
    <3>5. QED
      BY <2>10, <3>3, <3>4 DEF ListingSucceeds
  <2>11. ASSUME NEW kind \in Kinds, ListingFails(kind) PROVE TypeOK'
    BY <2>11 DEF ListingFails, FailureLeavesRows, Advance, NextPhase
  <2>12. CASE GatherReturns
    <3>1. /\ UNCHANGED <<columns, lost, proc, manual, lock, previous, stopping>>
          /\ phase' \in Phase /\ found' \subseteq Repos /\ errors' \subseteq Kinds
          /\ child' \in [Repos -> ChildState] /\ open' \subseteq Tasks /\ fresh' \subseteq Repos
      BY <2>12 DEF GatherReturns, FinishRun
    <3>2. awaited' \in [Stoppers -> SUBSET Tasks]
      BY <2>12 DEF GatherReturns, FinishRun, Done
    <3>3. QED
      BY <3>1, <3>2
  <2>13. CASE MaintenanceReturns
    BY <2>13 DEF MaintenanceReturns, FinishRun, Done
  <2>14. CASE MaintenanceUnwinds
    BY <2>14 DEF MaintenanceUnwinds, AbandonGlobal, Done
  <2>15. ASSUME CancelAll
         PROVE  /\ phase' \in Phase /\ found' \subseteq Repos /\ errors' \subseteq Kinds
                /\ child' \in [Repos -> ChildState] /\ manual' \in [Repos -> ManualState]
                /\ lock' \in [Repos -> Holder] /\ previous' \in [Repos -> Status]
                /\ lost' \subseteq Tasks /\ open' \subseteq Tasks /\ fresh' \subseteq Repos
    BY <2>15 DEF CancelAll, CancelGlobal, AbandonGlobal, Drop
  <2>16. ASSUME NEW s \in Stoppers, StopActiveSyncs(s) PROVE TypeOK'
    BY <2>15, <2>16 DEF StopActiveSyncs
  <2>17. ASSUME NEW s \in Stoppers, StopReturns(s) PROVE TypeOK'
    BY <2>17 DEF StopReturns, Sweep, SweepRunRows
  <2>18. CASE Shutdown
    BY <2>15, <2>18 DEF Shutdown, Done
  <2>19. CASE Exit \/ Crash
    BY <2>19 DEF Exit, Crash, Terminate
  <2>20. CASE Restart
    BY <2>20 DEF Restart, RecoverRows, Sweep
  <2>21. ASSUME NEW r \in Repos, CrashBetweenCommits(r) PROVE TypeOK'
    BY <2>21 DEF CrashBetweenCommits, Terminate, StatusAfterSuccess, ErrorAfterFailure
  <2>22. CASE UNCHANGED vars
    BY <2>22 DEF vars
  <2>23. QED
    BY <2>1, <2>2, <2>3, <2>4, <2>5, <2>6, <2>7, <2>8, <2>9, <2>10, <2>11, <2>12, <2>13,
       <2>14, <2>16, <2>17, <2>18, <2>19, <2>20, <2>21, <2>22
       DEF Next, Work, GlobalWork
<1>3. QED
  BY <1>1, <1>2, PTL DEF Spec

-----------------------------------------------------------------------------
(* Mutual exclusion.  OneTransferPerRepository alone is not inductive: it  *)
(* does not say that the lock records who transfers, that children run     *)
(* only under a gather, or that a cancelled gather has no child left to    *)
(* start.                                                                  *)

Busy == {"running", "cancelled"}

\* The lock of a row names the one call that transfers it, or an orphan.
LockNamesHolder == \A r \in Repos :
  /\ lock[r] = "manual" <=> manual[r] \in Busy
  /\ lock[r] = "child" <=> child[r] \in Busy

\* Children live in the gather phase, one per discovered row.
GatherOwnsChildren == \A r \in Repos :
  /\ child[r] \in Busy \cup {"queued"} => phase = "gather"
  /\ phase = "gather" /\ r \notin found => child[r] = "none"

\* Cancelling a gather leaves no child to start and none that still works.
CancelReachesAll ==
  (\E r \in Repos : child[r] = "cancelled") => \A q \in Repos : child[q] \notin {"queued", "running"}

TransferInv == LockNamesHolder /\ GatherOwnsChildren /\ CancelReachesAll

\* Nothing transfers in the initial state.
LEMMA TransferInvInit == Init => TransferInv
BY DEF Init, TransferInv, LockNamesHolder, GatherOwnsChildren, CancelReachesAll, Busy

\* Cancelling everything keeps the invariant, for a stop and for a shutdown.
LEMMA CancelAllKeepsTransferInv ==
  ASSUME TypeOK, TransferInv, CancelAll PROVE TransferInv'
<1> USE DEF TypeOK, TransferInv, LockNamesHolder, GatherOwnsChildren, CancelReachesAll, Busy
<1>1. \A r \in Repos : manual'[r] \in Busy <=> manual[r] \in Busy
  BY DEF CancelAll, ManualState
<1>2. CASE EndsAtOnce /\ AbandonGlobal /\ lock' = [r \in Repos |-> Drop(r)]
  <2>1. \A r \in Repos : child'[r] = "none"
    BY <1>2 DEF AbandonGlobal
  <2>2. \A r \in Repos : lock'[r] = IF child[r] \in Busy THEN "orphan" ELSE lock[r]
    BY <1>2 DEF Drop
  <2>3. \A r \in Repos : lock'[r] = "manual" <=> lock[r] = "manual"
    BY <2>2
  <2>4. \A r \in Repos : lock'[r] # "child"
    BY <2>2
  <2>5. phase' = "idle"
    BY <1>2 DEF AbandonGlobal
  <2>6. QED
    BY <1>1, <2>1, <2>3, <2>4, <2>5
<1>3. CASE /\ ~EndsAtOnce
           /\ phase' = IF phase = "maintain" THEN "cancelled" ELSE phase
           /\ child' = [r \in Repos |-> IF child[r] = "running" THEN "cancelled" ELSE child[r]]
           /\ UNCHANGED <<found, errors, lock, fresh>>
  <2>1. \A r \in Repos : child'[r] = IF child[r] = "running" THEN "cancelled" ELSE child[r]
    BY <1>3
  <2>2. \A r \in Repos : child'[r] \notin {"queued", "running"}
    BY <1>3, <2>1 DEF EndsAtOnce
  <2>3. \A r \in Repos : child'[r] \in Busy <=> child[r] \in Busy
    BY <2>1
  <2>4. LockNamesHolder'
    BY <1>1, <1>3, <2>3
  <2>5. GatherOwnsChildren'
    BY <1>3, <2>1, <2>2
  <2>6. QED
    BY <2>2, <2>4, <2>5
<1>4. QED
  BY <1>2, <1>3 DEF CancelAll, CancelGlobal

\* Every step keeps the invariant.
LEMMA TransferInvStep ==
  ASSUME TypeOK, TransferInv, [Next]_vars PROVE TransferInv'
<1> USE DEF TypeOK, TransferInv, LockNamesHolder, GatherOwnsChildren, CancelReachesAll, Busy,
            columns, runRows, globals, stops
<1>1. CASE StartGlobalSync
  BY <1>1 DEF StartGlobalSync, IsRunning
<1>2. ASSUME NEW r \in Repos, StartRepositorySync(r) PROVE TransferInv'
  BY <1>2 DEF StartRepositorySync
<1>3. ASSUME NEW r \in Repos, ManualRun(r) PROVE TransferInv'
  BY <1>3 DEF ManualRun, Begin, Locked
<1>4. ASSUME NEW r \in Repos, ChildRun(r) PROVE TransferInv'
  BY <1>4 DEF ChildRun, Begin, Locked, Refused
<1>5. ASSUME NEW r \in Repos, Finish(r, "manual") PROVE TransferInv'
  BY <1>5 DEF Finish, Fail, Succeed, Return, Transfers
<1>6. ASSUME NEW r \in Repos, Finish(r, "child") PROVE TransferInv'
  BY <1>6 DEF Finish, Fail, Succeed, Return, Transfers
<1>7. ASSUME NEW r \in Repos, ManualUnwinds(r) PROVE TransferInv'
  BY <1>7 DEF ManualUnwinds
<1>8. ASSUME NEW r \in Repos, ChildUnwinds(r) PROVE TransferInv'
  <2>1. phase' = "idle" /\ \A q \in Repos : child'[q] = "none"
    BY <1>8 DEF ChildUnwinds, AbandonGlobal
  <2>2. \A q \in Repos : lock'[q] = IF q = r THEN "free"
                                   ELSE IF child[q] \in Busy THEN "orphan" ELSE lock[q]
    BY <1>8 DEF ChildUnwinds, OrphanLock, Drop
  <2>3. UNCHANGED manual /\ lock[r] = "child"
    BY <1>8 DEF ChildUnwinds
  <2>4. \A q \in Repos : lock'[q] # "child" /\ (lock'[q] = "manual" <=> lock[q] = "manual")
    BY <2>2, <2>3
  <2>5. QED
    BY <2>1, <2>3, <2>4
<1>9. ASSUME NEW r \in Repos, OrphanUnwinds(r) PROVE TransferInv'
  BY <1>9 DEF OrphanUnwinds
<1>10. CASE GlobalRun
  BY <1>10 DEF GlobalRun
<1>11. ASSUME NEW kind \in Kinds, NEW rows, phase = kind, Advance(kind, rows),
              UNCHANGED <<manual, lock>>
       PROVE  TransferInv'
  <2>1. \A r \in Repos : child[r] \notin Busy \cup {"queued"}
    BY <1>11 DEF Kinds
  <2>2. \A r \in Repos : child'[r] \notin Busy
    BY <1>11, <2>1 DEF Advance
  <2>3. CASE NextPhase(kind) = "gather"
    BY <1>11, <2>1, <2>2, <2>3 DEF Advance
  <2>4. CASE NextPhase(kind) # "gather"
    BY <1>11, <2>1, <2>2, <2>4 DEF Advance
  <2>5. QED
    BY <2>3, <2>4
<1>12. ASSUME NEW kind \in Kinds, ListingSucceeds(kind) PROVE TransferInv'
  BY <1>11, <1>12 DEF ListingSucceeds
<1>13. ASSUME NEW kind \in Kinds, ListingFails(kind) PROVE TransferInv'
  BY <1>11, <1>13 DEF ListingFails
<1>14. CASE GatherReturns
  <2>1. \A r \in Repos : child[r] \notin Busy \cup {"queued"}
    BY <1>14 DEF GatherReturns, Gathered
  <2>2. phase' # "gather" /\ UNCHANGED <<manual, lock>>
    BY <1>14 DEF GatherReturns, FinishRun
  <2>3. \A r \in Repos : child'[r] \notin Busy \cup {"queued"}
    BY <1>14, <2>1 DEF GatherReturns, FinishRun
  <2>4. QED
    BY <2>1, <2>2, <2>3
<1>15. CASE MaintenanceReturns
  BY <1>15 DEF MaintenanceReturns, FinishRun
<1>16. CASE MaintenanceUnwinds
  BY <1>16 DEF MaintenanceUnwinds, AbandonGlobal
<1>17. ASSUME NEW s \in Stoppers, StopActiveSyncs(s) PROVE TransferInv'
  BY <1>17, CancelAllKeepsTransferInv DEF StopActiveSyncs
<1>18. ASSUME NEW s \in Stoppers, StopReturns(s) PROVE TransferInv'
  BY <1>18 DEF StopReturns
<1>19. CASE Shutdown
  BY <1>19, CancelAllKeepsTransferInv DEF Shutdown
<1>20. ASSUME Terminate PROVE TransferInv'
  BY <1>20 DEF Terminate
<1>21. CASE Exit \/ Crash \/ \E r \in Repos : CrashBetweenCommits(r)
  BY <1>20, <1>21 DEF Exit, Crash, CrashBetweenCommits
<1>22. CASE Restart
  BY <1>22 DEF Restart
<1>23. CASE UNCHANGED vars
  BY <1>23 DEF vars
<1>24. QED
  BY <1>1, <1>2, <1>3, <1>4, <1>5, <1>6, <1>7, <1>8, <1>9, <1>10, <1>12, <1>13, <1>14,
     <1>15, <1>16, <1>17, <1>18, <1>19, <1>21, <1>22, <1>23
     DEF Next, Work, GlobalWork

\* Of a manual transfer, a gathered child and an orphan, at most one works on a repository.
THEOREM MutualExclusion == Spec => []OneTransferPerRepository
<1>1. TypeOK /\ TransferInv /\ [Next]_vars => TransferInv'
  BY TransferInvStep
<1>2. TypeOK /\ TransferInv => OneTransferPerRepository
  BY DEF TransferInv, LockNamesHolder, OneTransferPerRepository, Busy
<1>3. QED
  BY TypeCorrect, TransferInvInit, <1>1, <1>2, PTL DEF Spec

-----------------------------------------------------------------------------
(* What a stop waits for.                                                  *)

\* Cancelling everything leaves only what unwinds, whoever waited before.
LEMMA CancelAllLeavesUnwinding ==
  ASSUME TypeOK, CancelAll
  PROVE  /\ \A r \in Repos : /\ manual'[r] \in {"none", "cancelled"}
                             /\ manual[r] = "cancelled" => manual'[r] = "cancelled"
         /\ phase' # "idle" => GlobalUnwinds'
         /\ TransferInv /\ GlobalUnwinds => GlobalUnwinds'
<1> USE DEF TypeOK
<1>1. \A r \in Repos : /\ manual'[r] \in {"none", "cancelled"}
                       /\ manual[r] = "cancelled" => manual'[r] = "cancelled"
  BY DEF CancelAll, ManualState
<1>2. phase' # "idle" => GlobalUnwinds'
  <2>1. CASE EndsAtOnce
    BY <2>1 DEF CancelAll, CancelGlobal, AbandonGlobal
  <2>2. CASE ~EndsAtOnce
    <3>1. /\ phase' = IF phase = "maintain" THEN "cancelled" ELSE phase
          /\ \A r \in Repos : child[r] \in {"running", "cancelled"} => child'[r] = "cancelled"
      BY <2>2 DEF CancelAll, CancelGlobal
    <3>2. CASE phase = "gather"
      BY <2>2, <3>1, <3>2 DEF EndsAtOnce, GlobalUnwinds
    <3>3. CASE phase # "gather"
      BY <2>2, <3>1, <3>3 DEF EndsAtOnce, GlobalUnwinds, Phase
    <3>4. QED
      BY <3>2, <3>3
  <2>3. QED
    BY <2>1, <2>2
<1>3. ASSUME TransferInv, GlobalUnwinds PROVE GlobalUnwinds'
  <2>1. ~EndsAtOnce
    BY <1>3 DEF EndsAtOnce, GlobalUnwinds, TransferInv, CancelReachesAll, Kinds
  <2>2. phase' # "idle"
    BY <1>3, <2>1 DEF CancelAll, CancelGlobal, GlobalUnwinds
  <2>3. QED
    BY <1>2, <2>2
<1>4. QED
  BY <1>1, <1>2, <1>3

\* A step that ends the global task when it was cancelled tells whoever waits for it.
LEMMA GlobalEnds ==
  ASSUME TypeOK, StopsAwaitNoWork, phase' = "idle", Done({Global}), UNCHANGED <<proc, manual>>
  PROVE  StopsAwaitNoWork'
BY KindsAssumption DEF TypeOK, StopsAwaitNoWork, Done

\* A step of one row that has nothing to do with the cancellation.
LEMMA RowStep ==
  ASSUME TypeOK, StopsAwaitNoWork, NEW r \in Repos, UNCHANGED <<proc, phase>>,
         \A s \in Stoppers : awaited'[s] = awaited[s] \/ awaited'[s] = awaited[s] \ {r},
         \A q \in Repos \ {r} : manual'[q] = manual[q],
         \A q \in Repos : child[q] = "cancelled" => child'[q] = "cancelled",
         \/ manual'[r] = manual[r]
         \/ proc = "up" /\ manual[r] # "cancelled"
         \/ manual'[r] = "none" /\ \A s \in Stoppers : r \notin awaited'[s]
  PROVE  StopsAwaitNoWork'
<1>1. GlobalUnwinds => GlobalUnwinds'
  BY DEF GlobalUnwinds
<1>2. \A s \in Stoppers : awaited'[s] \subseteq awaited[s]
  OBVIOUS
<1>3. QED
  BY <1>1, <1>2 DEF StopsAwaitNoWork

\* Every step keeps it, given that a cancelled gather has no child left to start.
LEMMA StopsAwaitNoWorkStep ==
  ASSUME TypeOK, TransferInv, StopsAwaitNoWork, [Next]_vars PROVE StopsAwaitNoWork'
<1> USE DEF columns, runRows, globals, stops
<1>1. CASE StartGlobalSync
  BY <1>1 DEF StartGlobalSync, IsRunning, StopsAwaitNoWork, GlobalUnwinds
<1>2. ASSUME NEW r \in Repos, StartRepositorySync(r) PROVE StopsAwaitNoWork'
  BY <1>2, RowStep DEF StartRepositorySync, TypeOK
<1>3. ASSUME NEW r \in Repos, ManualRun(r) PROVE StopsAwaitNoWork'
  BY <1>3, RowStep DEF ManualRun, Done, TypeOK
<1>4. ASSUME NEW r \in Repos, ChildRun(r) PROVE StopsAwaitNoWork'
  BY <1>4, RowStep DEF ChildRun, TypeOK
<1>5. ASSUME NEW r \in Repos, NEW holder \in {"manual", "child"}, Finish(r, holder)
      PROVE  StopsAwaitNoWork'
  BY <1>5, RowStep DEF Finish, Fail, Succeed, Return, Transfers, Done, TypeOK
<1>6. ASSUME NEW r \in Repos, ManualUnwinds(r) PROVE StopsAwaitNoWork'
  BY <1>6, RowStep DEF ManualUnwinds, Done, TypeOK
<1>7. ASSUME NEW r \in Repos, ChildUnwinds(r) PROVE StopsAwaitNoWork'
  BY <1>7, GlobalEnds DEF ChildUnwinds, AbandonGlobal
<1>8. ASSUME NEW r \in Repos, OrphanUnwinds(r) PROVE StopsAwaitNoWork'
  BY <1>8, RowStep DEF OrphanUnwinds
<1>9. CASE GlobalRun
  BY <1>9 DEF GlobalRun, StopsAwaitNoWork, GlobalUnwinds
<1>10. ASSUME NEW kind \in Kinds, ListingSucceeds(kind) \/ ListingFails(kind)
       PROVE  StopsAwaitNoWork'
  BY <1>10 DEF ListingSucceeds, ListingFails, StopsAwaitNoWork, GlobalUnwinds, Kinds
<1>11. CASE GatherReturns
  <2>1. ~GlobalUnwinds
    BY <1>11 DEF GatherReturns, Gathered, GlobalUnwinds, TransferInv, GatherOwnsChildren
  <2>2. \A s \in Stoppers : Global \notin awaited[s] /\ awaited'[s] \subseteq awaited[s]
    BY <1>11, <2>1 DEF GatherReturns, FinishRun, Done, StopsAwaitNoWork, TypeOK
  <2>3. QED
    BY <1>11, <2>2 DEF GatherReturns, StopsAwaitNoWork
<1>12. CASE MaintenanceReturns
  BY <1>12, GlobalEnds DEF MaintenanceReturns, FinishRun
<1>13. CASE MaintenanceUnwinds
  BY <1>13, GlobalEnds DEF MaintenanceUnwinds, AbandonGlobal
<1>14. ASSUME NEW s \in Stoppers, StopActiveSyncs(s) PROVE StopsAwaitNoWork'
  <2>1. CancelAll /\ UNCHANGED proc /\ proc = "up"
    BY <1>14 DEF StopActiveSyncs
  <2>2. /\ awaited'[s] = {r \in Repos : manual'[r] # "none"}
                         \cup (IF phase' = "idle" THEN {} ELSE {Global})
        /\ \A t \in Stoppers \ {s} : awaited'[t] = awaited[t]
    BY <1>14 DEF StopActiveSyncs, TypeOK
  <2> DEFINE Left == \A r \in Repos : /\ manual'[r] \in {"none", "cancelled"}
                                      /\ manual[r] = "cancelled" => manual'[r] = "cancelled"
  <2>0. Left /\ (phase' # "idle" => GlobalUnwinds') /\ (GlobalUnwinds => GlobalUnwinds')
    BY <2>1, CancelAllLeavesUnwinding
  <2>3. \A r \in Repos \cap awaited'[s] : manual'[r] = "cancelled"
    BY <2>0, <2>2, KindsAssumption
  <2>4. Global \in awaited'[s] => GlobalUnwinds'
    BY <2>0, <2>2, KindsAssumption
  <2>5. ASSUME NEW t \in Stoppers \ {s}
        PROVE  /\ \A r \in Repos \cap awaited'[t] : manual'[r] = "cancelled"
               /\ Global \in awaited'[t] => GlobalUnwinds'
    BY <2>0, <2>2 DEF StopsAwaitNoWork
  <2>6. QED
    BY <2>1, <2>3, <2>4, <2>5 DEF StopsAwaitNoWork
<1>15. ASSUME NEW s \in Stoppers, StopReturns(s) PROVE StopsAwaitNoWork'
  BY <1>15 DEF StopReturns, StopsAwaitNoWork, GlobalUnwinds
<1>16. CASE Shutdown
  <2>1. CancelAll /\ \A s \in Stoppers : awaited'[s] \subseteq awaited[s]
    BY <1>16 DEF Shutdown, Done
  <2>2. /\ \A r \in Repos : /\ manual'[r] \in {"none", "cancelled"}
                            /\ manual[r] = "cancelled" => manual'[r] = "cancelled"
        /\ (phase' # "idle" => GlobalUnwinds') /\ (GlobalUnwinds => GlobalUnwinds')
    BY <2>1, CancelAllLeavesUnwinding
  <2>3. QED
    BY <2>1, <2>2 DEF StopsAwaitNoWork
<1>17. ASSUME Terminate PROVE StopsAwaitNoWork'
  BY <1>17 DEF Terminate, StopsAwaitNoWork
<1>18. CASE Exit \/ Crash \/ \E r \in Repos : CrashBetweenCommits(r)
  BY <1>17, <1>18 DEF Exit, Crash, CrashBetweenCommits
<1>19. CASE Restart
  BY <1>19 DEF Restart, StopsAwaitNoWork, GlobalUnwinds
<1>20. CASE UNCHANGED vars
  BY <1>20 DEF vars, StopsAwaitNoWork, GlobalUnwinds
<1>21. QED
  BY <1>1, <1>2, <1>3, <1>4, <1>5, <1>6, <1>7, <1>8, <1>9, <1>10, <1>11, <1>12, <1>13,
     <1>14, <1>15, <1>16, <1>18, <1>19, <1>20
     DEF Next, Work, GlobalWork

\* A stop and a shutdown wait for cancelled work only, however many stops overlap and whatever
\* is started meanwhile; with the reaping of killed processes, this is why they are answered.
THEOREM StopsAreNotHeldUp == Spec => []StopsAwaitNoWork
<1>1. Init => StopsAwaitNoWork
  BY DEF Init, StopsAwaitNoWork
<1>2. TypeOK /\ TransferInv /\ [Next]_vars => TransferInv'
  BY TransferInvStep
<1>3. TypeOK /\ TransferInv /\ StopsAwaitNoWork /\ [Next]_vars => StopsAwaitNoWork'
  BY StopsAwaitNoWorkStep
<1>4. QED
  BY TypeCorrect, TransferInvInit, <1>1, <1>2, <1>3, PTL DEF Spec

-----------------------------------------------------------------------------
(* Recovery.  Every step that leaves a syncing row or a RUNNING run row    *)
(* without its call is a cancellation, whose stop has still to sweep, or   *)
(* the end of the process, whose restart has still to recover.             *)

\* Every step keeps NoWorkLeftBehind, given exclusive transfers.
LEMMA NoWorkLeftBehindStep ==
  ASSUME TypeOK, TransferInv, NoWorkLeftBehind, [Next]_vars PROVE NoWorkLeftBehind'
<1> USE DEF TypeOK, NoWorkLeftBehind, Live, Transfers, columns, runRows, globals, stops
<1>1. CASE StartGlobalSync
  BY <1>1 DEF StartGlobalSync
<1>2. ASSUME NEW r \in Repos, StartRepositorySync(r) PROVE NoWorkLeftBehind'
  BY <1>2 DEF StartRepositorySync
<1>3. ASSUME NEW r \in Repos, ManualRun(r) PROVE NoWorkLeftBehind'
  BY <1>3 DEF ManualRun, Begin
<1>4. ASSUME NEW r \in Repos, ChildRun(r) PROVE NoWorkLeftBehind'
  BY <1>4 DEF ChildRun, Begin
<1>5. ASSUME NEW r \in Repos, NEW holder \in {"manual", "child"}, Finish(r, holder)
      PROVE  NoWorkLeftBehind'
  <2>1. status'[r] # "syncing" /\ UNCHANGED <<lost, proc, stopping>>
    BY <1>5 DEF Finish, Fail, Succeed, StatusAfterSuccess
  <2>2. \A q \in Repos \ {r} : /\ status'[q] = status[q]
                               /\ manual'[q] = manual[q] /\ child'[q] = child[q]
    BY <1>5 DEF Finish, Fail, Succeed, Return
  <2>3. QED
    BY <2>1, <2>2
<1>6. ASSUME NEW r \in Repos, ManualUnwinds(r) PROVE NoWorkLeftBehind'
  BY <1>6 DEF ManualUnwinds
<1>7. ASSUME NEW r \in Repos, ChildUnwinds(r) PROVE NoWorkLeftBehind'
  <2>1. \A q \in Repos : child[q] # "running"
    BY <1>7 DEF ChildUnwinds, TransferInv, CancelReachesAll
  <2>2. QED
    BY <1>7, <2>1 DEF ChildUnwinds
<1>8. ASSUME NEW r \in Repos, OrphanUnwinds(r) PROVE NoWorkLeftBehind'
  BY <1>8 DEF OrphanUnwinds
<1>9. CASE GlobalRun
  BY <1>9 DEF GlobalRun
<1>10. ASSUME NEW kind \in Kinds, NEW rows, phase = kind, Advance(kind, rows)
       PROVE  \A r \in Repos : child[r] # "running"
  BY <1>10 DEF TransferInv, GatherOwnsChildren, Busy, Kinds
<1>11. ASSUME NEW kind \in Kinds, ListingSucceeds(kind) PROVE NoWorkLeftBehind'
  <2>1. PICK seen \in SUBSET RowsOf(kind) : Reconcile(kind, seen) /\ Advance(kind, found \cup seen)
    BY <1>11 DEF ListingSucceeds
  <2>2. \A r \in Repos : child[r] # "running"
    BY <1>10, <1>11, <2>1 DEF ListingSucceeds
  <2>3. \A r \in Repos : status'[r] = "syncing" => status[r] = "syncing"
    BY <2>1 DEF Reconcile, Missing
  <2>4. QED
    BY <1>11, <2>2, <2>3 DEF ListingSucceeds
<1>12. ASSUME NEW kind \in Kinds, ListingFails(kind) PROVE NoWorkLeftBehind'
  <2>1. \A r \in Repos : child[r] # "running"
    BY <1>10, <1>12 DEF ListingFails
  <2>2. QED
    BY <1>12, <2>1 DEF ListingFails, FailureLeavesRows
<1>13. CASE GatherReturns
  <2>1. \A r \in Repos : child[r] # "running"
    BY <1>13 DEF GatherReturns, Gathered, TransferInv, GatherOwnsChildren
  <2>2. QED
    BY <1>13, <2>1 DEF GatherReturns
<1>14. CASE MaintenanceReturns \/ MaintenanceUnwinds
  <2>1. \A r \in Repos : child[r] # "running"
    BY <1>14 DEF MaintenanceReturns, MaintenanceUnwinds, TransferInv, GatherOwnsChildren, Busy
  <2>2. QED
    BY <1>14, <2>1 DEF MaintenanceReturns, MaintenanceUnwinds
<1>15. ASSUME NEW s \in Stoppers, StopActiveSyncs(s) PROVE NoWorkLeftBehind'
  BY <1>15 DEF StopActiveSyncs
<1>16. ASSUME NEW s \in Stoppers, StopReturns(s) PROVE NoWorkLeftBehind'
  BY <1>16 DEF StopReturns, Sweep, SweepRunRows
<1>17. CASE Shutdown
  BY <1>17 DEF Shutdown
<1>18. CASE Exit \/ Crash \/ \E r \in Repos : CrashBetweenCommits(r)
  BY <1>18 DEF Exit, Crash, CrashBetweenCommits, Terminate
<1>19. CASE Restart
  BY <1>19 DEF Restart, RecoverRows, Sweep
<1>20. CASE UNCHANGED vars
  BY <1>20 DEF vars
<1>21. QED
  BY <1>1, <1>2, <1>3, <1>4, <1>5, <1>6, <1>7, <1>8, <1>9, <1>11, <1>12, <1>13, <1>14,
     <1>15, <1>16, <1>17, <1>18, <1>19, <1>20
     DEF Next, Work, GlobalWork

\* While the service is up and no stop is in progress, no syncing row lacks a live transfer
\* and no RUNNING run row lacks a live call.
THEOREM NothingLeftBehind == Spec => []NoWorkLeftBehind
<1>1. Init => NoWorkLeftBehind
  BY DEF Init, NoWorkLeftBehind
<1>2. TypeOK /\ TransferInv /\ [Next]_vars => TransferInv'
  BY TransferInvStep
<1>3. TypeOK /\ TransferInv /\ NoWorkLeftBehind /\ [Next]_vars => NoWorkLeftBehind'
  BY NoWorkLeftBehindStep
<1>4. QED
  BY TypeCorrect, TransferInvInit, <1>1, <1>2, <1>3, PTL DEF Spec

-----------------------------------------------------------------------------
(* What a row and a run say of the past.                                   *)

\* Every step keeps a reason beside each error.
LEMMA ErrorIsExplainedStep ==
  ASSUME TypeOK, ErrorIsExplained, [Next]_vars PROVE ErrorIsExplained'
<1> USE DEF TypeOK, ErrorIsExplained, columns, runRows, globals, stops
<1>1. ASSUME UNCHANGED columns PROVE ErrorIsExplained'
  BY <1>1
<1>2. ASSUME NEW r \in Repos, NEW holder, Begin(r, holder) PROVE ErrorIsExplained'
  BY <1>2 DEF Begin
<1>3. ASSUME NEW r \in Repos, ManualRun(r) \/ ChildRun(r) PROVE ErrorIsExplained'
  BY <1>1, <1>2, <1>3 DEF ManualRun, ChildRun
<1>4. ASSUME NEW r \in Repos, NEW holder \in {"manual", "child"}, Finish(r, holder)
      PROVE  ErrorIsExplained'
  BY <1>4 DEF Finish, Fail, Succeed, StatusAfterSuccess, ErrorAfterFailure
<1>5. ASSUME NEW kind \in Kinds, ListingSucceeds(kind) PROVE ErrorIsExplained'
  <2>1. PICK seen \in SUBSET RowsOf(kind) : Reconcile(kind, seen)
    BY <1>5 DEF ListingSucceeds
  <2>2. \A r \in Repos : status'[r] = "error" => status[r] = "error"
    BY <2>1 DEF Reconcile, Missing
  <2>3. QED
    BY <2>1, <2>2 DEF Reconcile
<1>6. ASSUME NEW message \in {"stopped", "restart"}, Sweep(message) PROVE ErrorIsExplained'
  BY <1>6 DEF Sweep
<1>7. ASSUME NEW s \in Stoppers, StopReturns(s) PROVE ErrorIsExplained'
  BY <1>6, <1>7 DEF StopReturns
<1>8. CASE Restart
  BY <1>6, <1>8 DEF Restart, RecoverRows
<1>9. ASSUME NEW r \in Repos, CrashBetweenCommits(r) PROVE ErrorIsExplained'
  BY <1>9 DEF CrashBetweenCommits, StatusAfterSuccess, ErrorAfterFailure
<1>10. ASSUME NEW r \in Repos,
              StartRepositorySync(r) \/ ManualUnwinds(r) \/ ChildUnwinds(r) \/ OrphanUnwinds(r)
       PROVE  ErrorIsExplained'
  BY <1>1, <1>10 DEF StartRepositorySync, ManualUnwinds, ChildUnwinds, OrphanUnwinds
<1>11. CASE StartGlobalSync \/ GlobalRun \/ GatherReturns \/ MaintenanceReturns \/ MaintenanceUnwinds
  BY <1>1, <1>11 DEF StartGlobalSync, GlobalRun, GatherReturns, MaintenanceReturns, MaintenanceUnwinds
<1>12. ASSUME NEW kind \in Kinds, ListingFails(kind) PROVE ErrorIsExplained'
  BY <1>1, <1>12 DEF ListingFails, FailureLeavesRows
<1>13. CASE Shutdown \/ Exit \/ Crash \/ \E s \in Stoppers : StopActiveSyncs(s)
  BY <1>1, <1>13 DEF Shutdown, Exit, Crash, StopActiveSyncs
<1>14. CASE UNCHANGED vars
  BY <1>1, <1>14 DEF vars
<1>15. QED
  BY <1>3, <1>4, <1>5, <1>7, <1>8, <1>9, <1>10, <1>11, <1>12, <1>13, <1>14
     DEF Next, Work, GlobalWork

\* Failure, stop and restart are the only writers of "error", and each stores its reason.
THEOREM EveryErrorHasAReason == Spec => []ErrorIsExplained
<1>1. Init => ErrorIsExplained
  BY DEF Init, ErrorIsExplained
<1>2. TypeOK /\ ErrorIsExplained /\ [Next]_vars => ErrorIsExplained'
  BY ErrorIsExplainedStep
<1>3. QED
  BY TypeCorrect, <1>1, <1>2, PTL DEF Spec

\* A child that reports success mirrored its repository in this run.
SuccessIsFresh == \A r \in Repos :
  phase \in {"gather", "maintain"} /\ child[r] \in {"ok", "warned"} => r \in fresh

\* Every step keeps: a child that reports success mirrored its row in this run.
LEMMA SuccessIsFreshStep ==
  ASSUME TypeOK, SuccessIsFresh, [Next]_vars PROVE SuccessIsFresh'
<1> USE DEF TypeOK, SuccessIsFresh, columns, runRows, globals, stops
<1>1. ASSUME UNCHANGED <<globals, child, fresh>> PROVE SuccessIsFresh'
  BY <1>1
<1>2. ASSUME phase' \notin {"gather", "maintain"} PROVE SuccessIsFresh'
  BY <1>2
<1>3. ASSUME NEW r \in Repos, ManualRun(r) PROVE SuccessIsFresh'
  BY <1>1, <1>3 DEF ManualRun, Begin
<1>4. ASSUME NEW r \in Repos, ChildRun(r) PROVE SuccessIsFresh'
  BY <1>4 DEF ChildRun, Begin, Refused
<1>5. ASSUME NEW r \in Repos, NEW holder \in {"manual", "child"}, Finish(r, holder)
      PROVE  SuccessIsFresh'
  BY <1>5 DEF Finish, Fail, Succeed, Return
<1>6. ASSUME NEW kind \in Kinds, NEW rows, Advance(kind, rows) PROVE SuccessIsFresh'
  BY <1>6 DEF Advance, NextPhase, Kinds
<1>7. ASSUME NEW kind \in Kinds, ListingSucceeds(kind) \/ ListingFails(kind)
      PROVE  SuccessIsFresh'
  BY <1>6, <1>7 DEF ListingSucceeds, ListingFails
<1>8. CASE GatherReturns
  BY <1>8 DEF GatherReturns, FinishRun
<1>9. ASSUME CancelAll PROVE SuccessIsFresh'
  BY <1>9 DEF CancelAll, CancelGlobal, AbandonGlobal
<1>10. ASSUME NEW r \in Repos,
              StartRepositorySync(r) \/ ManualUnwinds(r) \/ OrphanUnwinds(r)
       PROVE  SuccessIsFresh'
  BY <1>1, <1>10 DEF StartRepositorySync, ManualUnwinds, OrphanUnwinds
<1>11. ASSUME NEW r \in Repos, ChildUnwinds(r) PROVE SuccessIsFresh'
  BY <1>2, <1>11 DEF ChildUnwinds, AbandonGlobal
<1>12. CASE StartGlobalSync \/ GlobalRun \/ MaintenanceReturns \/ MaintenanceUnwinds
  BY <1>2, <1>12 DEF StartGlobalSync, GlobalRun, MaintenanceReturns, FinishRun,
                     MaintenanceUnwinds, AbandonGlobal
<1>13. CASE Shutdown \/ \E s \in Stoppers : StopActiveSyncs(s)
  BY <1>9, <1>13 DEF Shutdown, StopActiveSyncs
<1>14. CASE Exit \/ Crash \/ \E r \in Repos : CrashBetweenCommits(r)
  BY <1>2, <1>14 DEF Exit, Crash, CrashBetweenCommits, Terminate
<1>15. CASE Restart \/ \E s \in Stoppers : StopReturns(s)
  BY <1>1, <1>15 DEF Restart, RecoverRows, StopReturns, Sweep
<1>16. CASE UNCHANGED vars
  BY <1>1, <1>16 DEF vars
<1>17. QED
  BY <1>3, <1>4, <1>5, <1>7, <1>8, <1>10, <1>11, <1>12, <1>13, <1>14, <1>15, <1>16
     DEF Next, Work, GlobalWork

\* A run recorded as a success mirrored all it discovered, for any number of repositories.
THEOREM SuccessIsHonest == Spec => []SuccessMeansMirrored
<1>1. Init => SuccessIsFresh
  BY DEF Init, SuccessIsFresh
<1>2. TypeOK /\ SuccessIsFresh /\ [Next]_vars => SuccessIsFresh'
  BY SuccessIsFreshStep
<1>3. TypeOK /\ SuccessIsFresh => SuccessMeansMirrored
  BY DEF TypeOK, SuccessIsFresh, SuccessMeansMirrored, Gathered, RunVerdict
<1>4. QED
  BY TypeCorrect, <1>1, <1>2, <1>3, PTL DEF Spec

-----------------------------------------------------------------------------
(* The semaphore.                                                          *)

\* The children past the semaphore of sync_all.
Past(children) == {r \in Repos : children[r] \in Busy}

\* Fewer children past the semaphore are at most as many.
LEMMA PastShrinks ==
  ASSUME NEW S \in SUBSET Repos, NEW T, T \subseteq S, Cardinality(S) <= SyncConcurrency
  PROVE  Cardinality(T) <= SyncConcurrency
<1>1. IsFiniteSet(S) /\ IsFiniteSet(T)
  BY FinitenessAssumption, FS_Subset
<1>2. Cardinality(T) \in Nat /\ Cardinality(S) \in Nat /\ Cardinality(T) <= Cardinality(S)
  BY <1>1, FS_Subset, FS_CardinalityType
<1>3. QED
  BY <1>2, ConcurrencyAssumption

\* Every step keeps the bound of the semaphore.
LEMMA ConcurrencyStep ==
  ASSUME TypeOK, ConcurrencyHonored, [Next]_vars PROVE ConcurrencyHonored'
<1> USE DEF TypeOK, Past, Busy
<1>1. ConcurrencyHonored <=> Cardinality(Past(child)) <= SyncConcurrency
  BY DEF ConcurrencyHonored
<1>2. ConcurrencyHonored' <=> Cardinality(Past(child')) <= SyncConcurrency
  BY DEF ConcurrencyHonored
<1>3. ASSUME \A r \in Repos : child'[r] \in Busy => child[r] \in Busy PROVE ConcurrencyHonored'
  <2>1. Past(child') \subseteq Past(child) /\ Past(child) \in SUBSET Repos
    BY <1>3
  <2>2. QED
    BY <1>1, <1>2, <2>1, PastShrinks
<1>4. ASSUME NEW r \in Repos, ChildRun(r) PROVE ConcurrencyHonored'
  <2>1. CASE Locked(r)
    BY <1>3, <1>4, <2>1 DEF ChildRun, Refused
  <2>2. CASE ~Locked(r)
    <3>1. Past(child') = Past(child) \cup {r} /\ r \notin Past(child)
      BY <1>4, <2>2 DEF ChildRun
    <3>2. IsFiniteSet(Past(child)) /\ Cardinality(Past(child)) \in Nat
      BY FinitenessAssumption, FS_Subset, FS_CardinalityType
    <3>3. Cardinality(Past(child')) = Cardinality(Past(child)) + 1
      BY <3>1, <3>2, FS_AddElement
    <3>4. Cardinality(Past(child)) < SyncConcurrency
      BY <1>4 DEF ChildRun, SemaphoreFree
    <3>5. QED
      BY <1>2, <3>2, <3>3, <3>4, ConcurrencyAssumption
  <2>3. QED
    BY <2>1, <2>2
<1>5. ASSUME NEW r \in Repos, NEW holder \in {"manual", "child"}, Finish(r, holder)
      PROVE  ConcurrencyHonored'
  BY <1>3, <1>5 DEF Finish, Fail, Succeed, Return
<1>6. ASSUME UNCHANGED child PROVE ConcurrencyHonored'
  BY <1>3, <1>6
<1>7. ASSUME NEW kind \in Kinds, ListingSucceeds(kind) \/ ListingFails(kind)
      PROVE  ConcurrencyHonored'
  BY <1>3, <1>7 DEF ListingSucceeds, ListingFails, Advance
<1>8. CASE GatherReturns \/ MaintenanceReturns \/ MaintenanceUnwinds
  BY <1>3, <1>8 DEF GatherReturns, MaintenanceReturns, MaintenanceUnwinds, FinishRun, AbandonGlobal
<1>9. CASE Shutdown \/ \E s \in Stoppers : StopActiveSyncs(s)
  BY <1>3, <1>9 DEF Shutdown, StopActiveSyncs, CancelAll, CancelGlobal, AbandonGlobal
<1>10. CASE Exit \/ Crash \/ \E r \in Repos : CrashBetweenCommits(r)
  BY <1>3, <1>10 DEF Exit, Crash, CrashBetweenCommits, Terminate
<1>11. ASSUME NEW r \in Repos, ChildUnwinds(r) PROVE ConcurrencyHonored'
  BY <1>3, <1>11 DEF ChildUnwinds, AbandonGlobal
<1>12. ASSUME NEW r \in Repos,
              StartRepositorySync(r) \/ ManualRun(r) \/ ManualUnwinds(r) \/ OrphanUnwinds(r)
       PROVE  ConcurrencyHonored'
  BY <1>6, <1>12 DEF StartRepositorySync, ManualRun, ManualUnwinds, OrphanUnwinds
<1>13. CASE StartGlobalSync \/ GlobalRun \/ Restart \/ \E s \in Stoppers : StopReturns(s)
  BY <1>6, <1>13 DEF StartGlobalSync, GlobalRun, Restart, StopReturns
<1>14. CASE UNCHANGED vars
  BY <1>6, <1>14 DEF vars
<1>15. QED
  BY <1>4, <1>5, <1>7, <1>8, <1>9, <1>10, <1>11, <1>12, <1>13, <1>14
     DEF Next, Work, GlobalWork

\* A global run keeps to SYNC_CONCURRENCY for any number of repositories.
THEOREM SemaphoreBounds == Spec => []ConcurrencyHonored
<1>1. Init => ConcurrencyHonored
  <2> SUFFICES ASSUME Init PROVE ConcurrencyHonored
    OBVIOUS
  <2>1. {r \in Repos : child[r] \in {"running", "cancelled"}} = {}
    BY DEF Init
  <2>2. QED
    BY <2>1, FS_EmptySet, ConcurrencyAssumption DEF ConcurrencyHonored
<1>2. TypeOK /\ ConcurrencyHonored /\ [Next]_vars => ConcurrencyHonored'
  BY ConcurrencyStep
<1>3. QED
  BY TypeCorrect, <1>1, <1>2, PTL DEF Spec

-----------------------------------------------------------------------------
(* Rows that are reported missing.                                         *)

\* No kind has failed before its own listing.
ErrorsFollowListings ==
  /\ phase = "owned" => errors = {}
  /\ phase = "starred" => errors \subseteq {"owned"}
  /\ phase = "external" => errors \subseteq {"owned", "starred"}

\* Every step keeps: a kind has a discovery error only after its listing.
LEMMA ErrorsFollowListingsStep ==
  ASSUME TypeOK, ErrorsFollowListings, [Next]_vars PROVE ErrorsFollowListings'
<1> USE DEF TypeOK, ErrorsFollowListings, columns, runRows, globals, stops
<1>1. ASSUME UNCHANGED <<phase, errors>> PROVE ErrorsFollowListings'
  BY <1>1
<1>2. ASSUME phase' \notin Kinds PROVE ErrorsFollowListings'
  BY <1>2 DEF Kinds
<1>3. CASE GlobalRun
  BY <1>3 DEF GlobalRun
<1>4. ASSUME NEW kind \in Kinds, ListingSucceeds(kind) \/ ListingFails(kind)
      PROVE  ErrorsFollowListings'
  BY <1>4 DEF ListingSucceeds, ListingFails, Advance, NextPhase, Kinds
<1>5. ASSUME CancelAll PROVE ErrorsFollowListings'
  BY <1>5, <1>2 DEF CancelAll, CancelGlobal, AbandonGlobal, Kinds
<1>6. CASE Shutdown \/ \E s \in Stoppers : StopActiveSyncs(s)
  BY <1>5, <1>6 DEF Shutdown, StopActiveSyncs
<1>7. CASE StartGlobalSync \/ GatherReturns \/ MaintenanceReturns \/ MaintenanceUnwinds
  BY <1>2, <1>7 DEF StartGlobalSync, GatherReturns, MaintenanceReturns, FinishRun,
                    MaintenanceUnwinds, AbandonGlobal, Kinds
<1>8. CASE Exit \/ Crash \/ \E r \in Repos : CrashBetweenCommits(r) \/ ChildUnwinds(r)
  BY <1>2, <1>8 DEF Exit, Crash, CrashBetweenCommits, Terminate, ChildUnwinds, AbandonGlobal, Kinds
<1>9. ASSUME NEW r \in Repos,
             \/ StartRepositorySync(r) \/ ManualRun(r) \/ ChildRun(r)
             \/ Finish(r, "manual") \/ Finish(r, "child")
             \/ ManualUnwinds(r) \/ OrphanUnwinds(r)
      PROVE  ErrorsFollowListings'
  BY <1>1, <1>9 DEF StartRepositorySync, ManualRun, ChildRun, Finish, ManualUnwinds, OrphanUnwinds
<1>10. CASE Restart \/ \E s \in Stoppers : StopReturns(s)
  BY <1>1, <1>10 DEF Restart, StopReturns
<1>11. CASE UNCHANGED vars
  BY <1>1, <1>11 DEF vars
<1>12. QED
  BY <1>3, <1>4, <1>6, <1>7, <1>8, <1>9, <1>10, <1>11 DEF Next, Work, GlobalWork

\* The row r is written as missing in this step, by one of the two steps that may.
Explained(r) ==
  status'[r] \in {"unavailable", "unstarred"} /\ status'[r] # status[r] =>
    \/ \E kind \in Kinds : r \in RowsOf(kind) /\ phase = kind /\ phase' # kind /\ kind \notin errors'
    \/ manual[r] = "running" /\ manual'[r] = "none" /\ previous[r] = status'[r]

\* A step that marks a row missing is a complete listing or a manual sync.
LEMMA MissingIsExplained ==
  ASSUME TypeOK, ErrorsFollowListings, [Next]_vars, NEW r \in Repos PROVE Explained(r)
<1> USE DEF TypeOK, Explained, columns, runRows, globals, stops
<1>1. ASSUME status'[r] = status[r] \/ status'[r] \in {"active", "syncing", "error"}
      PROVE  Explained(r)
  BY <1>1
<1>2. ASSUME NEW q \in Repos, ManualRun(q) \/ ChildRun(q) PROVE Explained(r)
  BY <1>1, <1>2 DEF ManualRun, ChildRun, Begin
<1>3. ASSUME NEW q \in Repos, NEW holder \in {"manual", "child"}, Finish(q, holder)
      PROVE  Explained(r)
  BY <1>1, <1>3 DEF Finish, Fail, Succeed, Return, Transfers, StatusAfterSuccess
<1>4. ASSUME NEW kind \in Kinds, ListingSucceeds(kind) PROVE Explained(r)
  <2>1. PICK seen \in SUBSET RowsOf(kind) : Reconcile(kind, seen) /\ Advance(kind, found \cup seen)
    BY <1>4 DEF ListingSucceeds
  <2>2. CASE r \notin RowsOf(kind)
    BY <1>1, <2>1, <2>2 DEF Reconcile
  <2>3. CASE r \in RowsOf(kind)
    <3>1. phase = kind /\ phase' # kind
      BY <1>4, <2>1 DEF ListingSucceeds, Advance, NextPhase, Kinds
    <3>2. kind \notin errors'
      BY <1>4 DEF ListingSucceeds, ErrorsFollowListings, Kinds
    <3>3. QED
      BY <2>3, <3>1, <3>2
  <2>4. QED
    BY <2>2, <2>3
<1>5. ASSUME NEW q \in Repos, CrashBetweenCommits(q) PROVE Explained(r)
  BY <1>1, <1>5 DEF CrashBetweenCommits, Terminate, Transfers, StatusAfterSuccess
<1>6. CASE Restart \/ \E s \in Stoppers : StopReturns(s)
  BY <1>1, <1>6 DEF Restart, RecoverRows, StopReturns, Sweep
<1>7. ASSUME UNCHANGED status PROVE Explained(r)
  BY <1>1, <1>7
<1>8. CASE \/ StartGlobalSync \/ GlobalRun \/ GatherReturns \/ MaintenanceReturns
           \/ MaintenanceUnwinds \/ Shutdown \/ Exit \/ Crash
  BY <1>7, <1>8 DEF StartGlobalSync, GlobalRun, GatherReturns, MaintenanceReturns,
                    MaintenanceUnwinds, Shutdown, Exit, Crash
<1>9. CASE \/ \E s \in Stoppers : StopActiveSyncs(s)
           \/ \E kind \in Kinds : ListingFails(kind)
           \/ \E q \in Repos : \/ StartRepositorySync(q) \/ ManualUnwinds(q)
                               \/ ChildUnwinds(q) \/ OrphanUnwinds(q)
  BY <1>7, <1>9 DEF StopActiveSyncs, ListingFails, FailureLeavesRows, StartRepositorySync,
                    ManualUnwinds, ChildUnwinds, OrphanUnwinds
<1>10. CASE UNCHANGED vars
  BY <1>7, <1>10 DEF vars
<1>11. QED
  BY <1>2, <1>3, <1>4, <1>5, <1>6, <1>8, <1>9, <1>10 DEF Next, Work, GlobalWork

\* A failed listing never marks a row unavailable or unstarred.
THEOREM OnlyListingsMarkMissing == Spec => MissingOnlyAfterListing
<1>1. Init => ErrorsFollowListings
  BY DEF Init, ErrorsFollowListings
<1>2. TypeOK /\ ErrorsFollowListings /\ [Next]_vars => ErrorsFollowListings'
  BY ErrorsFollowListingsStep
<1>3. TypeOK /\ ErrorsFollowListings /\ [Next]_vars => [\A r \in Repos : Explained(r)]_vars
  BY MissingIsExplained
<1>4. QED
  BY TypeCorrect, <1>1, <1>2, <1>3, PTL DEF Spec, MissingOnlyAfterListing, Explained
==============================================================================
