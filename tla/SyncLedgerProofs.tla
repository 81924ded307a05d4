--------------------------- MODULE SyncLedgerProofs ---------------------------
(***************************************************************************)
(* SyncService implements SyncLedger, for any rows and stop requests.      *)
(***************************************************************************)
EXTENDS SyncServiceProofs

\* The ledger's own promise: in every behaviour it allows, a stale record is owed by somebody.
THEOREM LedgerIsSound == Ledger!Spec => []Ledger!DebtsAreOwed
<1> USE DEF Ledger!DebtsAreOwed
<1>1. Ledger!Init => Ledger!DebtsAreOwed
  BY DEF Ledger!Init
<1>2. ASSUME Ledger!DebtsAreOwed, [Ledger!Next]_(Ledger!vars) PROVE Ledger!DebtsAreOwed'
  <2>1. CASE UNCHANGED Ledger!vars
    BY <1>2, <2>1 DEF Ledger!vars
  <2>2. ASSUME NEW r \in Repos, Ledger!Begin(r) \/ Ledger!End(r) \/ Ledger!Release(r)
        PROVE  Ledger!DebtsAreOwed'
    BY <1>2, <2>2 DEF Ledger!Begin, Ledger!End, Ledger!Release
  <2>3. CASE Ledger!Interrupt
    BY <1>2, <2>3 DEF Ledger!Interrupt
  <2>4. CASE Ledger!Correct
    BY <1>2, <2>4 DEF Ledger!Correct
  <2>5. CASE Ledger!Settle \/ Ledger!Die \/ Ledger!Recover
    BY <1>2, <2>5 DEF Ledger!Settle, Ledger!Die, Ledger!Recover
  <2>6. QED
    BY <1>2, <2>1, <2>2, <2>3, <2>4, <2>5 DEF Ledger!Next
<1>3. QED
  BY <1>1, <1>2, PTL DEF Ledger!Spec

-----------------------------------------------------------------------------
(* A cancellation turns RUNNING run rows into stale ones.  They are those  *)
(* of the work it cuts short, because a run row of a repository is open    *)
(* only while its transfer is live.                                        *)

OpenIsLive == \A r \in Repos : r \in open => Live(r)

LEMMA OpenIsLiveInit == Init => OpenIsLive
BY DEF Init, OpenIsLive

\* Every step keeps OpenIsLive.
LEMMA OpenIsLiveStep ==
  ASSUME TypeOK, TransferInv, OpenIsLive, [Next]_vars PROVE OpenIsLive'
<1> USE DEF TypeOK, OpenIsLive, Live, Transfers, columns, runRows, globals, stops
<1>1. CASE StartGlobalSync
  BY <1>1 DEF StartGlobalSync
<1>2. ASSUME NEW r \in Repos, StartRepositorySync(r) PROVE OpenIsLive'
  BY <1>2 DEF StartRepositorySync
<1>3. ASSUME NEW r \in Repos, ManualRun(r) \/ ChildRun(r) PROVE OpenIsLive'
  BY <1>3 DEF ManualRun, ChildRun, Begin
<1>4. ASSUME NEW r \in Repos, NEW holder \in {"manual", "child"}, Finish(r, holder)
      PROVE  OpenIsLive'
  <2>1. open' = open \ {r}
    BY <1>4 DEF Finish, Fail, Succeed, Return
  <2>2. \A q \in Repos \ {r} : manual'[q] = manual[q] /\ child'[q] = child[q]
    BY <1>4 DEF Finish, Fail, Succeed, Return
  <2>3. QED
    BY <2>1, <2>2
<1>5. ASSUME NEW r \in Repos, ManualUnwinds(r) \/ OrphanUnwinds(r) PROVE OpenIsLive'
  BY <1>5 DEF ManualUnwinds, OrphanUnwinds
<1>6. ASSUME NEW r \in Repos, ChildUnwinds(r) PROVE OpenIsLive'
  <2>1. \A q \in Repos : child[q] # "running"
    BY <1>6 DEF ChildUnwinds, TransferInv, CancelReachesAll
  <2>2. QED
    BY <1>6, <2>1 DEF ChildUnwinds
<1>7. CASE GlobalRun
  BY <1>7, KindsAssumption DEF GlobalRun
<1>8. ASSUME NEW kind \in Kinds, phase = kind PROVE \A r \in Repos : child[r] # "running"
  BY <1>8 DEF TransferInv, GatherOwnsChildren, Busy, Kinds
<1>9. ASSUME NEW kind \in Kinds, ListingSucceeds(kind) \/ ListingFails(kind) PROVE OpenIsLive'
  BY <1>8, <1>9 DEF ListingSucceeds, ListingFails
<1>10. CASE GatherReturns
  <2>1. \A r \in Repos : child[r] # "running"
    BY <1>10 DEF GatherReturns, Gathered, TransferInv, GatherOwnsChildren
  <2>2. QED
    BY <1>10, <2>1 DEF GatherReturns, FinishRun
<1>11. CASE MaintenanceReturns \/ MaintenanceUnwinds
  <2>1. \A r \in Repos : child[r] # "running"
    BY <1>11 DEF MaintenanceReturns, MaintenanceUnwinds, TransferInv, GatherOwnsChildren, Busy
  <2>2. QED
    BY <1>11, <2>1 DEF MaintenanceReturns, MaintenanceUnwinds, FinishRun
<1>12. CASE Shutdown \/ \E s \in Stoppers : StopActiveSyncs(s)
  BY <1>12 DEF Shutdown, StopActiveSyncs, CancelAll
<1>13. ASSUME NEW s \in Stoppers, StopReturns(s) PROVE OpenIsLive'
  BY <1>13 DEF StopReturns, SweepRunRows
<1>14. CASE Exit \/ Crash \/ \E r \in Repos : CrashBetweenCommits(r)
  BY <1>14 DEF Exit, Crash, CrashBetweenCommits, Terminate
<1>15. CASE Restart
  BY <1>15 DEF Restart
<1>16. CASE UNCHANGED vars
  BY <1>16 DEF vars
<1>17. QED
  BY <1>1, <1>2, <1>3, <1>4, <1>5, <1>6, <1>7, <1>9, <1>10, <1>11, <1>12, <1>13, <1>14,
     <1>15, <1>16
     DEF Next, Work, GlobalWork

-----------------------------------------------------------------------------
(* Refinement.                                                             *)

\* What the ledger does not show is a stuttering step of it.
LEMMA LedgerUnchanged ==
  ASSUME UNCHANGED <<status, lost, lock, proc, stopping>>, \A r \in Repos : Live(r)' <=> Live(r)
  PROVE  UNCHANGED Ledger!vars
<1>1. Occupation' = Occupation
  BY DEF Occupation
<1>2. Stale' = Stale
  BY DEF Stale
<1>3. QED
  BY <1>1, <1>2 DEF Ledger!vars

\* A transfer that takes the free lock of its repository begins its work.
LEMMA BeginIsBegin ==
  ASSUME TypeOK, TransferInv, NEW r \in Repos, NEW holder \in {"manual", "child"},
         proc = "up", ~Locked(r), Begin(r, holder), Live(r)',
         \A q \in Repos \ {r} : Live(q)' <=> Live(q), UNCHANGED <<proc, stopping>>
  PROVE  Ledger!Begin(r)
<1>1. ~Live(r) /\ lock[r] = "free"
  BY DEF Locked, TransferInv, LockNamesHolder, Busy, Live, Transfers
<1>2. Occupation[r] = "idle"
  BY <1>1 DEF Occupation
<1>3. Occupation' = [Occupation EXCEPT ![r] = "working"]
  BY DEF Occupation, Begin, TypeOK
<1>4. Stale' \in {Stale, Stale \ {r}}
  <2>1. \A q \in Repos \ {r} : status'[q] = status[q]
    BY DEF Begin, TypeOK
  <2>2. lost' = lost
    BY DEF Begin
  <2>3. CASE r \in lost
    <3>1. \A x : x \in Stale' <=> x \in Stale
      BY <2>1, <2>2, <2>3 DEF Stale
    <3>2. QED
      BY <3>1
  <2>4. CASE r \notin lost
    <3>1. \A x : x \in Stale' <=> x \in Stale \ {r}
      BY <2>1, <2>2, <2>4 DEF Stale
    <3>2. QED
      BY <3>1
  <2>5. QED
    BY <2>3, <2>4
<1>5. QED
  BY <1>2, <1>3, <1>4 DEF Ledger!Begin

\* The outcome of a transfer ends its work.
LEMMA FinishIsEnd ==
  ASSUME TypeOK, TransferInv, NEW r \in Repos, NEW holder \in {"manual", "child"}, Finish(r, holder)
  PROVE  Ledger!End(r)
<1>1. Live(r) /\ proc = "up"
  BY DEF Finish, Live, Transfers
<1>2. /\ lock' = [lock EXCEPT ![r] = "free"]
      /\ \A q \in Repos \ {r} : manual'[q] = manual[q] /\ child'[q] = child[q] /\ status'[q] = status[q]
      /\ UNCHANGED <<lost, proc, stopping>>
  BY DEF Finish, Fail, Succeed, Return, TypeOK
<1>3. ~Live(r)' /\ status'[r] # "syncing"
  <2>1. manual'[r] # "running" /\ child'[r] # "running"
    BY DEF Finish, Fail, Succeed, Return, TypeOK, Transfers, TransferInv, LockNamesHolder, Busy
  <2>2. status'[r] # "syncing"
    BY DEF Finish, Fail, Succeed, StatusAfterSuccess, TypeOK
  <2>3. QED
    BY <2>1, <2>2 DEF Live, Transfers
<1>4. \A q \in Repos \ {r} : Live(q)' <=> Live(q)
  BY <1>2 DEF Live, Transfers
<1>5. Occupation[r] = "working" /\ Occupation' = [Occupation EXCEPT ![r] = "idle"]
  BY <1>1, <1>2, <1>3, <1>4 DEF Occupation, TypeOK
<1>6. Stale' = Stale
  <2>1. \A x : x \in Stale' <=> x \in Stale
    BY <1>1, <1>2, <1>3, <1>4 DEF Stale
  <2>2. QED
    BY <2>1
<1>7. QED
  BY <1>1, <1>2, <1>5, <1>6 DEF Ledger!End

\* A call that had been cut short gives up the lock; the locks of others do not become free.
LEMMA UnwindIsRelease ==
  ASSUME TypeOK, TransferInv, NEW r \in Repos, lock[r] # "free", ~Live(r),
         lock'[r] = "free", \A q \in Repos \ {r} : lock'[q] = "free" <=> lock[q] = "free",
         \A q \in Repos : Live(q)' <=> Live(q), UNCHANGED <<status, lost, proc, stopping>>
  PROVE  Ledger!Release(r)
<1>1. Occupation[r] = "ending" /\ Occupation' = [Occupation EXCEPT ![r] = "idle"]
  BY DEF Occupation, TypeOK
<1>2. Stale' = Stale
  BY DEF Stale
<1>3. QED
  BY <1>1, <1>2 DEF Ledger!Release

\* Each of the three ways to unwind is one.
LEMMA UnwindsAreReleases ==
  ASSUME TypeOK, TransferInv, NEW r \in Repos, ManualUnwinds(r) \/ ChildUnwinds(r) \/ OrphanUnwinds(r)
  PROVE  Ledger!Release(r)
<1> USE DEF TypeOK, TransferInv, LockNamesHolder, Busy
<1>1. CASE ManualUnwinds(r)
  <2>1. /\ lock[r] = "manual" /\ lock' = [lock EXCEPT ![r] = "free"]
        /\ ~Live(r) /\ \A q \in Repos : Live(q)' <=> Live(q)
    BY <1>1 DEF ManualUnwinds, Live, Transfers
  <2>2. QED
    BY <1>1, <2>1, UnwindIsRelease DEF ManualUnwinds, columns, runRows
<1>2. CASE ChildUnwinds(r)
  <2>1. /\ lock[r] = "child" /\ manual[r] # "running"
        /\ \A q \in Repos : child[q] # "running" /\ child'[q] # "running"
    BY <1>2 DEF ChildUnwinds, CancelReachesAll, AbandonGlobal
  <2>2. ~Live(r) /\ \A q \in Repos : Live(q)' <=> Live(q)
    BY <1>2, <2>1 DEF ChildUnwinds, Live, Transfers
  <2>3. /\ lock'[r] = "free"
        /\ \A q \in Repos \ {r} : lock'[q] = IF child[q] \in Busy THEN "orphan" ELSE lock[q]
    BY <1>2 DEF ChildUnwinds, OrphanLock, Drop
  <2>4. \A q \in Repos \ {r} : lock'[q] = "free" <=> lock[q] = "free"
    BY <2>3
  <2>5. QED
    BY <1>2, <2>1, <2>2, <2>3, <2>4, UnwindIsRelease DEF ChildUnwinds, columns, runRows
<1>3. CASE OrphanUnwinds(r)
  <2>1. /\ manual[r] # "running" /\ child[r] # "running" /\ lock' = [lock EXCEPT ![r] = "free"]
        /\ UNCHANGED <<manual, child>>
    BY <1>3 DEF OrphanUnwinds
  <2>2. ~Live(r) /\ \A q \in Repos : Live(q)' <=> Live(q)
    BY <2>1 DEF Live, Transfers
  <2>3. QED
    BY <1>3, <2>1, <2>2, UnwindIsRelease DEF OrphanUnwinds, columns, runRows, stops
<1>4. QED
  BY <1>1, <1>2, <1>3

\* Cancelling every task cuts all live work short, and nothing else.
LEMMA CancelCutsShort ==
  ASSUME TypeOK, TransferInv, OpenIsLive, CancelAll, UNCHANGED status
  PROVE  /\ Occupation' = [r \in Repos |->
                             IF Occupation[r] = "working" THEN "ending" ELSE Occupation[r]]
         /\ \E cut \in SUBSET (Ledger!Working \cup {Global}) : Stale' = Stale \cup cut
<1> USE DEF TypeOK, TransferInv, LockNamesHolder, Busy, Live, Transfers
<1>1. /\ \A r \in Repos : manual'[r] # "running"
      /\ lost' = lost \cup open
  BY DEF CancelAll
<1>2. \A r \in Repos : /\ child'[r] # "running"
                       /\ lock'[r] = "free" <=> lock[r] = "free"
  <2>1. CASE EndsAtOnce /\ AbandonGlobal /\ lock' = [r \in Repos |-> Drop(r)]
    <3>1. \A r \in Repos : child'[r] = "none"
      BY <2>1 DEF AbandonGlobal
    <3>2. \A r \in Repos : lock'[r] = IF child[r] \in Busy THEN "orphan" ELSE lock[r]
      BY <2>1 DEF Drop
    <3>3. QED
      BY <3>1, <3>2
  <2>2. CASE /\ child' = [r \in Repos |-> IF child[r] = "running" THEN "cancelled" ELSE child[r]]
             /\ UNCHANGED lock
    BY <2>2
  <2>3. QED
    BY <2>1, <2>2 DEF CancelAll, CancelGlobal
<1>3. \A r \in Repos : ~Live(r)' /\ (Live(r) => lock[r] # "free")
  BY <1>1, <1>2
<1>4. Occupation' = [r \in Repos |->
                       IF Occupation[r] = "working" THEN "ending" ELSE Occupation[r]]
  BY <1>2, <1>3 DEF Occupation
<1>5. Ledger!Working = {r \in Repos : Live(r)}
  BY DEF Ledger!Working, Occupation
<1>6. Stale' = lost \cup open \cup {r \in Repos : status[r] = "syncing"}
  BY <1>1, <1>3 DEF Stale
<1>7. open \subseteq {r \in Repos : Live(r)} \cup {Global}
  BY DEF OpenIsLive, Tasks
<1>8. DEFINE cut == open \cup {r \in Repos : status[r] = "syncing" /\ Live(r)}
<1>9. Stale' = Stale \cup cut
  BY <1>6 DEF Stale
<1>10. cut \in SUBSET (Ledger!Working \cup {Global})
  BY <1>5, <1>7
<1>11. QED
  BY <1>4, <1>9, <1>10

\* The end of the process leaves nothing at work; what was in progress becomes stale.
LEMMA TerminateIsDie ==
  ASSUME TypeOK, OpenIsLive, proc # "down", Terminate,
         \A r \in Repos : status[r] = "syncing" /\ ~Live(r) => status'[r] = "syncing"
  PROVE  Ledger!Die
<1>1. Occupation' = [r \in Repos |-> "idle"]
  BY DEF Terminate, Occupation, Live, Transfers
<1>2. Stale' = Stale \cup (open \cup {r \in Repos : status'[r] = "syncing"})
  BY DEF Terminate, Stale, Live, Transfers
<1>3. (open \cup {r \in Repos : status'[r] = "syncing"}) \in SUBSET Ledger!Records
  BY DEF TypeOK, Tasks, Ledger!Records
<1>4. QED
  BY <1>1, <1>2, <1>3 DEF Ledger!Die, Terminate

\* Every step of the service is a step of its ledger, or does not show in it.
LEMMA LedgerStep ==
  ASSUME TypeOK, TransferInv, OpenIsLive, [Next]_vars
  PROVE  [Ledger!Next]_(Ledger!vars)
<1> USE DEF columns, runRows, globals, stops
<1>1. CASE StartGlobalSync
  BY <1>1, LedgerUnchanged DEF StartGlobalSync, Live, Transfers
<1>2. ASSUME NEW r \in Repos, StartRepositorySync(r) PROVE UNCHANGED Ledger!vars
  <2>1. \A q \in Repos : Live(q)' <=> Live(q)
    BY <1>2 DEF StartRepositorySync, Live, Transfers, TypeOK
  <2>2. QED
    BY <1>2, <2>1, LedgerUnchanged DEF StartRepositorySync
<1>3. ASSUME NEW r \in Repos, ManualRun(r) PROVE [Ledger!Next]_(Ledger!vars)
  <2>1. CASE Locked(r)
    <3>1. \A q \in Repos : Live(q)' <=> Live(q)
      BY <1>3, <2>1 DEF ManualRun, Live, Transfers, TypeOK
    <3>2. QED
      BY <1>3, <2>1, <3>1, LedgerUnchanged DEF ManualRun
  <2>2. CASE ~Locked(r)
    <3>1. Live(r)' /\ \A q \in Repos \ {r} : Live(q)' <=> Live(q)
      BY <1>3, <2>2 DEF ManualRun, Live, Transfers, TypeOK
    <3>2. Begin(r, "manual") /\ proc = "up" /\ UNCHANGED <<proc, stopping>>
      BY <1>3, <2>2 DEF ManualRun
    <3>3. QED
      BY <2>2, <3>1, <3>2, BeginIsBegin DEF Ledger!Next
  <2>3. QED
    BY <2>1, <2>2
<1>4. ASSUME NEW r \in Repos, ChildRun(r) PROVE [Ledger!Next]_(Ledger!vars)
  <2>1. CASE Locked(r)
    <3>1. \A q \in Repos : Live(q)' <=> Live(q)
      BY <1>4, <2>1 DEF ChildRun, Live, Transfers, TypeOK, Refused
    <3>2. QED
      BY <1>4, <2>1, <3>1, LedgerUnchanged DEF ChildRun
  <2>2. CASE ~Locked(r)
    <3>1. Live(r)' /\ \A q \in Repos \ {r} : Live(q)' <=> Live(q)
      BY <1>4, <2>2 DEF ChildRun, Live, Transfers, TypeOK
    <3>2. Begin(r, "child") /\ proc = "up" /\ UNCHANGED <<proc, stopping>>
      BY <1>4, <2>2 DEF ChildRun
    <3>3. QED
      BY <2>2, <3>1, <3>2, BeginIsBegin DEF Ledger!Next
  <2>3. QED
    BY <2>1, <2>2
<1>5. ASSUME NEW r \in Repos, NEW holder \in {"manual", "child"}, Finish(r, holder)
      PROVE  Ledger!Next
  BY <1>5, FinishIsEnd DEF Ledger!Next
<1>6. ASSUME NEW r \in Repos, ManualUnwinds(r) \/ ChildUnwinds(r) \/ OrphanUnwinds(r)
      PROVE  Ledger!Next
  BY <1>6, UnwindsAreReleases DEF Ledger!Next
<1>7. CASE GlobalRun
  BY <1>7, LedgerUnchanged DEF GlobalRun, Live, Transfers
<1>8. ASSUME NEW kind \in Kinds, NEW rows, phase = kind, Advance(kind, rows), UNCHANGED manual
      PROVE  \A r \in Repos : Live(r)' <=> Live(r)
  <2>1. \A r \in Repos : child[r] # "running"
    BY <1>8 DEF TransferInv, GatherOwnsChildren, Busy, Kinds
  <2>2. \A r \in Repos : child'[r] # "running"
    BY <1>8, <2>1 DEF Advance
  <2>3. QED
    BY <1>8, <2>1, <2>2 DEF Live, Transfers
<1>9. ASSUME NEW kind \in Kinds, ListingSucceeds(kind) PROVE Ledger!Next
  <2>1. PICK seen \in SUBSET RowsOf(kind) : Reconcile(kind, seen) /\ Advance(kind, found \cup seen)
    BY <1>9 DEF ListingSucceeds
  <2>2. \A r \in Repos : Live(r)' <=> Live(r)
    BY <1>8, <1>9, <2>1 DEF ListingSucceeds
  <2>3. \A r \in Repos : status'[r] = "syncing" => status[r] = "syncing"
    BY <2>1 DEF Reconcile, Missing
  <2>4. Stale' \subseteq Stale
    BY <1>9, <2>2, <2>3 DEF Stale, ListingSucceeds
  <2>5. Occupation' = Occupation
    BY <1>9, <2>2 DEF Occupation, ListingSucceeds
  <2>6. Ledger!Correct
    BY <1>9, <2>4, <2>5 DEF Ledger!Correct, ListingSucceeds
  <2>7. QED
    BY <2>6 DEF Ledger!Next
<1>10. ASSUME NEW kind \in Kinds, ListingFails(kind) PROVE UNCHANGED Ledger!vars
  <2>1. \A r \in Repos : Live(r)' <=> Live(r)
    BY <1>8, <1>10 DEF ListingFails
  <2>2. QED
    BY <1>10, <2>1, LedgerUnchanged DEF ListingFails, FailureLeavesRows
<1>11. CASE GatherReturns \/ MaintenanceReturns \/ MaintenanceUnwinds
  <2>1. \A r \in Repos : child[r] # "running" /\ child'[r] # "running"
    BY <1>11 DEF GatherReturns, MaintenanceReturns, MaintenanceUnwinds, FinishRun, AbandonGlobal,
                 Gathered, TransferInv, GatherOwnsChildren, Busy
  <2>2. UNCHANGED <<status, lost, lock, proc, stopping, manual>>
    BY <1>11 DEF GatherReturns, MaintenanceReturns, MaintenanceUnwinds
  <2>3. \A r \in Repos : Live(r)' <=> Live(r)
    BY <2>1, <2>2 DEF Live, Transfers
  <2>4. QED
    BY <2>2, <2>3, LedgerUnchanged
<1>12. ASSUME CancelAll, proc = "up", UNCHANGED status,
              \/ stopping' # {} /\ UNCHANGED proc
              \/ proc' = "closing" /\ UNCHANGED stopping
       PROVE  Ledger!Next
  <2>1. Ledger!Interrupt
    BY <1>12, CancelCutsShort DEF Ledger!Interrupt
  <2>2. QED
    BY <2>1 DEF Ledger!Next
<1>13. ASSUME NEW s \in Stoppers, StopActiveSyncs(s) PROVE Ledger!Next
  BY <1>12, <1>13 DEF StopActiveSyncs
<1>14. CASE Shutdown
  BY <1>12, <1>14 DEF Shutdown
<1>15. ASSUME NEW s \in Stoppers, StopReturns(s) PROVE Ledger!Next
  <2>1. Stale' = {}
    BY <1>15 DEF StopReturns, Sweep, SweepRunRows, Stale
  <2>2. Occupation' = Occupation
    BY <1>15 DEF StopReturns, Occupation, Live, Transfers
  <2>3. Ledger!Settle
    BY <1>15, <2>1, <2>2 DEF Ledger!Settle, StopReturns
  <2>4. QED
    BY <2>3 DEF Ledger!Next
<1>16. CASE Exit \/ Crash
  BY <1>16, TerminateIsDie DEF Exit, Crash, Ledger!Next
<1>17. ASSUME NEW r \in Repos, CrashBetweenCommits(r) PROVE Ledger!Next
  <2>1. \A q \in Repos : status[q] = "syncing" /\ ~Live(q) => status'[q] = "syncing"
    BY <1>17 DEF CrashBetweenCommits, TypeOK, Live
  <2>2. QED
    BY <1>17, <2>1, TerminateIsDie DEF CrashBetweenCommits, Ledger!Next
<1>18. CASE Restart
  <2>1. Stale' = {}
    BY <1>18 DEF Restart, RecoverRows, Sweep, Stale
  <2>2. Occupation' = Occupation
    BY <1>18 DEF Restart, Occupation, Live, Transfers
  <2>3. Ledger!Recover
    BY <1>18, <2>1, <2>2 DEF Ledger!Recover, Restart
  <2>4. QED
    BY <2>3 DEF Ledger!Next
<1>19. CASE UNCHANGED vars
  BY <1>19, LedgerUnchanged DEF vars, Live, Transfers
<1>20. QED
  BY <1>1, <1>2, <1>3, <1>4, <1>5, <1>6, <1>7, <1>9, <1>10, <1>11, <1>13, <1>14, <1>15, <1>16,
     <1>17, <1>18, <1>19
     DEF Next, Work, GlobalWork

\* The service implements its ledger: whatever manual syncs, global runs, stops, shutdowns and
\* crashes do, each step is one the ledger allows.
THEOREM LedgerIsKept == Spec => KeepsItsLedger
<1>1. Init => Ledger!Init
  BY DEF Init, Ledger!Init, Occupation, Stale, Live, Transfers
<1>2. TypeOK /\ TransferInv /\ [Next]_vars => TransferInv'
  BY TransferInvStep
<1>3. TypeOK /\ TransferInv /\ OpenIsLive /\ [Next]_vars => OpenIsLive'
  BY OpenIsLiveStep
<1>4. TypeOK /\ TransferInv /\ OpenIsLive /\ [Next]_vars => [Ledger!Next]_(Ledger!vars)
  BY LedgerStep
<1>5. QED
  BY TypeCorrect, TransferInvInit, OpenIsLiveInit, <1>1, <1>2, <1>3, <1>4, PTL
     DEF Spec, KeepsItsLedger, Ledger!Spec
==============================================================================
