----------------------------- MODULE SyncService -----------------------------
(***************************************************************************)
(* The synchronization service of GitHarbor: src/githarbor/services/sync.py *)
(* with the reconciler and the scheduler that drive it.                    *)
(*                                                                         *)
(* One asyncio event loop runs the global task (sync_all), one manual task *)
(* per repository (start_repository_sync), the children that sync_all      *)
(* gathers, and the HTTP handlers that start and stop them.  A coroutine   *)
(* runs alone between two awaits, so an action is the code from one await  *)
(* to the next; the database transactions in it commit within the action.  *)
(* A crash may fall between two actions, and between two commits of one.   *)
(*                                                                         *)
(* What one transfer does between "the row says syncing" and its outcome   *)
(* (Gitea, Git, wiki, releases, packages) is one nondeterministic result   *)
(* here: it succeeds, succeeds with warnings, or raises.                   *)
(***************************************************************************)
EXTENDS Naturals, FiniteSets

CONSTANTS
  Owned, Starred, External,  \* database rows by kind; a row that is not yet inserted is "absent"
  Global,                    \* the task of sync_all, and the run row of scope "global"
  Stoppers,                  \* HTTP requests that may be inside stop_active_syncs at once
  SyncConcurrency,           \* settings.sync_concurrency
  ExternalEnabled            \* external_sources.enabled

Repos == Owned \cup Starred \cup External
Tasks == Repos \cup {Global}

ASSUME KindsAssumption ==
  /\ Owned \cap Starred = {} /\ Owned \cap External = {} /\ Starred \cap External = {}
  /\ Global \notin Repos
ASSUME FinitenessAssumption == IsFiniteSet(Repos)
ASSUME ConcurrencyAssumption == SyncConcurrency \in Nat \ {0}
ASSUME ExternalAssumption == ExternalEnabled \in BOOLEAN

Kinds == {"owned", "starred", "external"}
RowsOf(kind) == CASE kind = "owned"    -> Owned
                  [] kind = "starred"  -> Starred
                  [] kind = "external" -> External

\* RepositoryStatus without ARCHIVED, which no code of the repository writes.
Status == {"absent", "active", "syncing", "error", "unavailable", "unstarred"}
RepositoryStatus == Status \ {"absent"}
LastError == {"none", "failed", "stopped", "restart"}

ManualState == {"none", "created", "running", "cancelled"}
ChildState  == {"none", "queued", "running", "cancelled", "ok", "warned", "failed"}
Holder      == {"free", "manual", "child", "orphan"}
Phase       == {"idle", "created", "gather", "maintain", "cancelled"} \cup Kinds

VARIABLES
  \* The database: columns of the repositories table, then the run rows.
  status, currently_starred, last_error,
  open,        \* tasks whose own run row is RUNNING (Global, or a repository's live transfer)
  lost,        \* targets that have a RUNNING run row no live call will finish
  \* The process and its tasks.
  proc,        \* "up", "closing" (lifespan shutdown), "down"
  phase,       \* where the global task waits
  found,       \* rows in discovered_by_id
  errors,      \* kinds in discovery_errors
  child,       \* sync_discovered of each row
  manual,      \* _repository_tasks
  lock,        \* holder of _repository_locks; "orphan" is a child whose gather is gone
  previous,    \* previous_status of the live transfer, "active" when there is none
  stopping, awaited,  \* calls inside stop_active_syncs and the tasks each still awaits
  fresh        \* history, read by a property only: rows the current global run mirrored

columns == <<status, currently_starred, last_error>>
runRows == <<open, lost>>
globals == <<phase, found, errors>>
stops   == <<stopping, awaited>>
vars == <<columns, runRows, proc, globals, child, manual, lock, previous, stops, fresh>>

-----------------------------------------------------------------------------
\* A transfer is a call of sync_repository past its lock; it is live until cancelled.
Transfers(r, holder) ==
  \/ holder = "manual" /\ manual[r] = "running"
  \/ holder = "child" /\ child[r] = "running"
Live(r) == Transfers(r, "manual") \/ Transfers(r, "child")

IsRunning == phase # "idle" \/ \E r \in Repos : manual[r] # "none"

Init ==
  /\ status = [r \in Repos |-> "absent"]
  /\ currently_starred = [r \in Repos |-> FALSE]
  /\ last_error = [r \in Repos |-> "none"]
  /\ open = {} /\ lost = {}
  /\ proc = "up"
  /\ phase = "idle" /\ found = {} /\ errors = {}
  /\ child = [r \in Repos |-> "none"]
  /\ manual = [r \in Repos |-> "none"]
  /\ lock = [r \in Repos |-> "free"]
  /\ previous = [r \in Repos |-> "active"]
  /\ stopping = {} /\ awaited = [s \in Stoppers |-> {}]
  /\ fresh = {}

-----------------------------------------------------------------------------
(* Starting work: POST /api/sync, the dashboard's forms and the scheduler. *)

StartGlobalSync ==
  /\ proc = "up" /\ ~IsRunning
  /\ phase' = "created"
  /\ UNCHANGED <<columns, runRows, proc, found, errors, child, manual, lock, previous, stops, fresh>>

\* The handler answers 404 for a row that does not exist; it never looks at the global run.
StartRepositorySync(r) ==
  /\ proc = "up" /\ status[r] # "absent" /\ manual[r] = "none"
  /\ manual' = [manual EXCEPT ![r] = "created"]
  /\ UNCHANGED <<columns, runRows, proc, globals, child, lock, previous, stops, fresh>>

\* Defect: a task that was awaited ends unseen.
DoneUnseen(tasks) == UNCHANGED awaited
\* The gather inside stop_active_syncs sees these tasks done.
Done(tasks) == awaited' = [s \in Stoppers |-> awaited[s] \ tasks]

-----------------------------------------------------------------------------
(* sync_repository: the lock, the two transactions before the work, and    *)
(* the outcome.                                                            *)

\* Defect: the test lock.locked() is missing.
LockedNever(r) == FALSE
Locked(r) == lock[r] # "free"

\* The transaction that marks the row, and the run row committed before any work.
Begin(r, holder) ==
  /\ lock' = [lock EXCEPT ![r] = holder]
  /\ previous' = [previous EXCEPT ![r] = status[r]]
  /\ status' = [status EXCEPT ![r] = "syncing"]
  /\ last_error' = [last_error EXCEPT ![r] = "none"]
  /\ open' = open \cup {r}
  /\ UNCHANGED <<currently_starred, lost, fresh>>

\* First step of the task of start_repository_sync: a held lock ends it without a trace.
ManualRun(r) ==
  /\ proc = "up" /\ manual[r] = "created"
  /\ \/ /\ Locked(r)
        /\ manual' = [manual EXCEPT ![r] = "none"]
        /\ Done({r})
        /\ UNCHANGED <<columns, runRows, lock, previous, fresh>>
     \/ /\ ~Locked(r)
        /\ manual' = [manual EXCEPT ![r] = "running"]
        /\ Begin(r, "manual")
        /\ UNCHANGED awaited
  /\ UNCHANGED <<proc, globals, child, stopping>>

\* Defects: the children start without the semaphore; the semaphore is one short.
SemaphoreFreeAlways == TRUE
SemaphoreOneShort == Cardinality({r \in Repos : child[r] \in {"running", "cancelled"}}) + 1 < SyncConcurrency
SemaphoreFree == Cardinality({r \in Repos : child[r] \in {"running", "cancelled"}}) < SyncConcurrency

\* Defect: a child that finds the lock held reports success.
RefusedAsSuccess == "ok"
Refused == "failed"

\* A gathered child gets the semaphore; a held lock counts as a failed repository.
ChildRun(r) ==
  /\ proc = "up" /\ phase = "gather" /\ child[r] = "queued" /\ SemaphoreFree
  /\ \/ /\ Locked(r)
        /\ child' = [child EXCEPT ![r] = Refused]
        /\ UNCHANGED <<columns, runRows, lock, previous, fresh>>
     \/ /\ ~Locked(r)
        /\ child' = [child EXCEPT ![r] = "running"]
        /\ Begin(r, "child")
  /\ UNCHANGED <<proc, globals, manual, stops>>

\* The caller of a finished transfer: the gather keeps the child's result, a manual task is done.
Return(r, holder, result) ==
  /\ lock' = [lock EXCEPT ![r] = "free"]
  /\ previous' = [previous EXCEPT ![r] = "active"]
  /\ IF holder = "child"
     THEN child' = [child EXCEPT ![r] = result] /\ UNCHANGED <<manual, awaited>>
     ELSE manual' = [manual EXCEPT ![r] = "none"] /\ Done({r}) /\ UNCHANGED child
  /\ open' = open \ {r}

\* A preserved repository keeps UNSTARRED only for a manual trigger.
StatusAfterSuccess(r, holder) ==
  IF holder = "manual" /\ previous[r] = "unstarred" THEN "unstarred" ELSE "active"

Succeed(r, holder, warned) ==
  /\ status' = [status EXCEPT ![r] = StatusAfterSuccess(r, holder)]
  /\ last_error' = [last_error EXCEPT ![r] = "none"]
  /\ Return(r, holder, IF warned THEN "warned" ELSE "ok")
  /\ fresh' = IF holder = "child" THEN fresh \cup {r} ELSE fresh
  /\ UNCHANGED currently_starred

\* Defects: the handler of Exception forgets last_error, or stores an empty message.
ErrorAfterFailureForgotten(r) == last_error[r]
ErrorAfterFailureBlank(r) == ""
ErrorAfterFailure(r) == "failed"

\* except Exception: upstream moved, marker mismatch, Git, wiki, package errors.
Fail(r, holder) ==
  /\ status' = [status EXCEPT ![r] = "error"]
  /\ last_error' = [last_error EXCEPT ![r] = ErrorAfterFailure(r)]
  /\ Return(r, holder, "failed")
  /\ UNCHANGED <<currently_starred, fresh>>

Finish(r, holder) ==
  /\ proc = "up"
  /\ Transfers(r, holder)
  /\ Fail(r, holder) \/ \E warned \in BOOLEAN : Succeed(r, holder, warned)
  /\ UNCHANGED <<lost, proc, globals, stopping>>

-----------------------------------------------------------------------------
(* sync_all: three listings, each reconciled in one transaction, then the  *)
(* gather, cache maintenance and the run's verdict.                        *)

\* First step of the task: the lock is free, the run row is written.
GlobalRun ==
  /\ proc = "up" /\ phase = "created"
  /\ phase' = "owned" /\ found' = {} /\ errors' = {}
  /\ open' = open \cup {Global} /\ fresh' = {}
  /\ UNCHANGED <<columns, lost, proc, child, manual, lock, previous, stops>>

\* What sync_all awaits after the listing of a kind.
NextPhase(kind) == CASE kind = "owned"    -> "starred"
                     [] kind = "starred"  -> IF ExternalEnabled THEN "external" ELSE "gather"
                     [] kind = "external" -> "gather"

\* The children are created when the last listing is over, one per discovered row.
Advance(kind, rows) ==
  /\ phase' = NextPhase(kind)
  /\ found' = rows
  /\ child' = IF NextPhase(kind) = "gather"
              THEN [r \in Repos |-> IF r \in rows THEN "queued" ELSE "none"]
              ELSE child

\* Status of a known row that a complete listing of its kind does not have.
Missing(kind) == IF kind = "starred" THEN "unstarred" ELSE "unavailable"

\* Reconciler: new and seen rows become active whatever they were, missing ones are marked.
Reconcile(kind, seen) ==
  /\ status' = [r \in Repos |->
       CASE r \notin RowsOf(kind) -> status[r]
         [] r \in seen            -> "active"
         [] OTHER                 -> IF status[r] = "absent" THEN "absent" ELSE Missing(kind)]
  /\ currently_starred' = [r \in Repos |->
       IF r \in RowsOf(kind) THEN kind = "starred" /\ r \in seen ELSE currently_starred[r]]
  /\ UNCHANGED <<last_error, fresh>>

ListingSucceeds(kind) ==
  /\ proc = "up" /\ phase = kind
  /\ \E seen \in SUBSET RowsOf(kind) :
       /\ Reconcile(kind, seen)
       /\ Advance(kind, found \cup seen)
  /\ UNCHANGED <<runRows, proc, errors, manual, lock, previous, stops>>

\* Defect: a failed listing is reconciled as if it had returned an empty one.
FailureReconciledAsEmpty(kind) == Reconcile(kind, {})
FailureLeavesRows(kind) == UNCHANGED <<columns, fresh>>

\* The listing or its transaction raises; other kinds go on.
ListingFails(kind) ==
  /\ proc = "up" /\ phase = kind
  /\ errors' = errors \cup {kind}
  /\ FailureLeavesRows(kind)
  /\ Advance(kind, found)
  /\ UNCHANGED <<runRows, proc, manual, lock, previous, stops>>

Gathered == /\ phase \in {"gather", "maintain"}
            /\ \A r \in found : child[r] \in {"ok", "warned", "failed"}

\* The status _finish_run gives to the global run row.
RunVerdict ==
  IF errors # {} /\ found = {} THEN "failed"
  ELSE IF errors # {} \/ \E r \in found : child[r] \in {"failed", "warned"} THEN "partial"
  ELSE "success"

\* _finish_run and the end of the task; nothing is awaited between them.
FinishRun ==
  /\ open' = open \ {Global}
  /\ phase' = "idle" /\ found' = {} /\ errors' = {}
  /\ child' = [r \in Repos |-> "none"]
  /\ Done({Global})
  /\ fresh' = {}

GatherReturns ==
  /\ proc = "up" /\ phase = "gather" /\ Gathered
  /\ IF errors = {}
     THEN /\ phase' = "maintain"
          /\ UNCHANGED <<open, found, errors, child, awaited, fresh>>
     ELSE FinishRun
  /\ UNCHANGED <<columns, lost, proc, manual, lock, previous, stopping>>

\* maintain_cache returns, or raises and is only logged.
MaintenanceReturns ==
  /\ proc = "up" /\ phase = "maintain"
  /\ FinishRun
  /\ UNCHANGED <<columns, lost, proc, manual, lock, previous, stopping>>

-----------------------------------------------------------------------------
(* Cancellation.  A task that awaits something cheap, or has not run yet,  *)
(* ends at once.  A transfer and the cache maintenance first wait for the  *)
(* killed Git process group.  The gather of sync_all ends with the FIRST   *)
(* cancelled child, and the children still unwinding outlive it.           *)

Drop(r) == IF child[r] \in {"running", "cancelled"} THEN "orphan" ELSE lock[r]

\* The global task ends by CancelledError: its run row stays RUNNING, its lock is free again.
AbandonGlobal ==
  /\ phase' = "idle" /\ found' = {} /\ errors' = {}
  /\ child' = [r \in Repos |-> "none"]
  /\ fresh' = {}

EndsAtOnce ==
  \/ phase \in {"created"} \cup Kinds
  \/ /\ phase = "gather"
     /\ \/ \E r \in Repos : child[r] = "queued"
        \/ \A r \in Repos : child[r] \notin {"running", "cancelled"}

CancelGlobal ==
  \/ /\ EndsAtOnce
     /\ AbandonGlobal
     /\ lock' = [r \in Repos |-> Drop(r)]
  \/ /\ ~EndsAtOnce
     /\ phase' = IF phase = "maintain" THEN "cancelled" ELSE phase
     /\ child' = [r \in Repos |-> IF child[r] = "running" THEN "cancelled" ELSE child[r]]
     /\ UNCHANGED <<found, errors, lock, fresh>>

\* Every task that is not done is cancelled; no run row has a live call any more.
CancelAll ==
  /\ CancelGlobal
  /\ manual' = [r \in Repos |-> CASE manual[r] = "created" -> "none"
                                  [] manual[r] = "running" -> "cancelled"
                                  [] OTHER                 -> manual[r]]
  /\ previous' = [r \in Repos |-> "active"]
  /\ lost' = lost \cup open
  /\ open' = {}

\* stop_active_syncs up to its gather; it answers 0 and writes nothing when nothing runs.
StopActiveSyncs(s) ==
  /\ proc = "up" /\ s \notin stopping /\ IsRunning
  /\ CancelAll
  /\ stopping' = stopping \cup {s}
  /\ awaited' = [awaited EXCEPT ![s] = {r \in Repos : manual'[r] # "none"}
                                       \cup (IF phase' = "idle" THEN {} ELSE {Global})]
  /\ UNCHANGED <<columns, proc>>

ManualUnwinds(r) ==
  /\ proc # "down" /\ manual[r] = "cancelled"
  /\ manual' = [manual EXCEPT ![r] = "none"]
  /\ lock' = [lock EXCEPT ![r] = "free"]
  /\ Done({r})
  /\ UNCHANGED <<columns, runRows, proc, globals, child, previous, stopping, fresh>>

\* Defect: the gather gives up its children's locks with the children still unwinding.
OrphanLockFreed(r) == "free"
OrphanLock(r) == Drop(r)

\* The first cancelled child ends the gather and with it the global task.
ChildUnwinds(r) ==
  /\ proc # "down" /\ child[r] = "cancelled"
  /\ AbandonGlobal
  /\ lock' = [q \in Repos |-> IF q = r THEN "free" ELSE OrphanLock(q)]
  /\ Done({Global})
  /\ UNCHANGED <<columns, runRows, proc, manual, previous, stopping>>

OrphanUnwinds(r) ==
  /\ proc # "down" /\ lock[r] = "orphan"
  /\ lock' = [lock EXCEPT ![r] = "free"]
  /\ UNCHANGED <<columns, runRows, proc, globals, child, manual, previous, stops, fresh>>

MaintenanceUnwinds ==
  /\ proc # "down" /\ phase = "cancelled"
  /\ AbandonGlobal
  /\ Done({Global})
  /\ UNCHANGED <<columns, runRows, proc, manual, lock, previous, stopping>>

\* Syncing rows become errors with this message, whoever left or is writing them.
Sweep(message) ==
  /\ status' = [r \in Repos |-> IF status[r] = "syncing" THEN "error" ELSE status[r]]
  /\ last_error' = [r \in Repos |-> IF status[r] = "syncing" THEN message ELSE last_error[r]]
  /\ UNCHANGED currently_starred

\* Defect: the sweep after a stop covers the rows of repositories but no run row.
SweepNoRunRows == UNCHANGED <<open, lost>>
SweepRunRows == open' = {} /\ lost' = {}

\* stop_active_syncs after its gather: two bulk updates over whatever the database holds NOW.
StopReturns(s) ==
  /\ proc # "down" /\ s \in stopping /\ awaited[s] = {}
  /\ Sweep("stopped")
  /\ SweepRunRows
  /\ stopping' = stopping \ {s}
  /\ UNCHANGED <<proc, globals, child, manual, lock, previous, awaited, fresh>>

-----------------------------------------------------------------------------
(* Process: lifespan shutdown, crash and restart.                          *)

Shutdown ==
  /\ proc = "up"
  /\ CancelAll
  /\ proc' = "closing"
  /\ Done(IF phase' = "idle" THEN {Global} ELSE {})
  /\ UNCHANGED <<columns, stopping>>

\* Every task, lock and request is gone; of the database only the columns are left to say.
Terminate ==
  /\ proc' = "down"
  /\ phase' = "idle" /\ found' = {} /\ errors' = {}
  /\ child' = [r \in Repos |-> "none"]
  /\ manual' = [r \in Repos |-> "none"]
  /\ lock' = [r \in Repos |-> "free"]
  /\ previous' = [r \in Repos |-> "active"]
  /\ stopping' = {} /\ awaited' = [s \in Stoppers |-> {}]
  /\ lost' = lost \cup open /\ open' = {}
  /\ fresh' = {}

Exit  == proc = "closing" /\ ~IsRunning /\ Terminate /\ UNCHANGED columns
Crash == proc # "down" /\ Terminate /\ UNCHANGED columns

\* sync_repository commits the row and its run row one after the other, at both ends: the row
\* may be syncing with no run row yet, or have its outcome with the run row still RUNNING.
CrashBetweenCommits(r) ==
  /\ proc = "up" /\ Terminate
  /\ \/ /\ ~Locked(r)
        /\ \/ manual[r] = "created"
           \/ phase = "gather" /\ child[r] = "queued" /\ SemaphoreFree
        /\ status' = [status EXCEPT ![r] = "syncing"]
        /\ last_error' = [last_error EXCEPT ![r] = "none"]
     \/ /\ Live(r)
        /\ status' = [status EXCEPT ![r] = "error"]
        /\ last_error' = [last_error EXCEPT ![r] = ErrorAfterFailure(r)]
     \/ \E holder \in {"manual", "child"} :
          /\ Transfers(r, holder)
          /\ status' = [status EXCEPT ![r] = StatusAfterSuccess(r, holder)]
          /\ last_error' = [last_error EXCEPT ![r] = "none"]
  /\ UNCHANGED currently_starred

\* Defect: recovery forgets the rows that were syncing.
RecoverNothing == UNCHANGED columns
RecoverRows == Sweep("restart")

\* recover_interrupted_runs, from the constructor of SyncService.
Restart ==
  /\ proc = "down" /\ proc' = "up"
  /\ RecoverRows
  /\ lost' = {}
  /\ UNCHANGED <<open, globals, child, manual, lock, previous, stops, fresh>>

-----------------------------------------------------------------------------
Work(r) ==
  \/ ManualRun(r) \/ ChildRun(r)
  \/ Finish(r, "manual") \/ Finish(r, "child")
  \/ ManualUnwinds(r) \/ ChildUnwinds(r) \/ OrphanUnwinds(r)

GlobalWork ==
  \/ GlobalRun
  \/ \E kind \in Kinds : ListingSucceeds(kind) \/ ListingFails(kind)
  \/ GatherReturns \/ MaintenanceReturns \/ MaintenanceUnwinds

Next ==
  \/ StartGlobalSync \/ \E r \in Repos : StartRepositorySync(r)
  \/ \E r \in Repos : Work(r)
  \/ GlobalWork
  \/ \E s \in Stoppers : StopActiveSyncs(s) \/ StopReturns(s)
  \/ Shutdown \/ Exit \/ Crash \/ Restart
  \/ \E r \in Repos : CrashBetweenCommits(r)

Spec == Init /\ [][Next]_vars

\* The event loop runs every ready coroutine, every awaited call has a timeout, a killed
\* process group is reaped, and the container is restarted.  Requests, the scheduler's
\* ticks and crashes are never owed.
Fairness ==
  /\ \A r \in Repos :
       /\ WF_vars(ManualRun(r)) /\ WF_vars(ChildRun(r))
       /\ WF_vars(Finish(r, "manual")) /\ WF_vars(Finish(r, "child"))
       /\ WF_vars(ManualUnwinds(r)) /\ WF_vars(ChildUnwinds(r)) /\ WF_vars(OrphanUnwinds(r))
  /\ WF_vars(GlobalWork)
  /\ \A s \in Stoppers : WF_vars(StopReturns(s))
  /\ WF_vars(Exit) /\ WF_vars(Restart)

FairSpec == Spec /\ Fairness

-----------------------------------------------------------------------------
(* Properties.                                                             *)

\* Every variable has its type.
TypeOK ==
  /\ status \in [Repos -> Status]
  /\ currently_starred \in [Repos -> BOOLEAN]
  /\ last_error \in [Repos -> LastError]
  /\ open \subseteq Tasks /\ lost \subseteq Tasks
  /\ proc \in {"up", "closing", "down"}
  /\ phase \in Phase /\ found \subseteq Repos /\ errors \subseteq Kinds
  /\ child \in [Repos -> ChildState]
  /\ manual \in [Repos -> ManualState]
  /\ lock \in [Repos -> Holder]
  /\ previous \in [Repos -> Status]
  /\ stopping \subseteq Stoppers
  /\ awaited \in [Stoppers -> SUBSET Tasks]
  /\ fresh \subseteq Repos

\* One lock per repository protects mirror work: of a manual transfer, a gathered child and
\* an orphan of an abandoned gather, at most one exists, while it unwinds included.
OneTransferPerRepository == \A r \in Repos :
  /\ manual[r] \in {"running", "cancelled"} => child[r] \notin {"running", "cancelled"}
  /\ lock[r] = "orphan" => /\ manual[r] \notin {"running", "cancelled"}
                           /\ child[r] \notin {"running", "cancelled"}

\* A global run never has more than SYNC_CONCURRENCY children past the semaphore.
ConcurrencyHonored ==
  Cardinality({r \in Repos : child[r] \in {"running", "cancelled"}}) <= SyncConcurrency

\* While the service is up and no stop is in progress, a syncing row has a live transfer and
\* a RUNNING run row has a live call: stop, shutdown, crash and restart leave nothing behind.
NoWorkLeftBehind ==
  proc = "up" /\ stopping = {} =>
    /\ \A r \in Repos : status[r] = "syncing" => Live(r)
    /\ lost = {}

\* A repository in error says why, whichever of failure, stop and restart wrote it last.
ErrorIsExplained == \A r \in Repos : status[r] = "error" => last_error[r] # "none"

\* A row becomes unavailable or unstarred only when a complete listing of its kind lacks it,
\* or when a manual sync of an unstarred row puts that status back.
MissingOnlyAfterListing == [][\A r \in Repos :
  status'[r] \in {"unavailable", "unstarred"} /\ status'[r] # status[r] =>
    \/ \E kind \in Kinds : r \in RowsOf(kind) /\ phase = kind /\ phase' # kind /\ kind \notin errors'
    \/ manual[r] = "running" /\ manual'[r] = "none" /\ previous[r] = status'[r]]_vars

\* A global run is recorded as a success only if every listing was complete and this run
\* mirrored every repository it discovered.
SuccessMeansMirrored ==
  Gathered /\ RunVerdict = "success" => errors = {} /\ found \subseteq fresh

\* The cancelled global task waits for Git processes that were killed, its own or a child's.
GlobalUnwinds == phase = "cancelled" \/ (phase = "gather" /\ \E r \in Repos : child[r] = "cancelled")

\* Whatever a stop request or the shutdown still waits for was cancelled and only unwinds: work
\* that goes on, or was started since, never holds up their answer.
StopsAwaitNoWork ==
  /\ \A s \in Stoppers : /\ \A r \in Repos \cap awaited[s] : manual[r] = "cancelled"
                         /\ Global \in awaited[s] => GlobalUnwinds
  /\ proc = "closing" => /\ \A r \in Repos : manual[r] \in {"none", "cancelled"}
                         /\ phase # "idle" => GlobalUnwinds

\* No row stays syncing for good: the transfer ends, a stop sweeps it, or a restart does.
SyncSettles == \A r \in Repos : []<>(status[r] # "syncing")

\* A global run that was started ends, with a busy semaphore, held locks and cancellations.
GlobalRunEnds == []<>(phase = "idle")

\* A request that stops the syncs is answered, or the process goes down, although syncs may
\* start for ever while it waits.
StopIsAnswered == \A s \in Stoppers : []<>(s \notin stopping)

-----------------------------------------------------------------------------
(* What all this promises: SyncLedger, and the mapping that shows it.      *)

\* Records of work that nobody will finish: run rows, and rows that nobody transfers.
Stale == lost \cup {r \in Repos : status[r] = "syncing" /\ ~Live(r)}

\* A repository is worked on by its live transfer, then still held until that has unwound.
Occupation == [r \in Repos |->
  IF Live(r) THEN "working" ELSE IF lock[r] = "free" THEN "idle" ELSE "ending"]

Ledger == INSTANCE SyncLedger WITH
  Repositories <- Repos,
  Run          <- Global,
  service      <- proc,
  work         <- Occupation,
  stale        <- Stale,
  owed         <- stopping # {}

\* The service implements its ledger: transfers of one repository exclude each other until the
\* last Git process is reaped, and stop, shutdown and restart leave no stale record behind.
KeepsItsLedger == Ledger!Spec
==============================================================================
