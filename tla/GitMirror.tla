------------------------------ MODULE GitMirror ------------------------------
(***************************************************************************)
(* The Git mirror of one repository, or of its wiki:                       *)
(* src/githarbor/services/git.py with its bare cache entry, the source and *)
(* the destination in Gitea.                                               *)
(*                                                                         *)
(* An action is one Git command with the code up to the next.  Runs of one *)
(* repository never overlap (SyncService!OneTransferPerRepository), cache  *)
(* maintenance runs beside them.  A commit stands for its history, and for *)
(* the LFS object it needs if it is in Large.                              *)
(***************************************************************************)
EXTENDS Naturals

CONSTANTS
  Plain,                 \* names of ordinary refs
  Reserved, Pulls,       \* names Gitea reserves (refs/pull/*, refs/for/*), and those of pull requests
  PreservedAs,           \* where a reserved ref is preserved (refs/githarbor/*)
  Commits, Large,
  LfsEnabled,            \* LFS_ENABLED
  WikiHead, DestHead,    \* default branches of the wiki at the source and in Gitea
  Faults,                \* kinds of fault that happen: "failure", "kill" (timeout), "abort"
  Budget                 \* bounds: faults, damages of the cache, changes of the world

NoRef == "no ref"
Preserved == {PreservedAs[m] : m \in Reserved}
Names == Plain \cup Reserved \cup Preserved
Chances == {"fault", "damage", "change"}

ASSUME RefsAssumption ==
  /\ Pulls \subseteq Reserved /\ Plain \cap Reserved = {}
  /\ PreservedAs \in [Reserved -> Preserved] /\ Preserved \cap (Plain \cup Reserved) = {}
  /\ \A m, n \in Reserved : PreservedAs[m] = PreservedAs[n] => m = n
ASSUME WorldAssumption ==
  /\ NoRef \notin Commits /\ Large \subseteq Commits /\ LfsEnabled \in BOOLEAN
  /\ {WikiHead, DestHead} \subseteq Plain
ASSUME BoundsAssumption ==
  Faults \subseteq {"failure", "kill", "abort"} /\ Budget \in [Chances -> Nat]

VARIABLES
  kind,                  \* "repository" or "wiki"
  pullRefs,              \* pull_refs_enabled of the running process
  source,                \* the refs at the source
  cache, refs, locked,   \* the cache entry: its state, its refs, and refs with a stale lock file
  dest, destLfs,         \* the refs and the LFS objects of the destination
  pc, tries,             \* the next command of the run, and the push attempts that failed
  snapshot,              \* the source as this run has completely read it (a ghost)
  budget

entry == <<cache, refs, locked>>
target == <<dest, destLfs>>
world == <<kind, pullRefs, source>>
vars == <<world, entry, target, pc, tries, snapshot, budget>>

Refs == [Names -> Commits \cup {NoRef}]
Empty == [n \in Names |-> NoRef]
NoSnapshot == <<>>

\* A wiki has branches and tags only.
Sources == {s \in Refs : kind = "wiki" => \A n \in Names \ Plain : s[n] = NoRef}

Init ==
  /\ kind \in {"repository", "wiki"} /\ pullRefs \in BOOLEAN
  /\ source = Empty
  /\ cache = "absent" /\ refs = Empty /\ locked = {}
  /\ dest = Empty /\ destLfs = {}
  /\ pc = "idle" /\ tries = 0 /\ snapshot = NoSnapshot /\ budget = Budget

Spend(chance) == budget[chance] > 0 /\ budget' = [budget EXCEPT ![chance] = @ - 1]
Suffer(fault) == fault \in Faults /\ Spend("fault")

Goto(command) == pc' = command /\ UNCHANGED <<world, target, tries, snapshot>>
EndRun == pc' = "idle" /\ snapshot' = NoSnapshot /\ UNCHANGED <<world, tries>>

\* A command that stops half way has updated some refs.
Torn(old, new) == {mix \in Refs : \A n \in Names : mix[n] \in {old[n], new[n]}}
Changing(new) == {n \in Names : refs[n] # new[n]}
\* Git leaves refs alone that are locked.
Around(held, new) == [n \in Names |-> IF n \in held THEN refs[n] ELSE new[n]]
\* A command that is killed may leave the lock of a ref it was about to write.
LocksLeft(new, fault) ==
  {locked} \cup {locked \cup {n} : n \in IF fault = "failure" THEN {} ELSE Changing(new)}
TornEntry(new, fault) ==
  /\ locked' \in LocksLeft(new, fault)
  /\ refs' \in Torn(refs, Around(locked', new))
  /\ UNCHANGED cache

-----------------------------------------------------------------------------
(* Refreshing the cache entry.                                             *)

\* The negative refspec keeps a fetch from pull refs; it prunes and forces all others.
Fetched == [n \in Names |->
  IF kind = "repository" /\ ~pullRefs /\ n \in Pulls THEN refs[n] ELSE source[n]]
Cloned == [n \in Names |->
  IF kind = "repository" /\ ~pullRefs /\ n \in Pulls THEN NoRef ELSE source[n]]

EmptyWiki == kind = "wiki" /\ \A n \in Plain : source[n] = NoRef
SkipEmptyWiki == pc = "idle" /\ EmptyWiki /\ UNCHANGED vars

StartRun ==
  /\ pc = "idle" /\ ~EmptyWiki
  /\ pc' = (IF cache = "absent" THEN "clone" ELSE "inspect") /\ tries' = 0
  /\ UNCHANGED <<world, entry, target, snapshot, budget>>

Inspect ==
  /\ pc = "inspect"
  /\ \/ Goto(IF cache \in {"good", "damaged"} THEN "configure" ELSE "clone") /\ UNCHANGED budget
     \/ Suffer("failure") /\ Goto("clone")
  /\ UNCHANGED entry

Configure ==
  /\ pc = "configure"
  /\ \/ Goto(IF cache = "absent" THEN "clone" ELSE "fetch") /\ UNCHANGED budget
     \/ \E fault \in {"failure", "kill"} : Suffer(fault) /\ Goto("clone")
  /\ UNCHANGED entry

Fetch ==
  /\ pc = "fetch" /\ cache = "good" /\ locked \cap Changing(Fetched) = {}
  /\ refs' = Fetched /\ snapshot' = source /\ pc' = "prepare"
  /\ UNCHANGED <<world, cache, locked, target, tries, budget>>

\* Git refuses to update a locked ref and goes on with the others.
FetchRefused ==
  /\ pc = "fetch" /\ cache = "good" /\ locked \cap Changing(Fetched) # {}
  /\ refs' \in Torn(refs, Around(locked, Fetched))
  /\ Goto("health") /\ UNCHANGED <<cache, locked, budget>>

FetchFails ==
  /\ pc = "fetch" /\ Goto("health")
  /\ \/ cache # "good" /\ UNCHANGED <<entry, budget>>
     \/ \E fault \in {"failure", "kill"} : Suffer(fault) /\ TornEntry(Fetched, fault)

\* Defects: a failed fetch is ignored; no entry is ever replaced because of a failed fetch.
AfterFailedFetchOnwards == IF cache = "good" THEN "prepare" ELSE "clone"
\* fsck: a healthy entry is kept and the error raised, another one is replaced; so is a healthy
\* one if fsck fails for another reason.
AfterFailedFetch == IF cache = "good" THEN "idle" ELSE "clone"
Health ==
  /\ pc = "health"
  /\ \/ pc' = AfterFailedFetch /\ UNCHANGED budget
     \/ Suffer("failure") /\ pc' = "clone"
  /\ UNCHANGED <<world, entry, target, tries, snapshot>>

\* The clone is complete before it takes the place of the entry.
Rebuild ==
  /\ pc = "clone" /\ pc' = "prepare"
  /\ cache' = "good" /\ refs' = Cloned /\ locked' = {} /\ snapshot' = source
  /\ UNCHANGED <<world, target, tries, budget>>

-----------------------------------------------------------------------------
(* From the cache to the destination.                                      *)

Wanted(m) == pullRefs \/ m \notin Pulls

\* A source may have refs of its own where reserved ones are preserved.
Collides(s) == \E m \in Reserved :
  Wanted(m) /\ s[m] # NoRef /\ s[PreservedAs[m]] \notin {NoRef, s[m]}

\* What is published of the refs s: reserved names are moved away or, unless wanted, dropped.
Original(n) == CHOOSE m \in Reserved : PreservedAs[m] = n
\* Defect: the name of the ref is written where its object id belongs.
PublishedNames(s) == [n \in Names |->
  IF n \in Plain THEN s[n] ELSE IF n \in Preserved THEN Original(n) ELSE NoRef]
Published(s) == [n \in Names |->
  IF n \in Plain THEN s[n]
  ELSE IF n \in Reserved \/ ~Wanted(Original(n)) THEN NoRef
  ELSE IF s[Original(n)] # NoRef THEN s[Original(n)] ELSE s[n]]

\* One transaction of update-ref.
PrepareRefs ==
  /\ pc = "prepare" /\ ~Collides(refs) /\ locked \cap Changing(Published(refs)) = {}
  /\ refs' = Published(refs)
  /\ Goto(IF kind = "repository" /\ LfsEnabled THEN "lfs" ELSE "push")
  /\ UNCHANGED <<cache, locked, budget>>

PrepareRefused ==
  /\ pc = "prepare" /\ (Collides(refs) \/ locked \cap Changing(Published(refs)) # {})
  /\ EndRun /\ UNCHANGED <<entry, target, budget>>

\* Defect: objects of ordinary refs only (no --all).
LfsObjectsOfPlain == {refs[n] : n \in Plain} \cap Large
LfsObjects == {refs[n] : n \in Names} \cap Large

\* lfs fetch --all and lfs push --all.
TransferLfs ==
  /\ pc = "lfs" /\ pc' = "push"
  /\ destLfs' = destLfs \cup LfsObjects
  /\ UNCHANGED <<world, entry, dest, tries, snapshot, budget>>

\* Defect: the default branch of the destination is pushed like any other.
PushedByName(s) == [n \in Names |-> IF kind = "wiki" /\ s[n] = NoRef THEN dest[n] ELSE s[n]]
\* A mirror push deletes what is not in the cache.  A wiki's refs are forced, none is deleted,
\* and the default branch of the destination follows the source's if they differ.
Pushed(s) == [n \in Names |->
  IF kind = "repository" THEN s[n]
  ELSE IF n = DestHead THEN (IF s[WikiHead] # NoRef THEN s[WikiHead] ELSE dest[n])
  ELSE IF s[n] # NoRef THEN s[n] ELSE dest[n]]

\* Git fails with nothing to push, or without the head a refspec names.
Pushable(s) ==
  IF kind = "repository" THEN s # Empty \/ dest # Empty
  ELSE WikiHead # DestHead => s[WikiHead] # NoRef

Push ==
  /\ pc = "push" /\ Pushable(refs)
  /\ dest' = Pushed(refs)
  /\ EndRun /\ UNCHANGED <<entry, destLfs, budget>>

\* Only an attempt that failed for a passing reason is repeated, at most twice.
PushFails ==
  /\ pc = "push"
  /\ \/ ~Pushable(refs) /\ UNCHANGED <<dest, budget>>
     \/ Suffer("failure") /\ Pushable(refs) /\ dest' \in Torn(dest, Pushed(refs))
  /\ \/ tries < 2 /\ tries' = tries + 1 /\ UNCHANGED <<world, pc, snapshot>>
     \/ EndRun
  /\ UNCHANGED <<entry, destLfs>>

-----------------------------------------------------------------------------
(* Timeouts, cancelled syncs and crashes, and the world.                   *)

\* What the command in progress leaves behind.  A crash between the two renames of a rebuild
\* leaves no entry.
HalfDone(fault) ==
  \/ pc = "fetch" /\ TornEntry(Fetched, fault) /\ UNCHANGED target
  \/ pc = "prepare" /\ TornEntry(Published(refs), fault) /\ UNCHANGED target
  \/ /\ pc = "clone" /\ fault = "abort"
     /\ cache' = "absent" /\ refs' = Empty /\ locked' = {} /\ UNCHANGED target
  \/ /\ pc = "lfs" /\ destLfs' \in {destLfs \cup some : some \in SUBSET LfsObjects}
     /\ UNCHANGED <<entry, dest>>
  \/ /\ pc = "push" /\ Pushable(refs) /\ dest' \in Torn(dest, Pushed(refs))
     /\ UNCHANGED <<entry, destLfs>>
  \/ UNCHANGED <<entry, target>>

\* A command that fails, times out or cannot be started raises GitError.  Inspect, Configure,
\* FetchFails, Health and PushFails have what is handled otherwise.
GiveUp ==
  /\ pc \in {"inspect", "health", "clone", "prepare", "lfs", "push"}
  /\ \E fault \in {"failure", "kill"} :
       Suffer(fault) /\ (pc = "push" => fault = "kill") /\ HalfDone(fault)
  /\ EndRun

Abort == pc # "idle" /\ Suffer("abort") /\ HalfDone("abort") /\ EndRun

\* A file of the entry is lost: rev-parse sees it ("invalid"), or only fetch and fsck do.
Damage ==
  /\ pc = "idle" /\ cache = "good" /\ Spend("damage")
  /\ \/ cache' = "invalid" /\ refs' = Empty /\ locked' = {}
     \/ cache' = "damaged" /\ UNCHANGED <<refs, locked>>
  /\ UNCHANGED <<world, target, pc, tries, snapshot>>

\* Maintenance removes an entry that was not used for the retention time.  Configure renews
\* its time stamp.
Expire ==
  /\ pc \in {"idle", "inspect", "configure"} /\ cache # "absent"
  /\ cache' = "absent" /\ refs' = Empty /\ locked' = {}
  /\ UNCHANGED <<world, target, pc, tries, snapshot, budget>>

\* A push to the source, a restart with other settings, a destination created anew.
WorldChanges ==
  /\ Spend("change")
  /\ \/ \E n \in Names, c \in Commits \cup {NoRef} :
          /\ source' = [source EXCEPT ![n] = c] /\ source' \in Sources
          /\ UNCHANGED <<pullRefs, target>>
     \/ pc = "idle" /\ pullRefs' = ~pullRefs /\ UNCHANGED <<source, target>>
     \/ pc = "idle" /\ dest' = Empty /\ destLfs' = {} /\ UNCHANGED <<source, pullRefs>>
  /\ UNCHANGED <<kind, entry, pc, tries, snapshot>>

Step ==
  \/ SkipEmptyWiki \/ StartRun \/ Inspect \/ Configure \/ Fetch \/ FetchRefused \/ FetchFails
  \/ Health \/ Rebuild \/ PrepareRefs \/ PrepareRefused \/ TransferLfs \/ Push \/ PushFails \/ GiveUp

Next == Step \/ Abort \/ Damage \/ Expire \/ WorldChanges

Spec == Init /\ [][Next]_vars

\* Syncs are started for ever and every Git command ends, by its timeout if need be.
FairSpec == Spec /\ WF_vars(Step)

-----------------------------------------------------------------------------
(* Properties.                                                             *)

\* Every variable has its type.
TypeOK ==
  /\ kind \in {"repository", "wiki"} /\ pullRefs \in BOOLEAN /\ source \in Refs
  /\ cache \in {"absent", "invalid", "damaged", "good"} /\ refs \in Refs /\ locked \subseteq Names
  /\ dest \in Refs /\ destLfs \subseteq Large
  /\ pc \in {"idle", "inspect", "configure", "fetch", "health", "clone", "prepare", "lfs", "push"}
  /\ tries \in 0..2 /\ snapshot \in Refs \cup {NoSnapshot}
  /\ budget \in [Chances -> Nat]

\* A ref of the destination changes only to what a complete reading of the source, by this very
\* run, says of it: no failed, killed or half done fetch, and no broken entry, ever deletes or
\* moves anything in Gitea.  (Gitea's own change spends a change of the world.)
NothingElseIsPushed == [][\A n \in Names :
  dest'[n] # dest[n] /\ budget'["change"] = budget["change"]
    => snapshot \in Refs /\ dest'[n] = Pushed(Published(snapshot))[n]]_vars

\* LFS objects are at the destination before any ref that needs them, also after a push or an
\* upload was cut short and when the destination was created anew.
LfsBeforeRefs == kind = "repository" /\ LfsEnabled =>
  \A n \in Names : dest[n] \in Large => dest[n] \in destLfs

\* The contract: its offer is what the source publishes under the naming rules and settings,
\* its undertaking what this run's complete reading publishes.
Undertaken == IF snapshot = NoSnapshot THEN NoSnapshot ELSE Published(snapshot)
Contract == INSTANCE MirrorContract WITH
  Nothing <- NoSnapshot, offer <- Published(source), undertaken <- Undertaken

\* Whatever the cache, its locks, the commands and their failures do, the destination sees one
\* instant of the source per run: a ref is left alone or becomes what that instant has of it,
\* and LFS objects come first.  It says nothing of when, or whether, a ref is brought up to date.
KeepsItsContract == Contract!Spec

\* The source has something to mirror that Git can preserve and push.
Mirrorable == ~Collides(source) /\ Pushable(Published(source)) /\ ~EmptyWiki

\* Gitea has each ref as the source publishes it.  In a repository it has nothing else.  In a wiki
\* it may also have refs that the source had once: DeletionsReachWiki is about those.
UpToDate ==
  IF kind = "repository" THEN dest = Published(source)
  ELSE \A n \in Names : LET due == source[IF n = DestHead THEN WikiHead ELSE n]
                        IN  due # NoRef => dest[n] = due


\* "Persistent validated source caches with incremental fetch, automatic recovery" (README.md):
\* the same, if a killed Git command may leave its lock file.
Converges == <>[](Mirrorable => UpToDate)

\* "An upstream force-update or ref deletion is reflected in Gitea" (README.md, of wikis): once
\* the source rests, a wiki in Gitea has no branch or tag that the source does not have.
DeletionsReachWiki == <>[](kind = "wiki" /\ Mirrorable =>
  \A n \in Names : n # DestHead /\ source[n] = NoRef => dest[n] = NoRef)
==============================================================================
