--------------------------- MODULE GitMirrorProofs ---------------------------
(***************************************************************************)
(* Proofs about GitMirror, for any refs, commits, faults and changes of    *)
(* the world.                                                              *)
(***************************************************************************)
EXTENDS GitMirror, TLAPS

\* The name a preserved ref comes from is a reserved one.
LEMMA OriginalIsReserved ==
  ASSUME NEW n \in Preserved PROVE Original(n) \in Reserved /\ PreservedAs[Original(n)] = n
BY DEF Preserved, Original

\* What the operators on refs return are refs.
LEMMA RefsAreRefs ==
  ASSUME TypeOK, NEW s \in Refs
  PROVE  /\ Fetched \in Refs /\ Cloned \in Refs /\ Empty \in Refs
         /\ Published(s) \in Refs /\ Pushed(s) \in Refs
         /\ \A held : Around(held, s) \in Refs
         /\ Changing(s) \subseteq Names
<1>1. Fetched \in Refs /\ Cloned \in Refs /\ Empty \in Refs
  BY DEF Fetched, Cloned, Empty, Refs, TypeOK
<1>2. ASSUME NEW n \in Names PROVE Published(s)[n] \in Commits \cup {NoRef}
  <2>1. CASE n \in Preserved
    <3>1. Original(n) \in Names
      BY <2>1, OriginalIsReserved DEF Names
    <3>2. QED
      BY <3>1 DEF Published, Refs
  <2>2. CASE n \notin Preserved
    BY <2>2 DEF Published, Refs, Names
  <2>3. QED
    BY <2>1, <2>2
<1>3. Published(s) \in Refs
  BY <1>2 DEF Published, Refs
<1>4. Pushed(s) \in Refs
  <2>1. WikiHead \in Names
    BY WorldAssumption DEF Names
  <2>2. QED
    BY <2>1 DEF Pushed, Refs, TypeOK
<1>5. QED
  BY <1>1, <1>3, <1>4 DEF Around, Refs, Changing, TypeOK

\* A torn entry is well typed.
LEMMA TornIsTyped ==
  ASSUME TypeOK, NEW new \in Refs, NEW fault, TornEntry(new, fault)
  PROVE  refs' \in Refs /\ locked' \subseteq Names /\ cache' = cache
BY RefsAreRefs DEF TornEntry, LocksLeft, Torn, TypeOK

\* So is what a command that is cut short leaves behind.
LEMMA HalfDoneIsTyped ==
  ASSUME TypeOK, NEW fault, HalfDone(fault)
  PROVE  /\ cache' \in {"absent", "invalid", "damaged", "good"}
         /\ refs' \in Refs /\ locked' \subseteq Names /\ dest' \in Refs /\ destLfs' \subseteq Large
<1> USE DEF TypeOK
<1>0. Fetched \in Refs /\ Published(refs) \in Refs /\ Empty \in Refs
  BY RefsAreRefs
<1>1. CASE TornEntry(Fetched, fault) /\ UNCHANGED target
  BY <1>0, <1>1, TornIsTyped DEF target
<1>2. CASE TornEntry(Published(refs), fault) /\ UNCHANGED target
  BY <1>0, <1>2, TornIsTyped DEF target
<1>3. CASE cache' = "absent" /\ refs' = Empty /\ locked' = {} /\ UNCHANGED target
  BY <1>0, <1>3 DEF target
<1>4. CASE /\ destLfs' \in {destLfs \cup some : some \in SUBSET LfsObjects}
           /\ UNCHANGED <<entry, dest>>
  BY <1>4 DEF entry, LfsObjects
<1>5. CASE dest' \in Torn(dest, Pushed(refs)) /\ UNCHANGED <<entry, destLfs>>
  BY <1>5 DEF entry, Torn
<1>6. CASE UNCHANGED <<entry, target>>
  BY <1>6 DEF entry, target
<1>7. QED
  BY <1>1, <1>2, <1>3, <1>4, <1>5, <1>6 DEF HalfDone

\* Every action keeps the types.
LEMMA TypesLast == TypeOK /\ [Next]_vars => TypeOK'
<1> SUFFICES ASSUME TypeOK, [Next]_vars PROVE TypeOK'
  OBVIOUS
<1> DEFINE Budgets == budget' \in [Chances -> Nat]
<1>1. ASSUME NEW chance \in Chances, Spend(chance) PROVE Budgets
  BY <1>1 DEF Spend, TypeOK
<1>2. ASSUME NEW fault, Suffer(fault) PROVE Budgets
  BY <1>1, <1>2 DEF Suffer, Chances
<1> HIDE DEF Budgets
<1>3. UNCHANGED budget => Budgets
  BY DEF Budgets, TypeOK
<1>4. /\ Fetched \in Refs /\ Cloned \in Refs /\ Empty \in Refs
      /\ Published(refs) \in Refs /\ Pushed(refs) \in Refs
      /\ Around(locked, Fetched) \in Refs
  <2>1. refs \in Refs /\ source \in Refs
    BY DEF TypeOK
  <2>2. Fetched \in Refs
    BY <2>1, RefsAreRefs
  <2>3. QED
    BY <2>1, <2>2, RefsAreRefs
<1> USE DEF world, entry, target
<1>5. CASE UNCHANGED vars
  BY <1>5 DEF TypeOK, vars
<1>6. CASE StartRun
  BY <1>6, <1>3 DEF StartRun, TypeOK, Budgets
<1>7. CASE Inspect
  BY <1>7, <1>2, <1>3 DEF Inspect, Goto, TypeOK, Budgets
<1>8. CASE Configure
  BY <1>8, <1>2, <1>3 DEF Configure, Goto, TypeOK, Budgets
<1>9. CASE Fetch
  BY <1>9, <1>3, <1>4 DEF Fetch, TypeOK, Budgets
<1>10. CASE FetchRefused
  BY <1>10, <1>3, <1>4 DEF FetchRefused, Goto, Torn, TypeOK, Budgets
<1>11. CASE FetchFails
  <2>1. Budgets /\ refs' \in Refs /\ locked' \subseteq Names /\ cache' = cache
    BY <1>11, <1>2, <1>3, <1>4, TornIsTyped DEF FetchFails, TypeOK
  <2>2. QED
    BY <1>11, <2>1 DEF FetchFails, Goto, TypeOK, Budgets
<1>12. CASE Health
  BY <1>12, <1>2, <1>3 DEF Health, AfterFailedFetch, TypeOK, Budgets
<1>13. CASE Rebuild
  BY <1>13, <1>3, <1>4 DEF Rebuild, TypeOK, Budgets
<1>14. CASE PrepareRefs
  BY <1>14, <1>3, <1>4 DEF PrepareRefs, Goto, TypeOK, Budgets
<1>15. CASE PrepareRefused
  BY <1>15, <1>3 DEF PrepareRefused, EndRun, TypeOK, Budgets
<1>16. CASE TransferLfs
  BY <1>16, <1>3 DEF TransferLfs, LfsObjects, TypeOK, Budgets
<1>17. CASE Push
  BY <1>17, <1>3, <1>4 DEF Push, EndRun, TypeOK, Budgets
<1>18. CASE PushFails
  <2>1. Budgets /\ dest' \in Refs /\ UNCHANGED <<entry, destLfs, world>>
    BY <1>18, <1>2, <1>3 DEF PushFails, Torn, TypeOK, EndRun
  <2>2. /\ tries' \in 0..2 /\ pc' \in {"push", "idle"}
        /\ snapshot' \in Refs \cup {NoSnapshot}
    BY <1>18 DEF PushFails, EndRun, TypeOK
  <2>3. QED
    BY <2>1, <2>2 DEF TypeOK, Budgets
<1>19. ASSUME NEW fault, Suffer(fault), HalfDone(fault), EndRun PROVE TypeOK'
  <2>1. Budgets
    BY <1>2, <1>19
  <2>2. QED
    BY <1>19, <2>1, HalfDoneIsTyped DEF EndRun, TypeOK, Budgets
<1>20. CASE GiveUp
  BY <1>19, <1>20 DEF GiveUp
<1>21. CASE Abort
  BY <1>19, <1>21 DEF Abort
<1>22. CASE Damage
  BY <1>22, <1>1, <1>4 DEF Damage, Chances, TypeOK, Budgets
<1>23. CASE Expire
  BY <1>23, <1>3, <1>4 DEF Expire, TypeOK, Budgets
<1>24. CASE WorldChanges
  BY <1>24, <1>1, <1>4 DEF WorldChanges, Sources, Chances, TypeOK, Budgets
<1>25. QED
  BY <1>5, <1>6, <1>7, <1>8, <1>9, <1>10, <1>11, <1>12, <1>13, <1>14, <1>15, <1>16, <1>17,
     <1>18, <1>20, <1>21, <1>22, <1>23, <1>24 DEF Next, Step, SkipEmptyWiki

\* The type invariant of the Git mirror holds for any refs, commits and faults.
THEOREM TypeCorrect == Spec => []TypeOK
<1>1. Init => TypeOK
  BY BoundsAssumption DEF Init, TypeOK, Refs, Empty
<1>2. QED
  BY <1>1, TypesLast, PTL DEF Spec

-----------------------------------------------------------------------------
\* What the next command will do is backed by what this run has completely read: the cache
\* holds the snapshot before the reserved refs are moved, what it publishes afterwards, and
\* its LFS objects are at the destination before the push.
Backed ==
  /\ pc = "prepare" => /\ snapshot \in Refs
                       /\ \A n \in Names : (n \in Pulls => Wanted(n)) => refs[n] = snapshot[n]
  /\ pc \in {"lfs", "push"} => snapshot \in Refs /\ refs = Published(snapshot)
  /\ pc = "push" /\ kind = "repository" /\ LfsEnabled => LfsObjects \subseteq destLfs

PushInv == TypeOK /\ Backed /\ LfsBeforeRefs

\* Unwanted pull refs in the cache do not show in what is published.
LEMMA PublishedIsTheSame ==
  ASSUME NEW s \in Refs, NEW t \in Refs,
         \A n \in Names : (n \in Pulls => Wanted(n)) => s[n] = t[n]
  PROVE  Published(s) = Published(t)
<1>1. ASSUME NEW n \in Plain PROVE s[n] = t[n]
  BY <1>1, RefsAssumption DEF Names
<1>2. ASSUME NEW n \in Preserved PROVE s[n] = t[n]
  BY <1>2, RefsAssumption DEF Names
<1>3. ASSUME NEW n \in Preserved, Wanted(Original(n)) PROVE s[Original(n)] = t[Original(n)]
  BY <1>3, OriginalIsReserved DEF Names
<1>4. ASSUME NEW n \in Names PROVE Published(s)[n] = Published(t)[n]
  BY <1>1, <1>2, <1>3 DEF Published, Names
<1>5. QED
  BY <1>4 DEF Published

\* A push, complete or torn, moves refs only to what the snapshot publishes, and those have
\* their LFS objects.
LEMMA PushIsBacked ==
  ASSUME PushInv, pc = "push", dest' \in Torn(dest, Pushed(refs)) \cup {Pushed(refs)},
         UNCHANGED <<world, destLfs>>
  PROVE  /\ LfsBeforeRefs'
         /\ \A n \in Names : dest'[n] # dest[n] =>
              snapshot \in Refs /\ dest'[n] = Pushed(Published(snapshot))[n]
<1>1. \A n \in Names : dest'[n] \in {dest[n], Pushed(refs)[n]}
  BY DEF Torn
<1>2. snapshot \in Refs /\ refs = Published(snapshot)
  BY DEF PushInv, Backed
<1>3. kind = "repository" => \A n \in Names : Pushed(refs)[n] = refs[n]
  BY DEF Pushed
<1>4. LfsBeforeRefs'
  BY <1>1, <1>3 DEF PushInv, Backed, LfsBeforeRefs, LfsObjects, world
<1>5. QED
  BY <1>1, <1>2, <1>4

\* What is cut short at any command leaves the destination in order.
LEMMA HalfDoneIsBacked ==
  ASSUME PushInv, NEW fault, HalfDone(fault), UNCHANGED world
  PROVE  /\ LfsBeforeRefs'
         /\ \A n \in Names : dest'[n] # dest[n] =>
              snapshot \in Refs /\ dest'[n] = Pushed(Published(snapshot))[n]
<1>1. CASE UNCHANGED target
  BY <1>1 DEF PushInv, LfsBeforeRefs, target, world
<1>2. CASE /\ destLfs' \in {destLfs \cup some : some \in SUBSET LfsObjects}
           /\ UNCHANGED <<entry, dest>>
  BY <1>2 DEF PushInv, LfsBeforeRefs, world
<1>3. CASE /\ pc = "push" /\ dest' \in Torn(dest, Pushed(refs)) /\ UNCHANGED <<entry, destLfs>>
  BY <1>3, PushIsBacked
<1>4. QED
  BY <1>1, <1>2, <1>3 DEF HalfDone, target

\* The push invariant is inductive.
LEMMA PushInvLasts == PushInv /\ [Next]_vars => PushInv'
<1> SUFFICES ASSUME PushInv, [Next]_vars PROVE PushInv'
  OBVIOUS
<1>0. TypeOK /\ TypeOK'
  BY TypesLast DEF PushInv
<1> DEFINE Kept == Backed' /\ LfsBeforeRefs'
<1> SUFFICES Kept
  BY <1>0 DEF PushInv
<1>1. UNCHANGED <<kind, target>> => LfsBeforeRefs'
  BY DEF PushInv, LfsBeforeRefs, target
<1>2. pc' \notin {"prepare", "lfs", "push"} => Backed'
  BY DEF Backed
<1> USE DEF world, entry, target
<1>3. CASE UNCHANGED vars
  BY <1>1, <1>3 DEF vars, PushInv, Backed, Wanted, LfsObjects, Published
<1>4. CASE StartRun
  BY <1>1, <1>2, <1>4 DEF StartRun
<1>5. CASE Inspect \/ Configure
  BY <1>1, <1>2, <1>5 DEF Inspect, Configure, Goto
<1>6. CASE Fetch
  <2>1. snapshot' \in Refs
    BY <1>0, <1>6 DEF Fetch, TypeOK
  <2>2. \A n \in Names : (n \in Pulls => Wanted(n)') => refs'[n] = snapshot'[n]
    BY <1>6 DEF Fetch, Fetched, Wanted
  <2>3. QED
    BY <1>1, <1>6, <2>1, <2>2 DEF Fetch, Backed
<1>7. CASE FetchRefused \/ FetchFails
  BY <1>1, <1>2, <1>7 DEF FetchRefused, FetchFails, Goto
<1>8. CASE Health
  BY <1>1, <1>2, <1>8 DEF Health, AfterFailedFetch
<1>9. CASE Rebuild
  <2>1. snapshot' \in Refs
    BY <1>0, <1>9 DEF Rebuild, TypeOK
  <2>2. \A n \in Names : (n \in Pulls => Wanted(n)') => refs'[n] = snapshot'[n]
    BY <1>9 DEF Rebuild, Cloned, Wanted
  <2>3. QED
    BY <1>1, <1>9, <2>1, <2>2 DEF Rebuild, Backed
<1>10. CASE PrepareRefs
  <2>1. snapshot \in Refs /\ refs' = Published(snapshot) /\ UNCHANGED <<snapshot, pullRefs, kind>>
    BY <1>0, <1>10, PublishedIsTheSame DEF PrepareRefs, Goto, PushInv, Backed, TypeOK
  <2>2. Published(snapshot)' = Published(snapshot)
    BY <2>1 DEF Published, Wanted
  <2>3. pc' = IF kind = "repository" /\ LfsEnabled THEN "lfs" ELSE "push"
    BY <1>10 DEF PrepareRefs, Goto
  <2>4. QED
    BY <1>1, <1>10, <2>1, <2>2, <2>3 DEF PrepareRefs, Goto, Backed
<1>11. CASE PrepareRefused
  BY <1>1, <1>2, <1>11 DEF PrepareRefused, EndRun
<1>12. CASE TransferLfs
  <2>1. snapshot' \in Refs /\ refs' = Published(snapshot)'
    BY <1>12 DEF TransferLfs, PushInv, Backed, Published, Wanted
  <2>2. LfsObjects' \subseteq destLfs'
    BY <1>12 DEF TransferLfs, LfsObjects
  <2>3. LfsBeforeRefs'
    BY <1>12 DEF TransferLfs, PushInv, LfsBeforeRefs
  <2>4. QED
    BY <1>12, <2>1, <2>2, <2>3 DEF TransferLfs, Backed
<1>13. CASE Push
  BY <1>2, <1>13, PushIsBacked DEF Push, EndRun
<1>14. CASE PushFails
  <2>1. dest' \in Torn(dest, Pushed(refs)) /\ UNCHANGED <<entry, destLfs, world>>
    BY <1>0, <1>14 DEF PushFails, EndRun, Torn, TypeOK
  <2>2. LfsBeforeRefs'
    BY <1>14, <2>1, PushIsBacked DEF PushFails
  <2>3. CASE EndRun
    BY <1>2, <2>2, <2>3 DEF EndRun
  <2>4. CASE UNCHANGED <<world, pc, snapshot>>
    BY <2>1, <2>2, <2>4 DEF PushInv, Backed, Wanted, LfsObjects, Published
  <2>5. QED
    BY <1>14, <2>3, <2>4 DEF PushFails
<1>15. ASSUME NEW fault, HalfDone(fault), EndRun PROVE Kept
  BY <1>2, <1>15, HalfDoneIsBacked DEF EndRun
<1>16. CASE GiveUp \/ Abort
  BY <1>15, <1>16 DEF GiveUp, Abort
<1>17. CASE Damage \/ Expire
  <2>1. pc' \notin {"prepare", "lfs", "push"}
    BY <1>17 DEF Damage, Expire
  <2>2. QED
    BY <1>1, <1>2, <1>17, <2>1 DEF Damage, Expire
<1>18. CASE WorldChanges
  <2>1. CASE UNCHANGED <<pullRefs, target>>
    BY <1>1, <1>18, <2>1 DEF WorldChanges, PushInv, Backed, Wanted, LfsObjects, Published
  <2>2. CASE pc = "idle"
    <3>1. Backed'
      BY <1>2, <1>18, <2>2 DEF WorldChanges
    <3>2. CASE dest' = Empty
      BY <3>1, <3>2, WorldAssumption DEF Empty, LfsBeforeRefs, PushInv
    <3>3. CASE UNCHANGED target
      BY <1>1, <1>18, <3>1, <3>3 DEF WorldChanges, PushInv
    <3>4. QED
      BY <1>18, <3>2, <3>3, <3>1 DEF WorldChanges
  <2>3. QED
    BY <1>18, <2>1, <2>2 DEF WorldChanges
<1>19. QED
  BY <1>3, <1>4, <1>5, <1>6, <1>7, <1>8, <1>9, <1>10, <1>11, <1>12, <1>13, <1>14, <1>16,
     <1>17, <1>18 DEF Next, Step, SkipEmptyWiki, PushInv

\* The push invariant holds in every state.
LEMMA PushInvHolds == Spec => []PushInv
<1>1. Init => PushInv
  <2> SUFFICES ASSUME Init PROVE PushInv
    OBVIOUS
  <2>1. TypeOK
    BY BoundsAssumption DEF Init, TypeOK, Refs, Empty
  <2>2. QED
    BY <2>1, WorldAssumption DEF Init, PushInv, Backed, LfsBeforeRefs, Empty
<1>2. QED
  BY <1>1, PushInvLasts, PTL DEF Spec

\* LFS objects arrive before the refs that need them, through cut uploads, torn pushes,
\* rebuilt caches and destinations created anew.
THEOREM LfsComesFirst == Spec => []LfsBeforeRefs
<1>1. PushInv => LfsBeforeRefs
  BY DEF PushInv
<1>2. QED
  BY <1>1, PushInvHolds, PTL

\* Every ref the mirror changes in Gitea goes where a complete reading of the source by the
\* same run says, whatever failed or was killed before.
THEOREM OnlySnapshotsArePushed == Spec => NothingElseIsPushed
<1> DEFINE Backs == \A n \in Names :
      dest'[n] # dest[n] /\ budget'["change"] = budget["change"]
        => snapshot \in Refs /\ dest'[n] = Pushed(Published(snapshot))[n]
<1>1. PushInv /\ [Next]_vars => [Backs]_vars
  <2> SUFFICES ASSUME PushInv, Next PROVE Backs
    BY DEF vars, target
  <2> USE DEF world, entry, target
  <2>1. dest' = dest => Backs
    OBVIOUS
  <2>2. CASE Push \/ PushFails
    <3>1. /\ pc = "push" /\ dest' \in Torn(dest, Pushed(refs)) \cup {Pushed(refs)}
          /\ UNCHANGED <<world, destLfs>>
      BY <2>2 DEF Push, PushFails, EndRun, Torn, PushInv, TypeOK
    <3>2. QED
      BY <3>1, PushIsBacked
  <2>3. CASE GiveUp \/ Abort
    BY <2>3, HalfDoneIsBacked DEF GiveUp, Abort, EndRun
  <2>4. CASE WorldChanges
    BY <2>4 DEF WorldChanges, Spend, PushInv, TypeOK, Chances
  <2>5. CASE Damage \/ Expire
    BY <2>1, <2>5 DEF Damage, Expire
  <2>6. CASE StartRun \/ Inspect \/ Configure \/ Fetch \/ FetchRefused \/ FetchFails \/ Health
    BY <2>1, <2>6 DEF StartRun, Inspect, Configure, Fetch, FetchRefused, FetchFails, Health, Goto
  <2>7. CASE Rebuild \/ PrepareRefs \/ PrepareRefused \/ TransferLfs
    BY <2>1, <2>7 DEF Rebuild, PrepareRefs, PrepareRefused, TransferLfs, Goto, EndRun
  <2>8. CASE SkipEmptyWiki
    BY <2>1, <2>8 DEF SkipEmptyWiki, vars
  <2>9. QED
    BY <2>2, <2>3, <2>4, <2>5, <2>6, <2>7, <2>8 DEF Next, Step
<1>2. QED
  BY <1>1, PushInvHolds, PTL DEF Spec, NothingElseIsPushed

-----------------------------------------------------------------------------
(* The mirror implements its contract.                                     *)

\* A run has an undertaking from its complete reading to its end, and LFS is for repositories.
RunInv ==
  /\ pc \notin {"prepare", "lfs", "push"} => snapshot = NoSnapshot
  /\ pc \in {"prepare", "lfs", "push"} => snapshot \in Refs
  /\ pc = "lfs" => kind = "repository" /\ LfsEnabled

ContractInv == PushInv /\ RunInv

\* There is a ref name, so no table of refs is taken for "no snapshot".
LEMMA NoSnapshotIsNone == NoSnapshot \notin Refs
<1> SUFFICES ASSUME NoSnapshot \in Refs PROVE FALSE
  OBVIOUS
<1>1. DOMAIN NoSnapshot = {}
  BY DEF NoSnapshot
<1>2. DOMAIN NoSnapshot = Names
  BY DEF Refs
<1>3. QED
  BY <1>1, <1>2, WorldAssumption DEF Names

\* What is published of refs are refs, whatever the settings.
LEMMA PublishedAreRefs == \A s \in Refs : Published(s) \in Refs
<1> SUFFICES ASSUME NEW s \in Refs PROVE Published(s) \in Refs
  OBVIOUS
<1>1. \A n \in Preserved : Original(n) \in Names
  BY OriginalIsReserved DEF Names
<1>2. QED
  BY <1>1 DEF Published, Refs, Names

\* What the contract calls offers and empty are the tables of refs.
LEMMA ContractRefs == Contract!Offers = Refs /\ Contract!Empty = Empty
BY DEF Contract!Offers, Contract!Empty, Refs, Empty

\* A reading is an undertaking, until it is dropped.
LEMMA ReadingIsUndertaken ==
  ASSUME NEW s \in Refs, snapshot = s
  PROVE  Undertaken = Published(s) /\ Undertaken \in Refs /\ Undertaken # NoSnapshot
BY NoSnapshotIsNone, PublishedAreRefs DEF Undertaken

\* The undertaking follows the snapshot alone while the settings rest.
LEMMA UndertakenAfter ==
  ASSUME UNCHANGED world
  PROVE  /\ snapshot' = snapshot => Undertaken' = Undertaken
         /\ Published(source)' = Published(source)
         /\ \A s : Published(s)' = Published(s)
BY DEF Undertaken, Published, Wanted, world

\* A push leaves a ref alone or writes what is due.
LEMMA PushedIsDue ==
  ASSUME TypeOK, NEW s \in Refs, Undertaken = s, NEW n \in Names
  PROVE  Pushed(s)[n] \in {dest[n], Contract!Due(n)}
BY DEF Contract!Due, Pushed, TypeOK

\* The push, complete or torn, the last one of the run or not.
LEMMA PushDelivers ==
  ASSUME ContractInv, TypeOK', pc = "push", dest' \in Torn(dest, Pushed(refs)) \cup {Pushed(refs)},
         UNCHANGED <<world, destLfs>>, snapshot' \in {snapshot, NoSnapshot}
  PROVE  Contract!Deliver
<1>1. snapshot \in Refs /\ refs = Published(snapshot)
  BY DEF ContractInv, PushInv, Backed
<1>2. Undertaken = refs /\ Undertaken # NoSnapshot /\ refs \in Refs
  BY <1>1, ReadingIsUndertaken
<1>3. Undertaken' \in {Undertaken, NoSnapshot} /\ Published(source)' = Published(source)
  BY UndertakenAfter DEF Undertaken
<1>4. \A n \in Names : dest'[n] \in {dest[n], Contract!Due(n)}
  BY <1>2, PushedIsDue DEF Torn, ContractInv, PushInv
<1>5. dest' \in Contract!Offers
  BY ContractRefs DEF TypeOK
<1>6. Contract!HasLfs => Contract!LfsObjects \subseteq destLfs
  BY <1>2 DEF Contract!HasLfs, Contract!LfsObjects, ContractInv, PushInv, Backed, LfsObjects
<1>7. QED
  BY <1>2, <1>3, <1>4, <1>5, <1>6 DEF Contract!Deliver, Contract!MayEnd, world

\* The upload of LFS objects, complete or cut short.
LEMMA TransferUploads ==
  ASSUME ContractInv, pc = "lfs", destLfs \subseteq destLfs', destLfs' \subseteq destLfs \cup LfsObjects,
         UNCHANGED <<world, dest>>, snapshot' \in {snapshot, NoSnapshot}
  PROVE  Contract!UploadLfs
<1>1. snapshot \in Refs /\ refs = Published(snapshot) /\ kind = "repository" /\ LfsEnabled
  BY DEF ContractInv, PushInv, Backed, RunInv
<1>2. Undertaken = refs /\ Undertaken # NoSnapshot
  BY <1>1, ReadingIsUndertaken
<1>3. Undertaken' \in {Undertaken, NoSnapshot} /\ Published(source)' = Published(source)
  BY UndertakenAfter DEF Undertaken
<1>4. QED
  BY <1>1, <1>2, <1>3
  DEF Contract!UploadLfs, Contract!HasLfs, Contract!LfsObjects, Contract!MayEnd, LfsObjects, world

\* What the destination does not see.
LEMMA Unseen ==
  ASSUME UNCHANGED <<world, target, snapshot>>
  PROVE  UNCHANGED Contract!vars
BY UndertakenAfter DEF Contract!vars, world, target

\* A run that ends without touching the destination.
LEMMA EndGivesUp ==
  ASSUME EndRun, UNCHANGED target
  PROVE  Contract!GiveUp
<1>1. Undertaken' = NoSnapshot /\ UNCHANGED world
  BY DEF EndRun, Undertaken
<1>2. QED
  BY <1>1, UndertakenAfter DEF Contract!GiveUp, world, target

\* A complete reading of the source.
LEMMA ReadingUndertakes ==
  ASSUME ContractInv, snapshot = NoSnapshot, snapshot' = source, UNCHANGED <<world, target>>
  PROVE  Contract!Undertake
<1>1. source \in Refs /\ Undertaken = NoSnapshot
  BY DEF ContractInv, PushInv, TypeOK, Undertaken
<1>2. Undertaken' = Published(source)
  BY <1>1, NoSnapshotIsNone, UndertakenAfter DEF Undertaken
<1>3. QED
  BY <1>1, <1>2, UndertakenAfter DEF Contract!Undertake, world, target

\* The new conjuncts are inductive, given those of the push.
LEMMA ContractInvLasts == ContractInv /\ [Next]_vars => ContractInv'
<1> SUFFICES ASSUME ContractInv, [Next]_vars PROVE ContractInv'
  OBVIOUS
<1>1. PushInv' /\ source \in Refs
  BY PushInvLasts DEF ContractInv, PushInv, TypeOK
<1> USE DEF world, entry, target, ContractInv, RunInv
<1>2. EndRun => RunInv'
  BY DEF EndRun
<1>3. UNCHANGED <<pc, snapshot, kind>> => RunInv'
  OBVIOUS
<1>4. RunInv'
  <2>1. CASE StartRun \/ Inspect \/ Configure \/ FetchRefused \/ FetchFails \/ Health
    BY <2>1 DEF StartRun, Inspect, Configure, FetchRefused, FetchFails, Health, AfterFailedFetch, Goto
  <2>2. CASE Fetch \/ Rebuild
    BY <1>1, <2>2 DEF Fetch, Rebuild
  <2>3. CASE PrepareRefs \/ TransferLfs
    BY <2>3 DEF PrepareRefs, TransferLfs, Goto
  <2>4. CASE PrepareRefused \/ Push \/ GiveUp \/ Abort
    BY <1>2, <2>4 DEF PrepareRefused, Push, GiveUp, Abort
  <2>5. CASE PushFails
    BY <1>2, <1>3, <2>5 DEF PushFails
  <2>6. CASE SkipEmptyWiki \/ Damage \/ Expire \/ WorldChanges \/ UNCHANGED vars
    BY <1>3, <2>6 DEF SkipEmptyWiki, Damage, Expire, WorldChanges, vars
  <2>7. QED
    BY <2>1, <2>2, <2>3, <2>4, <2>5, <2>6 DEF Next, Step
<1>5. QED
  BY <1>1, <1>4

\* Every step of the mirror is one that the contract allows, or is not seen.
LEMMA ContractStep ==
  ContractInv /\ [Next]_vars => [Contract!Next]_(Contract!vars)
<1> SUFFICES ASSUME ContractInv, [Next]_vars PROVE Contract!Next \/ UNCHANGED Contract!vars
  OBVIOUS
<1>1. TypeOK /\ TypeOK'
  BY TypesLast DEF ContractInv, PushInv
<1> USE DEF entry
<1>2. CASE StartRun \/ Inspect \/ Configure \/ FetchRefused \/ FetchFails \/ Health \/ PrepareRefs
  BY <1>2, Unseen DEF StartRun, Inspect, Configure, FetchRefused, FetchFails, Health, PrepareRefs, Goto
<1>3. CASE Fetch \/ Rebuild
  BY <1>3, ReadingUndertakes DEF Fetch, Rebuild, ContractInv, RunInv, Contract!Next
<1>4. CASE PrepareRefused
  BY <1>4, EndGivesUp DEF PrepareRefused, Contract!Next
<1>5. CASE TransferLfs
  BY <1>5, TransferUploads DEF TransferLfs, Contract!Next
<1>6. CASE Push
  BY <1>1, <1>6, PushDelivers DEF Push, EndRun, Contract!Next
<1>7. CASE PushFails
  <2>1. dest' \in Torn(dest, Pushed(refs)) /\ UNCHANGED <<world, destLfs>>
    BY <1>1, <1>7 DEF PushFails, EndRun, Torn, TypeOK
  <2>2. pc = "push" /\ snapshot' \in {snapshot, NoSnapshot}
    BY <1>7 DEF PushFails, EndRun
  <2>3. QED
    BY <1>1, <2>1, <2>2, PushDelivers DEF Contract!Next
<1>8. ASSUME NEW fault, HalfDone(fault), EndRun PROVE Contract!Next
  <2>1. CASE UNCHANGED target
    BY <1>8, <2>1, EndGivesUp DEF Contract!Next
  <2>2. CASE /\ pc = "lfs" /\ destLfs' \in {destLfs \cup some : some \in SUBSET LfsObjects}
             /\ UNCHANGED dest
    BY <1>8, <2>2, TransferUploads DEF EndRun, Contract!Next
  <2>3. CASE pc = "push" /\ dest' \in Torn(dest, Pushed(refs)) /\ UNCHANGED destLfs
    BY <1>1, <1>8, <2>3, PushDelivers DEF EndRun, Contract!Next
  <2>4. QED
    BY <1>8, <2>1, <2>2, <2>3 DEF HalfDone, target
<1>9. CASE GiveUp \/ Abort
  BY <1>8, <1>9 DEF GiveUp, Abort
<1>10. CASE SkipEmptyWiki \/ Damage \/ Expire \/ UNCHANGED vars
  BY <1>10, Unseen DEF SkipEmptyWiki, Damage, Expire, vars
<1>11. CASE WorldChanges
  <2>1. (\A s \in Refs : Published(s) \in Refs)'
    BY PublishedAreRefs, PTL
  <2>2. Published(source)' \in Contract!Offers
    BY <1>1, <2>1, ContractRefs DEF TypeOK, Refs
  <2>3. CASE UNCHANGED <<pullRefs, target>>
    <3>1. Undertaken' = Undertaken
      BY <1>11, <2>3 DEF WorldChanges, Undertaken, Published, Wanted
    <3>2. QED
      BY <1>11, <2>2, <2>3, <3>1 DEF WorldChanges, Contract!OfferChanges, Contract!Next, target
  <2>4. CASE pc = "idle"
    <3>1. snapshot = NoSnapshot /\ snapshot' = NoSnapshot /\ kind' = kind
      BY <1>11, <2>4 DEF WorldChanges, ContractInv, RunInv
    <3>2. Undertaken = NoSnapshot /\ Undertaken' = NoSnapshot
      BY <3>1 DEF Undertaken
    <3>3. CASE UNCHANGED target
      BY <2>2, <3>1, <3>2, <3>3 DEF Contract!OfferChanges, Contract!Next, target
    <3>4. CASE dest' = Empty /\ destLfs' = {} /\ UNCHANGED <<source, pullRefs>>
      <4>1. Published(source)' = Published(source)
        BY <3>4 DEF Published, Wanted
      <4>2. QED
        BY <3>1, <3>2, <3>4, <4>1, ContractRefs DEF Contract!Recreate, Contract!Next
    <3>5. QED
      BY <1>11, <2>3, <3>3, <3>4, <2>4 DEF WorldChanges
  <2>5. QED
    BY <1>11, <2>3, <2>4 DEF WorldChanges
<1>12. QED
  BY <1>2, <1>3, <1>4, <1>5, <1>6, <1>7, <1>9, <1>10, <1>11 DEF Next, Step

\* The Git mirror implements its contract: the destination never sees the cache.
THEOREM ContractIsKept == Spec => KeepsItsContract
<1>1. Init => Contract!Init
  <2> SUFFICES ASSUME Init PROVE Contract!Init
    OBVIOUS
  <2>1. Published(source) = Empty /\ Undertaken = NoSnapshot
    BY OriginalIsReserved DEF Init, Published, Empty, Undertaken, Names
  <2>2. QED
    BY <2>1, ContractRefs DEF Init, Contract!Init
<1>2. Init => RunInv
  BY DEF Init, RunInv
<1>3. QED
  BY <1>1, <1>2, PushInvHolds, ContractInvLasts, ContractStep, PTL
  DEF Spec, KeepsItsContract, Contract!Spec, ContractInv

\* By the contract alone, no ref is ever at the destination without its LFS object.
THEOREM ContractIsSound == Contract!Spec => []Contract!DeliveredIsWhole
<1> USE DEF Contract!DeliveredIsWhole
<1>1. Contract!Init => Contract!DeliveredIsWhole
  BY WorldAssumption DEF Contract!Init, Contract!Empty
<1>2. ASSUME Contract!DeliveredIsWhole, [Contract!Next]_(Contract!vars) PROVE Contract!DeliveredIsWhole'
  <2>1. CASE Contract!Deliver
    <3>1. \A n \in Names : kind = "repository" => Contract!Due(n) = Undertaken[n]
      BY DEF Contract!Due
    <3>2. QED
      BY <1>2, <2>1, <3>1 DEF Contract!Deliver, Contract!MayEnd, Contract!HasLfs, Contract!LfsObjects
  <2>2. CASE Contract!UploadLfs
    BY <1>2, <2>2 DEF Contract!UploadLfs, Contract!MayEnd, Contract!HasLfs
  <2>3. CASE Contract!Recreate
    BY <2>3, WorldAssumption DEF Contract!Recreate, Contract!Empty
  <2>4. CASE UNCHANGED <<kind, dest, destLfs>>
    BY <1>2, <2>4 DEF Contract!HasLfs
  <2>5. QED
    BY <1>2, <2>1, <2>2, <2>3, <2>4
    DEF Contract!Next, Contract!vars, Contract!Undertake, Contract!GiveUp, Contract!OfferChanges
<1>3. QED
  BY <1>1, <1>2, PTL DEF Contract!Spec
==============================================================================
