--------------------------- MODULE ReleasesProofs ---------------------------
(***************************************************************************)
(* Proofs about Releases, for any source, any interleaving of users, and   *)
(* any number of faults.                                                   *)
(***************************************************************************)
EXTENDS Releases, TLAPS

\* Gitea's tables keep their types through the updates the actions make.
LEMMA GiteaTables ==
  /\ \A f \in [Ids -> Attachment], i \in Ids \cup {NoId} :
       [f EXCEPT ![i].there = FALSE] \in [Ids -> Attachment]
  /\ \A f \in [Ids -> Attachment], i \in Ids \cup {NoId}, n \in Names :
       [f EXCEPT ![i].name = n] \in [Ids -> Attachment]
  /\ \A f \in [Tags -> GiteaRelease], t \in Tags, m \in [Assets -> Ids \cup {NoId}] :
       [f EXCEPT ![t].marker = m] \in [Tags -> GiteaRelease]
  /\ \A f \in [Tags -> GiteaRelease], t \in Tags : [f EXCEPT ![t].owner = "user"] \in [Tags -> GiteaRelease]
BY DEF Attachment, GiteaRelease

\* The tables of an empty Gitea and an empty marker are well typed.
LEMMA InitialTables ==
  /\ NoMarker \in [Assets -> Ids \cup {NoId}]
  /\ NoReleases \in [Tags -> GiteaRelease] /\ NoAttachments \in [Ids -> Attachment]
BY DEF NoReleases, NoAttachments, NoMarker, GiteaRelease, Attachment

\* The initial values have their types.
LEMMA TypesStart == Init => TypeOK
<1> SUFFICES ASSUME Init PROVE TypeOK
  OBVIOUS
<1> USE InitialTables DEF Init
<1>1. /\ published \subseteq Releases /\ listed \subseteq Assets
      /\ latest \in Releases \cup {"none"} /\ mode \in Modes /\ budget \in [Chances -> Nat]
  BY BoundsAssumption
<1>2. source \in [releases : SUBSET Releases, assets : SUBSET Assets, latest : Releases \cup {"none"}]
  BY DEF NoSource
<1>3. QED
  BY <1>1, <1>2 DEF TypeOK

\* Every action of the mirror, of users and of the source keeps the types.
LEMMA TypesLast == TypeOK /\ [Next]_vars => TypeOK'
<1> SUFFICES ASSUME TypeOK, [Next]_vars PROVE TypeOK'
  OBVIOUS
<1> USE ReleasesAssumption DEF TypeOK, upstream, gitea, listings, assetRun
<1>1. CASE StartRun
  BY <1>1 DEF StartRun
<1>2. ASSUME NEW r \in Releases, VisitForeign(r) PROVE TypeOK'
  BY <1>2 DEF VisitForeign
<1>3. ASSUME EndOfRun, UNCHANGED <<upstream, gitea>>, budget' \in [Chances -> Nat] PROVE TypeOK'
  BY <1>3, InitialTables DEF EndOfRun, NoSource
<1>4. ASSUME NEW chance \in Chances, Spend(chance) PROVE budget' \in [Chances -> Nat]
  BY <1>4 DEF Spend
<1>5. ASSUME NEW fault, Suffer(fault) PROVE budget' \in [Chances -> Nat]
  BY <1>4, <1>5 DEF Suffer, Chances
<1>6. ASSUME NEW r \in Releases, VisitRelease(r) PROVE TypeOK'
  <2> DEFINE t == TagOf[r]
             marker == IF Managed(r) THEN known[t].marker ELSE NoMarker
  <2>1. marker \in [Assets -> Ids \cup {NoId}] /\ t \in Tags
    BY InitialTables DEF GiteaRelease
  <2>2. [owner |-> r, marker |-> marker] \in GiteaRelease
    BY <2>1 DEF GiteaRelease
  <2>3. /\ release' = release \/ release' = [release EXCEPT ![t] = [owner |-> r, marker |-> marker]]
        /\ seen' = seen \/ seen' = attachment
        /\ Enter(r, marker)
        /\ UNCHANGED <<upstream, attachment, listings, ready, budget>>
    BY <1>6 DEF VisitRelease
  <2> HIDE DEF marker, t
  <2>4. release' \in [Tags -> GiteaRelease] /\ seen' \in [Ids -> Attachment]
    BY <2>1, <2>2, <2>3
  <2>5. {seen'[i].name : i \in {j \in Ids : seen'[j].there /\ seen'[j].tag = TagOf[r]}}
          \subseteq Names \cup {"none"}
    BY <2>4 DEF Attachment
  <2>6. Wanted(r) \subseteq Assets
    BY DEF Wanted
  <2>7. CASE todo' = todo \ {r} /\ UNCHANGED <<pc, assetRun>>
    BY <2>3, <2>4, <2>7
  <2>8. CASE ~(mode = "off" \/ HoldsBack(r))
    <3>1. /\ pc' = "assets" /\ current' = r /\ mirrored' = marker /\ warned' = FALSE
          /\ taken' \subseteq Names \cup {"none"}
          /\ queue' \subseteq Assets /\ stale' \subseteq Assets /\ todo' = todo
      BY <2>3, <2>5, <2>6, <2>8 DEF Enter
    <3>2. QED
      BY <2>1, <2>3, <2>4, <3>1
  <2>9. QED
    BY <2>3, <2>7, <2>8 DEF Enter
<1>7. ASSUME NEW r \in Releases, CreateRefused(r) PROVE TypeOK'
  BY <1>3, <1>7 DEF CreateRefused
<1>8. ASSUME NEW a \in Assets, ForgetStale(a) PROVE TypeOK'
  BY <1>8 DEF ForgetStale, Forget, Settle, NoId
<1>9. ASSUME NEW a \in Assets PROVE NameOf[a] \in Names /\ mirrored[a] \in Ids \cup {NoId}
  OBVIOUS
<1>10. ASSUME NEW a \in Assets, DeleteStale(a) PROVE TypeOK'
  <2> DEFINE i == mirrored[a]
  <2>1. /\ attachment' \in {attachment, [attachment EXCEPT ![i].there = FALSE]}
        /\ seen' \in {seen, [seen EXCEPT ![i].there = FALSE]}
    BY <1>10 DEF DeleteStale
  <2>2. i \in Ids \cup {NoId}
    BY <1>9
  <2>3. attachment' \in [Ids -> Attachment] /\ seen' \in [Ids -> Attachment]
    <3> HIDE DEF i
    <3>1. \A f \in [Ids -> Attachment] : [f EXCEPT ![i].there = FALSE] \in [Ids -> Attachment]
      BY <2>2, GiteaTables
    <3>2. attachment \in [Ids -> Attachment] /\ seen \in [Ids -> Attachment]
      OBVIOUS
    <3>3. QED
      BY ONLY <2>1, <3>1, <3>2
  <2>4. /\ warned' \in BOOLEAN /\ budget' \in [Chances -> Nat]
        /\ taken' \subseteq Names \cup {"none"} /\ UNCHANGED <<upstream, release>>
    BY <1>5, <1>10 DEF DeleteStale
  <2>5. mirrored' \in [Assets -> Ids \cup {NoId}] /\ Settle(a)
    BY <1>10 DEF DeleteStale, Forget
  <2>6. QED
    BY <2>3, <2>4, <2>5 DEF Settle
<1>11. ASSUME NEW a \in Assets, KeepAsset(a) PROVE TypeOK'
  <2> DEFINE i == mirrored[a]
  <2>1. attachment' \in {attachment, [attachment EXCEPT ![i].name = NameOf[a]]}
    BY <1>11 DEF KeepAsset
  <2>2. i \in Ids \cup {NoId} /\ NameOf[a] \in Names
    BY <1>9
  <2>3. attachment' \in [Ids -> Attachment]
    <3> HIDE DEF i
    <3>1. QED
      BY <2>1, <2>2, GiteaTables
  <2>4. warned' \in BOOLEAN /\ budget' \in [Chances -> Nat]
    BY <1>5, <1>11 DEF KeepAsset
  <2>5. QED
    BY <1>11, <2>3, <2>4 DEF KeepAsset, Serve
<1>12. ASSUME NEW a \in Assets, RefuseAsset(a) PROVE TypeOK'
  BY <1>12 DEF RefuseAsset, LeaveTaken, Forget, Serve
<1>13. ASSUME NEW a \in Assets, NEW i \in Ids, Create(i, a)
       PROVE  attachment' \in [Ids -> Attachment] /\ attachment'[i] \in Attachment
  BY <1>13 DEF Create, Attachment
<1>14. ASSUME NEW a \in Assets, UploadSucceeds(a) PROVE TypeOK'
  BY <1>13, <1>14 DEF UploadSucceeds, Serve
<1>15. ASSUME NEW a \in Assets, UploadFails(a) PROVE TypeOK'
  BY <1>5, <1>15 DEF UploadFails, Forget, Serve
<1>16. ASSUME NEW a \in Assets, UploadLost(a) PROVE TypeOK'
  BY <1>5, <1>13, <1>16 DEF UploadLost
<1>17. CASE FinishRelease
  <2>1. release' \in [Tags -> GiteaRelease]
    BY <1>17, GiteaTables DEF FinishRelease, FinalMarker
  <2>2. QED
    BY <1>17, <2>1, InitialTables DEF FinishRelease, ReadyAfter
<1>18. CASE FinishRun \/ Abort \/ CutShort \/ MarkerRefused
  BY <1>3, <1>5, <1>18 DEF FinishRun, Abort, CutShort, MarkerRefused
<1>19. CASE SourceChanges
  BY <1>4, <1>19 DEF SourceChanges, Chances
<1>20. CASE UserEdits
  <2>1. CASE \E t \in Tags : /\ release' = [release EXCEPT ![t].owner = "user"]
                             /\ UNCHANGED attachment
    BY <1>4, <1>20, <2>1, GiteaTables DEF UserEdits, Chances
  <2>2. ASSUME NEW i \in Ids, NEW t \in Tags, NEW n \in Names, UNCHANGED release,
               attachment' = [attachment EXCEPT ![i] =
                 [of |-> "user", tag |-> t, name |-> n, there |-> TRUE]]
        PROVE  TypeOK'
    <3>1. attachment' \in [Ids -> Attachment]
      BY <2>2 DEF Attachment
    <3>2. QED
      BY <1>4, <1>20, <2>2, <3>1 DEF UserEdits, Chances
  <2>3. ASSUME NEW i \in Ids, UNCHANGED release,
               \/ attachment' = [attachment EXCEPT ![i].there = FALSE]
               \/ \E n \in Names : attachment' = [attachment EXCEPT ![i].name = n]
        PROVE  TypeOK'
    <3>1. CASE attachment' = [attachment EXCEPT ![i].there = FALSE]
      BY <1>4, <1>20, <2>3, <3>1, GiteaTables DEF UserEdits, Chances
    <3>2. ASSUME NEW n \in Names, attachment' = [attachment EXCEPT ![i].name = n]
          PROVE  TypeOK'
      BY <1>4, <1>20, <2>3, <3>2, GiteaTables DEF UserEdits, Chances
    <3>3. QED
      BY <2>3, <3>1, <3>2
  <2>4. QED
    BY <1>20, <2>1, <2>2, <2>3 DEF UserEdits
<1>21. CASE UNCHANGED vars
  BY <1>21 DEF vars
<1>22. QED
  BY <1>1, <1>2, <1>6, <1>7, <1>8, <1>10, <1>11, <1>12, <1>14, <1>15, <1>16, <1>17, <1>18,
     <1>19, <1>20, <1>21 DEF Next, Step

\* Every variable keeps its type.
THEOREM TypeCorrect == Spec => []TypeOK
BY TypesStart, TypesLast, PTL DEF Spec

-----------------------------------------------------------------------------
(* Ownership.  MarkersAreHonest is not inductive: a run works from markers *)
(* it read at its start, and writes to a release it looked up then.        *)

\* What a run remembers of Gitea.
KnownIsHonest == \A t \in Tags : known[t].owner \in Releases => Records(known[t].marker, known[t].owner)
KnownLasts == \A t \in Tags : known[t].owner # "none" => release[t].owner = known[t].owner

\* The release whose assets are worked on is GitHarbor's, and the assets are its own.
TurnIsOwned == pc = "assets" =>
  /\ current \in Releases /\ release[TagOf[current]].owner = current
  /\ \A a \in queue : ReleaseOf[a] = current

OwnershipInv == TypeOK /\ MarkersAreHonest /\ KnownIsHonest /\ KnownLasts /\ TurnIsOwned

\* An attachment never comes to mirror something else.
OriginsLast == \A i \in Ids : attachment[i].of # "none" => attachment'[i].of = attachment[i].of

\* The marker m of release r names the right attachments after the step, too.
RecordsAfter(m, r) == \A a \in Assets :
  m[a] # NoId => attachment'[m[a]].of = a /\ ReleaseOf[a] = r

\* A correct record stays correct: nothing renames what an attachment mirrors.
LEMMA RecordsLast ==
  ASSUME TypeOK, OriginsLast,
         NEW m \in [Assets -> Ids \cup {NoId}], NEW r, Records(m, r)
  PROVE  RecordsAfter(m, r)
<1>1. SUFFICES ASSUME NEW a \in Assets, m[a] # NoId
               PROVE  attachment'[m[a]].of = a /\ ReleaseOf[a] = r
  BY DEF RecordsAfter
<1>2. m[a] \in Ids /\ attachment[m[a]].of = a /\ ReleaseOf[a] = r /\ a # "none"
  BY <1>1, ReleasesAssumption DEF Records
<1>3. QED
  BY <1>2 DEF OriginsLast

\* An upload and a user's new attachment take an id nobody has used.
LEMMA CreateKeepsOrigins ==
  ASSUME TypeOK, NEW i \in Ids, Free(i), NEW x,
         attachment' = [attachment EXCEPT ![i] = x]
  PROVE  OriginsLast
BY DEF Free, OriginsLast, TypeOK

\* Deleting and renaming do not change what an attachment mirrors.
LEMMA EditKeepsOrigins ==
  ASSUME TypeOK, NEW i,
         \/ attachment' = attachment
         \/ attachment' = [attachment EXCEPT ![i].there = FALSE]
         \/ \E n : attachment' = [attachment EXCEPT ![i].name = n]
  PROVE  OriginsLast
<1>1. ASSUME NEW j \in Ids PROVE attachment[j] \in Attachment
  BY DEF TypeOK
<1>2. ASSUME NEW j \in Ids PROVE attachment'[j].of = attachment[j].of
  BY <1>1, <1>2 DEF TypeOK, Attachment
<1>3. QED
  BY <1>2 DEF OriginsLast

\* Origins last in every step.
LEMMA StepKeepsOrigins == TypeOK /\ [Next]_vars => OriginsLast
<1> SUFFICES ASSUME TypeOK, [Next]_vars PROVE OriginsLast
  OBVIOUS
<1>1. ASSUME NEW a \in Assets, DeleteStale(a) PROVE OriginsLast
  BY <1>1, EditKeepsOrigins DEF DeleteStale
<1>2. ASSUME NEW a \in Assets, KeepAsset(a) PROVE OriginsLast
  BY <1>2, EditKeepsOrigins DEF KeepAsset
<1>3. ASSUME NEW a \in Assets, UploadSucceeds(a) \/ UploadLost(a) PROVE OriginsLast
  BY <1>3, CreateKeepsOrigins DEF UploadSucceeds, UploadLost, Create
<1>4. CASE UserEdits
  BY <1>4, CreateKeepsOrigins, EditKeepsOrigins DEF UserEdits
<1>5. CASE UNCHANGED attachment
  BY <1>5 DEF OriginsLast
<1>6. QED
  BY <1>1, <1>2, <1>3, <1>4, <1>5 DEF Next, Step, vars, gitea, StartRun, VisitForeign, VisitRelease,
     ForgetStale, RefuseAsset, UploadFails, FinishRelease, FinishRun, CreateRefused, Abort,
     CutShort, MarkerRefused, SourceChanges

\* The new state is as honest as its markers.
LEMMA Reassemble ==
  ASSUME TypeOK',
         \A t \in Tags : release'[t].owner \in Releases => RecordsAfter(release'[t].marker, release'[t].owner),
         \A t \in Tags : known'[t].owner \in Releases => RecordsAfter(known'[t].marker, known'[t].owner),
         pc' = "assets" => RecordsAfter(mirrored', current'),
         KnownLasts', TurnIsOwned'
  PROVE  OwnershipInv'
BY DEF OwnershipInv, MarkersAreHonest, KnownIsHonest, Records, RecordsAfter

\* What the invariant says of the markers survives any step.
LEMMA MarkersAfter ==
  ASSUME OwnershipInv, OriginsLast
  PROVE  /\ \A t \in Tags : release[t].owner \in Releases => RecordsAfter(release[t].marker, release[t].owner)
         /\ \A t \in Tags : known[t].owner \in Releases => RecordsAfter(known[t].marker, known[t].owner)
         /\ pc = "assets" => RecordsAfter(mirrored, current)
<1> USE DEF OwnershipInv
<1>1. ASSUME NEW t \in Tags PROVE /\ release[t].marker \in [Assets -> Ids \cup {NoId}]
                                  /\ known[t].marker \in [Assets -> Ids \cup {NoId}]
  BY DEF TypeOK, GiteaRelease
<1>2. ASSUME NEW t \in Tags, release[t].owner \in Releases
      PROVE  RecordsAfter(release[t].marker, release[t].owner)
  BY <1>1, <1>2, RecordsLast DEF MarkersAreHonest
<1>3. ASSUME NEW t \in Tags, known[t].owner \in Releases
      PROVE  RecordsAfter(known[t].marker, known[t].owner)
  BY <1>1, <1>3, RecordsLast DEF KnownIsHonest
<1>4. ASSUME pc = "assets" PROVE RecordsAfter(mirrored, current)
  BY <1>4, RecordsLast DEF MarkersAreHonest, TypeOK
<1>5. QED
  BY <1>2, <1>3, <1>4

\* A step that leaves Gitea's releases and the run's listings alone, and records nothing new.
LEMMA QuietStep ==
  ASSUME OwnershipInv, TypeOK', OriginsLast,
         UNCHANGED <<release, known, pc, current>>,
         queue' \subseteq queue,
         pc = "assets" => \A a \in Assets : mirrored'[a] \in {mirrored[a], NoId}
  PROVE  OwnershipInv'
<1>1. pc' = "assets" => RecordsAfter(mirrored', current')
  BY MarkersAfter DEF RecordsAfter
<1>2. KnownLasts' /\ TurnIsOwned'
  BY DEF OwnershipInv, KnownLasts, TurnIsOwned
<1>3. QED
  BY <1>1, <1>2, MarkersAfter, Reassemble

\* Nothing is owned at the start.
LEMMA OwnershipStarts == Init => OwnershipInv
<1> SUFFICES ASSUME Init PROVE OwnershipInv
  OBVIOUS
<1>1. TypeOK
  BY TypesStart
<1>2. \A t \in Tags : release[t].owner = "none" /\ known[t].owner = "none"
  BY DEF Init, NoReleases
<1>3. QED
  BY <1>1, <1>2, ReleasesAssumption
  DEF Init, OwnershipInv, MarkersAreHonest, KnownIsHonest, KnownLasts, TurnIsOwned

\* Every step keeps the ownership invariant.
LEMMA OwnershipLasts == OwnershipInv /\ [Next]_vars => OwnershipInv'
<1> SUFFICES ASSUME OwnershipInv, [Next]_vars PROVE OwnershipInv'
  OBVIOUS
<1>1. TypeOK /\ TypeOK' /\ OriginsLast
  BY TypesLast, StepKeepsOrigins DEF OwnershipInv
<1>2. \A r \in Releases : TagOf[r] \in Tags /\ r # "none" /\ r # "user"
  BY ReleasesAssumption
<1> USE <1>1 DEF listings, assetRun, gitea, upstream
<1>3. CASE UNCHANGED <<release, known, pc, current, mirrored, queue>>
  BY <1>3, QuietStep
<1>4. ASSUME EndOfRun, UNCHANGED gitea PROVE OwnershipInv'
  <2>1. \A t \in Tags : known'[t].owner = "none"
    BY <1>4 DEF EndOfRun, NoReleases
  <2>2. QED
    BY <1>4, <1>2, <2>1, MarkersAfter, Reassemble DEF EndOfRun, KnownLasts, TurnIsOwned
<1>5. CASE StartRun
  BY <1>5, MarkersAfter, Reassemble DEF StartRun, KnownLasts, TurnIsOwned
<1>6. ASSUME NEW r \in Releases, VisitForeign(r) PROVE OwnershipInv'
  BY <1>6, QuietStep DEF VisitForeign
<1>7. ASSUME NEW r \in Releases, VisitRelease(r) PROVE OwnershipInv'
  <2> DEFINE t == TagOf[r]
             marker == IF Managed(r) THEN known[t].marker ELSE NoMarker
  <2>1. RecordsAfter(marker, r)
    <3>1. CASE Managed(r)
      BY <1>2, <3>1, MarkersAfter DEF Managed
    <3>2. CASE ~Managed(r)
      BY <3>2 DEF RecordsAfter, NoMarker
    <3>3. QED
      BY <3>1, <3>2
  <2>2. \/ UNCHANGED release /\ Managed(r)
        \/ /\ release' = [release EXCEPT ![t] = [owner |-> r, marker |-> marker]]
           /\ Managed(r) \/ known[t].owner = "none"
    BY <1>7 DEF VisitRelease
  <2>3. Enter(r, marker) /\ UNCHANGED <<attachment, listings>>
    BY <1>7 DEF VisitRelease
  <2>4. release'[t].owner = r /\ t \in Tags
    BY <1>2, <2>2 DEF OwnershipInv, TypeOK, Managed, KnownLasts
  <2>5. \A q \in Tags : release'[q].owner \in Releases => RecordsAfter(release'[q].marker, release'[q].owner)
    BY <1>2, <2>1, <2>2, MarkersAfter DEF TypeOK
  <2>6. KnownLasts'
    BY <2>2, <2>3, <2>4 DEF OwnershipInv, TypeOK, Managed, KnownLasts
  <2>7. \A q \in Tags : known'[q].owner \in Releases => RecordsAfter(known'[q].marker, known'[q].owner)
    BY <2>3, MarkersAfter
  <2>8. TurnIsOwned' /\ (pc' = "assets" => RecordsAfter(mirrored', current'))
    <3>1. \A a \in Wanted(r) : ReleaseOf[a] = r
      BY DEF Wanted
    <3>2. pc = "visit"
      BY <1>7 DEF VisitRelease, Turn
    <3> HIDE DEF marker
    <3>3. pc' = "assets" => current' = r /\ mirrored' = marker /\ queue' = Wanted(r)
      BY <2>3, <3>2 DEF Enter
    <3>4. QED
      BY <2>1, <2>4, <3>1, <3>3 DEF TurnIsOwned
  <2>9. QED
    BY <2>5, <2>6, <2>7, <2>8, Reassemble
<1>8. ASSUME NEW a \in Assets, ForgetStale(a) \/ DeleteStale(a) PROVE OwnershipInv'
  <2>1. \A b \in Assets : mirrored'[b] \in {mirrored[b], NoId}
    BY <1>8 DEF ForgetStale, DeleteStale, Forget, TypeOK
  <2>2. UNCHANGED <<release, known, pc, current, queue>>
    BY <1>8 DEF ForgetStale, DeleteStale, Settle
  <2>3. QED
    BY <2>1, <2>2, QuietStep
<1>9. ASSUME NEW a \in Assets, KeepAsset(a) \/ RefuseAsset(a) \/ UploadFails(a) PROVE OwnershipInv'
  <2>1. \A b \in Assets : mirrored'[b] \in {mirrored[b], NoId}
    BY <1>9 DEF KeepAsset, RefuseAsset, UploadFails, LeaveTaken, Forget, TypeOK
  <2>2. UNCHANGED <<release, known, pc, current>> /\ queue' \subseteq queue
    BY <1>9 DEF KeepAsset, RefuseAsset, UploadFails, Serve
  <2>3. QED
    BY <2>1, <2>2, QuietStep
<1>10. ASSUME NEW a \in Assets, UploadSucceeds(a) PROVE OwnershipInv'
  <2>1. PICK i \in Ids : Create(i, a) /\ mirrored' = [mirrored EXCEPT ![a] = i]
    BY <1>10 DEF UploadSucceeds
  <2>2. attachment'[i].of = a
    BY <2>1 DEF Create, TypeOK
  <2>3. /\ UNCHANGED <<release, known, pc, current>> /\ queue' \subseteq queue
        /\ pc = "assets" /\ a \in queue
    BY <1>10 DEF UploadSucceeds, Serve, Uploading, Serving
  <2>4. RecordsAfter(mirrored', current')
    BY <2>1, <2>2, <2>3, MarkersAfter DEF RecordsAfter, OwnershipInv, TurnIsOwned, TypeOK
  <2>5. KnownLasts' /\ TurnIsOwned'
    BY <2>3 DEF OwnershipInv, KnownLasts, TurnIsOwned
  <2>6. QED
    BY <2>3, <2>4, <2>5, MarkersAfter, Reassemble
<1>11. ASSUME NEW a \in Assets, UploadLost(a) PROVE OwnershipInv'
  BY <1>11, <1>3 DEF UploadLost
<1>12. CASE FinishRelease
  <2>1. /\ release' = [release EXCEPT ![TagOf[current]].marker = mirrored]
        /\ pc = "assets" /\ pc' = "visit" /\ UNCHANGED known
    BY <1>12 DEF FinishRelease, FinalMarker
  <2>2. /\ current \in Releases /\ TagOf[current] \in Tags
        /\ release[TagOf[current]].owner = current
    BY <1>2, <2>1 DEF OwnershipInv, TurnIsOwned
  <2>3. \A t \in Tags : /\ release'[t].owner = release[t].owner
                        /\ release'[t].marker = IF t = TagOf[current] THEN mirrored ELSE release[t].marker
    BY <2>1, <2>2 DEF TypeOK, GiteaRelease
  <2>4. \A t \in Tags : release'[t].owner \in Releases => RecordsAfter(release'[t].marker, release'[t].owner)
    BY <2>1, <2>2, <2>3, MarkersAfter
  <2>5. KnownLasts' /\ TurnIsOwned'
    BY <2>1, <2>3 DEF OwnershipInv, KnownLasts, TurnIsOwned
  <2>6. QED
    BY <2>1, <2>4, <2>5, MarkersAfter, Reassemble
<1>13. CASE FinishRun \/ Abort \/ CutShort \/ MarkerRefused
  BY <1>4, <1>13 DEF FinishRun, Abort, CutShort, MarkerRefused
<1>14. ASSUME NEW r \in Releases, CreateRefused(r) PROVE OwnershipInv'
  BY <1>4, <1>14 DEF CreateRefused
<1>15. CASE SourceChanges
  BY <1>3, <1>15 DEF SourceChanges
<1>16. CASE UserEdits
  <2>1. UNCHANGED <<pc, known, current, mirrored, queue>>
    BY <1>16 DEF UserEdits
  <2>2. \A t \in Tags : \/ release'[t] = release[t]
                        \/ release[t].owner = "none" /\ release'[t].owner = "user"
    BY <1>16 DEF UserEdits, TypeOK, GiteaRelease
  <2>3. \A t \in Tags : release'[t].owner \in Releases => RecordsAfter(release'[t].marker, release'[t].owner)
    BY <1>2, <2>2, MarkersAfter
  <2>4. KnownLasts'
    BY <2>1, <2>2 DEF OwnershipInv, KnownLasts
  <2>5. TurnIsOwned'
    BY <1>2, <2>1, <2>2 DEF OwnershipInv, TurnIsOwned
  <2>6. QED
    BY <2>1, <2>3, <2>4, <2>5, MarkersAfter, Reassemble
<1>17. CASE UNCHANGED vars
  BY <1>3, <1>17 DEF vars
<1>18. QED
  BY <1>5, <1>6, <1>7, <1>8, <1>9, <1>10, <1>11, <1>12, <1>13, <1>14, <1>15, <1>16, <1>17
  DEF Next, Step

\* Whatever fails, whatever users do in Gitea and whatever the source replaces, a marker names
\* only attachments GitHarbor uploaded for those very assets.
THEOREM HonestMarkers == Spec => []MarkersAreHonest
<1>1. OwnershipInv => MarkersAreHonest
  BY DEF OwnershipInv
<1>2. QED
  BY <1>1, OwnershipStarts, OwnershipLasts, PTL DEF Spec

\* No step of the mirror changes a user's release or attachment.
THEOREM UsersKeepTheirs == Spec => ForeignUntouched
<1> DEFINE Untouched == budget'["edit"] = budget["edit"] =>
             /\ \A t \in Tags : release[t].owner = "user" => release'[t] = release[t]
             /\ \A i \in Ids : attachment[i].of = "user" => attachment'[i] = attachment[i]
<1>1. OwnershipInv /\ [Next]_vars => Untouched
  <2> SUFFICES ASSUME OwnershipInv, [Next]_vars PROVE Untouched
    OBVIOUS
  <2>1. TypeOK /\ NoId \notin Ids
    BY DEF OwnershipInv, Ids, NoId
  <2>2. \A r \in Releases : TagOf[r] \in Tags /\ r # "none" /\ r # "user"
    BY ReleasesAssumption
  <2>3. \A a \in Assets : a # "user"
    BY ReleasesAssumption
  <2> USE DEF listings, assetRun, gitea, upstream
  <2>4. ASSUME NEW r \in Releases, VisitRelease(r) PROVE Untouched
    <3>1. UNCHANGED attachment
      BY <2>4 DEF VisitRelease
    <3>2. UNCHANGED release \/ \E x : /\ release' = [release EXCEPT ![TagOf[r]] = x]
                                      /\ release[TagOf[r]].owner \in {"none", r}
      BY <2>2, <2>4 DEF VisitRelease, Managed, OwnershipInv, KnownLasts
    <3>3. QED
      BY <2>1, <2>2, <3>1, <3>2 DEF TypeOK
  <2>5. ASSUME NEW a \in Assets, mirrored[a] # NoId, pc = "assets"
        PROVE  mirrored[a] \in Ids /\ attachment[mirrored[a]].of = a
    BY <2>1, <2>5 DEF OwnershipInv, MarkersAreHonest, Records, TypeOK
  <2>6. ASSUME NEW a \in Assets, DeleteStale(a) \/ KeepAsset(a) PROVE Untouched
    <3>1. UNCHANGED release
      BY <2>6 DEF DeleteStale, KeepAsset
    <3>2. UNCHANGED attachment \/ \E x : attachment' = [attachment EXCEPT ![mirrored[a]] = x]
      BY <2>6 DEF DeleteStale, KeepAsset
    <3>3. pc = "assets"
      BY <2>6 DEF DeleteStale, KeepAsset, Serving
    <3>4. QED
      BY <2>1, <2>3, <2>5, <3>1, <3>2, <3>3 DEF TypeOK
  <2>7. ASSUME NEW a \in Assets, UploadSucceeds(a) \/ UploadLost(a) PROVE Untouched
    BY <2>1, <2>7 DEF UploadSucceeds, UploadLost, Create, Free, TypeOK
  <2>8. CASE FinishRelease
    <3>1. release[TagOf[current]].owner = current /\ current # "user"
      BY <2>2, <2>8 DEF FinishRelease, OwnershipInv, TurnIsOwned
    <3>2. QED
      BY <2>1, <2>8, <3>1 DEF FinishRelease, TypeOK
  <2>9. CASE SourceChanges
    BY <2>9 DEF SourceChanges
  <2>10. CASE UserEdits
    BY <2>1, <2>10 DEF UserEdits, Spend, TypeOK, Chances
  <2>11. CASE UNCHANGED <<release, attachment>>
    BY <2>11
  <2>12. QED
    BY <2>4, <2>6, <2>7, <2>8, <2>9, <2>10, <2>11 DEF Next, Step, vars, StartRun, VisitForeign,
       ForgetStale, RefuseAsset, UploadFails, FinishRun, CreateRefused, Abort,
       CutShort, MarkerRefused
<1>2. QED
  BY <1>1, OwnershipStarts, OwnershipLasts, PTL DEF Spec, ForeignUntouched

-----------------------------------------------------------------------------
(* The fallback.  FallbackKept speaks of a deletion in the turn of an older *)
(* release; what makes it safe happened in the turn of the latest one.      *)

OfLatest(a) == a \in source.assets /\ ReleaseOf[a] = source.latest

\* GitHub's promise, and what a run's listing keeps of it.
SourceIsSane == Sane(published, listed, latest)
ListingIsSane == pc # "idle" =>
  /\ \A r, q \in source.releases : TagOf[r] = TagOf[q] => r = q
  /\ source.latest # "none" => mode = "latest" /\ source.latest \in source.releases
  /\ todo \subseteq source.releases
  /\ pc = "assets" => current \in source.releases

\* In the latest release's turn each of its assets waits, is recorded, or has left a warning.
LatestProgresses == pc = "assets" /\ current = source.latest =>
  /\ \A a \in stale : ~OfLatest(a)
  /\ ~warned => \A a \in Assets : OfLatest(a) => a \in queue \/ mirrored[a] # NoId

\* latest_assets_ready: the turn of the latest release is over and its marker is complete.
ReadyIsComplete == pc # "idle" /\ source.latest # "none" /\ ready =>
  /\ source.latest \notin todo
  /\ pc = "assets" => current # source.latest
  /\ \A a \in Assets : OfLatest(a) => release[TagOf[source.latest]].marker[a] # NoId

\* Another release is worked on only then.
OthersWait == pc = "assets" /\ source.latest \notin {"none", current} => ready

FallbackInv == /\ TypeOK /\ SourceIsSane /\ ListingIsSane /\ LatestProgresses
               /\ ReadyIsComplete /\ OthersWait

\* No run is under way at the start.
LEMMA FallbackStarts == Init => FallbackInv
BY TypesStart
DEF Init, FallbackInv, SourceIsSane, ListingIsSane, LatestProgresses, ReadyIsComplete, OthersWait

\* A step outside the run, which leaves the markers alone.
LEMMA OutsideStep ==
  ASSUME FallbackInv, TypeOK', SourceIsSane',
         UNCHANGED <<pc, listings, todo, ready, assetRun>>, UNCHANGED mode \/ pc = "idle",
         \A t \in Tags : release'[t].marker = release[t].marker
  PROVE  FallbackInv'
<1> USE DEF FallbackInv, listings, assetRun, OfLatest
<1>1. ListingIsSane' /\ LatestProgresses' /\ OthersWait'
  BY DEF ListingIsSane, LatestProgresses, OthersWait
<1>2. ReadyIsComplete'
  BY ReleasesAssumption DEF ReadyIsComplete, TypeOK
<1>3. QED
  BY <1>1, <1>2

\* A step of the turn of one release, which may handle one asset.
LEMMA TurnStep ==
  ASSUME FallbackInv, TypeOK', pc = "assets",
         UNCHANGED <<upstream, release, pc, listings, todo, ready, current>>,
         stale' \subseteq stale, LatestProgresses'
  PROVE  FallbackInv'
<1> USE DEF FallbackInv, listings, upstream
<1>1. ListingIsSane' /\ OthersWait' /\ SourceIsSane'
  BY DEF ListingIsSane, OthersWait, SourceIsSane, Sane
<1>2. ReadyIsComplete'
  BY DEF ReadyIsComplete, OfLatest
<1>3. QED
  BY <1>1, <1>2

\* Every step keeps the invariant of the fallback.
LEMMA FallbackLasts == FallbackInv /\ [Next]_vars => FallbackInv'
<1> SUFFICES ASSUME FallbackInv, [Next]_vars PROVE FallbackInv'
  OBVIOUS
<1>1. TypeOK /\ TypeOK'
  BY TypesLast DEF FallbackInv
<1>2. \A r \in Releases : TagOf[r] \in Tags /\ r # "none"
  BY ReleasesAssumption
<1> USE <1>1
<1>3. ASSUME UNCHANGED upstream PROVE SourceIsSane'
  BY <1>3 DEF upstream, SourceIsSane, Sane, FallbackInv
<1>4. ASSUME EndOfRun, UNCHANGED upstream PROVE FallbackInv'
  BY <1>3, <1>4 DEF EndOfRun, FallbackInv, ListingIsSane, LatestProgresses, ReadyIsComplete, OthersWait
<1>5. CASE StartRun
  <2>1. /\ pc' = "visit" /\ todo' = published /\ UNCHANGED upstream
        /\ source'.releases = published
        /\ source'.latest = IF mode = "latest" THEN latest ELSE "none"
        /\ ready' = (source'.latest = "none")
    BY <1>5 DEF StartRun
  <2>2. SourceIsSane' /\ LatestProgresses' /\ ReadyIsComplete' /\ OthersWait'
    BY <1>3, <2>1 DEF LatestProgresses, ReadyIsComplete, OthersWait
  <2>3. ListingIsSane'
    BY <2>1 DEF ListingIsSane, FallbackInv, SourceIsSane, Sane, upstream
  <2>4. QED
    BY <2>2, <2>3 DEF FallbackInv
<1>6. ASSUME NEW r \in Releases, VisitForeign(r) PROVE FallbackInv'
  <2>1. /\ UNCHANGED <<upstream, release, pc, listings, ready, assetRun>>
        /\ todo' \subseteq todo /\ pc = "visit"
    BY <1>6 DEF VisitForeign, Turn, gitea
  <2>2. SourceIsSane' /\ ListingIsSane' /\ LatestProgresses' /\ OthersWait'
    BY <1>3, <2>1 DEF ListingIsSane, LatestProgresses, OthersWait, FallbackInv, listings, upstream
  <2>3. ReadyIsComplete'
    BY <2>1 DEF ReadyIsComplete, OfLatest, FallbackInv, listings
  <2>4. QED
    BY <2>2, <2>3 DEF FallbackInv
<1>7. ASSUME NEW r \in Releases, VisitRelease(r) PROVE FallbackInv'
  <2>1. /\ pc = "visit" /\ r \in todo /\ UNCHANGED <<upstream, listings, ready>>
        /\ UNCHANGED release \/ \E x : release' = [release EXCEPT ![TagOf[r]] = x]
    BY <1>7 DEF VisitRelease, Turn
  <2>2. PICK m : Enter(r, m)
    BY <1>7 DEF VisitRelease
  <2>3. /\ todo' \subseteq todo /\ pc' \in {"visit", "assets"}
        /\ pc' = "assets" => /\ todo' = todo /\ current' = r /\ warned' = FALSE
                             /\ queue' = Wanted(r) /\ stale' \cap Wanted(r) = {}
                             /\ ~HoldsBack(r)
    BY <2>1, <2>2 DEF Enter
  <2>4. r \in source.releases /\ (source.latest # "none" => mode = "latest" /\ source.latest \in source.releases)
    BY <2>1 DEF FallbackInv, ListingIsSane
  <2>5. SourceIsSane' /\ ListingIsSane'
    BY <1>3, <2>1, <2>3 DEF ListingIsSane, FallbackInv, listings, upstream
  <2>6. LatestProgresses'
    BY <2>1, <2>3 DEF LatestProgresses, Wanted, OfLatest, listings
  <2>7. OthersWait'
    BY <2>1, <2>3, <2>4 DEF OthersWait, HoldsBack, listings
  <2>8. ReadyIsComplete'
    <3> SUFFICES ASSUME source.latest # "none", ready
                 PROVE  /\ source.latest \notin todo'
                        /\ pc' = "assets" => current' # source.latest
                        /\ \A a \in Assets : OfLatest(a) => release'[TagOf[source.latest]].marker[a] # NoId
      BY <2>1 DEF ReadyIsComplete, OfLatest, listings
    <3>1. /\ source.latest \notin todo
          /\ \A a \in Assets : OfLatest(a) => release[TagOf[source.latest]].marker[a] # NoId
      BY <2>1 DEF ReadyIsComplete, FallbackInv
    <3>2. TagOf[r] # TagOf[source.latest]
      BY <2>1, <2>4, <3>1 DEF FallbackInv, ListingIsSane
    <3>3. release'[TagOf[source.latest]] = release[TagOf[source.latest]]
      BY <1>2, <2>1, <2>4, <3>2 DEF TypeOK
    <3>4. QED
      BY <2>1, <2>3, <3>1, <3>3
  <2>9. QED
    BY <2>5, <2>6, <2>7, <2>8 DEF FallbackInv
<1>8. ASSUME NEW a \in Assets, ForgetStale(a) \/ DeleteStale(a) PROVE FallbackInv'
  <2>1. /\ pc = "assets" /\ a \in stale /\ stale' = stale \ {a}
        /\ UNCHANGED <<upstream, release, pc, listings, todo, ready, current, queue>>
        /\ \A b \in Assets \ {a} : mirrored'[b] = mirrored[b]
        /\ warned => warned'
    BY <1>8 DEF ForgetStale, DeleteStale, Settle, Forget, gitea, TypeOK
  <2>2. LatestProgresses'
    BY <2>1 DEF FallbackInv, LatestProgresses, OfLatest, listings, TypeOK
  <2>3. QED
    BY <2>1, <2>2, TurnStep
<1>9. ASSUME NEW a \in Assets, KeepAsset(a) \/ RefuseAsset(a) \/ UploadFails(a) \/ UploadSucceeds(a)
      PROVE  FallbackInv'
  <2>1. /\ pc = "assets" /\ queue' = queue \ {a}
        /\ UNCHANGED <<upstream, release, pc, listings, todo, ready, current, stale>>
        /\ warned => warned'
    BY <1>9 DEF KeepAsset, RefuseAsset, UploadFails, UploadSucceeds, Serve, Serving, Uploading, gitea, TypeOK
  <2>2. \A b \in Assets \ {a} : mirrored'[b] = mirrored[b]
    BY <1>9 DEF KeepAsset, RefuseAsset, UploadFails, UploadSucceeds, LeaveTaken, Forget, TypeOK
  <2>3. warned' \/ mirrored'[a] # NoId
    BY <1>9 DEF KeepAsset, Present, RefuseAsset, UploadFails, UploadSucceeds, TypeOK, Ids, NoId
  <2>4. LatestProgresses'
    BY <2>1, <2>2, <2>3 DEF FallbackInv, LatestProgresses, OfLatest, listings, TypeOK
  <2>5. QED
    BY <2>1, <2>4, TurnStep
<1>10. ASSUME NEW a \in Assets, UploadLost(a) PROVE FallbackInv'
  BY <1>3, <1>10, OutsideStep DEF UploadLost, upstream, listings
<1>11. CASE FinishRelease
  <2>1. /\ pc = "assets" /\ pc' = "visit" /\ stale = {} /\ queue = {}
        /\ release' = [release EXCEPT ![TagOf[current]].marker = mirrored]
        /\ ready' = IF current = source.latest THEN ~warned ELSE ready
        /\ todo' = todo \ {current} /\ UNCHANGED <<upstream, listings>>
    BY <1>11 DEF FinishRelease, FinalMarker, ReadyAfter
  <2>2. SourceIsSane' /\ ListingIsSane' /\ LatestProgresses' /\ OthersWait'
    BY <1>3, <2>1
    DEF ListingIsSane, LatestProgresses, OthersWait, FallbackInv, listings, upstream
  <2>3. ReadyIsComplete'
    <3> SUFFICES ASSUME source.latest # "none", ready'
                 PROVE  /\ source.latest \notin todo'
                        /\ \A a \in Assets : OfLatest(a) => release'[TagOf[source.latest]].marker[a] # NoId
      BY <2>1 DEF ReadyIsComplete, OfLatest, listings
    <3>1. /\ current \in source.releases /\ source.latest \in source.releases
          /\ \A r, q \in source.releases : TagOf[r] = TagOf[q] => r = q
          /\ source.releases \subseteq Releases
      BY <2>1 DEF FallbackInv, ListingIsSane, TypeOK
    <3>2. CASE current = source.latest
      <4>1. \A a \in Assets : OfLatest(a) => mirrored[a] # NoId
        BY <2>1, <3>2 DEF FallbackInv, LatestProgresses
      <4>2. release'[TagOf[source.latest]].marker = mirrored
        BY <1>2, <2>1, <3>1, <3>2 DEF TypeOK, GiteaRelease
      <4>3. QED
        BY <2>1, <3>2, <4>1, <4>2
    <3>3. CASE current # source.latest
      <4>1. release'[TagOf[source.latest]] = release[TagOf[source.latest]]
        BY <1>2, <2>1, <3>1, <3>3 DEF TypeOK
      <4>2. QED
        BY <2>1, <3>3, <4>1 DEF FallbackInv, ReadyIsComplete
    <3>4. QED
      BY <3>2, <3>3
  <2>4. QED
    BY <2>2, <2>3 DEF FallbackInv
<1>12. CASE FinishRun \/ Abort \/ CutShort \/ MarkerRefused
  BY <1>4, <1>12 DEF FinishRun, Abort, CutShort, MarkerRefused
<1>13. ASSUME NEW r \in Releases, CreateRefused(r) PROVE FallbackInv'
  BY <1>4, <1>13 DEF CreateRefused
<1>14. CASE SourceChanges
  <2>1. SourceIsSane'
    BY <1>14 DEF SourceChanges, SourceIsSane
  <2>2. QED
    BY <1>14, <2>1, OutsideStep DEF SourceChanges, gitea
<1>15. CASE UserEdits
  <2>1. \A t \in Tags : release'[t].marker = release[t].marker
    BY <1>15 DEF UserEdits, TypeOK, GiteaRelease
  <2>2. QED
    BY <1>3, <1>15, <2>1, OutsideStep DEF UserEdits, upstream
<1>16. CASE UNCHANGED vars
  BY <1>3, <1>16, OutsideStep DEF vars, upstream, gitea
<1>17. QED
  BY <1>5, <1>6, <1>7, <1>8, <1>9, <1>10, <1>11, <1>12, <1>13, <1>14, <1>15, <1>16 DEF Next, Step

\* An older release loses an asset only when the marker of the latest one is complete.
THEOREM LatestReleaseFirst == Spec => FallbackKept
<1> DEFINE Kept == \A i \in Ids :
             /\ attachment[i].there /\ ~attachment'[i].there /\ budget'["edit"] = budget["edit"]
             /\ source.latest # "none" /\ current # source.latest
             => \A a \in source.assets : ReleaseOf[a] = source.latest =>
                  release[TagOf[source.latest]].marker[a] # NoId
<1>1. FallbackInv /\ [Next]_vars => Kept
  <2> SUFFICES ASSUME FallbackInv, [Next]_vars,
                      NEW i \in Ids, attachment[i].there, ~attachment'[i].there,
                      budget'["edit"] = budget["edit"], source.latest # "none", current # source.latest,
                      NEW a \in source.assets, ReleaseOf[a] = source.latest
               PROVE  release[TagOf[source.latest]].marker[a] # NoId
    OBVIOUS
  <2>1. TypeOK /\ a \in Assets
    BY DEF FallbackInv, TypeOK
  <2>2. ~UNCHANGED attachment
    OBVIOUS
  <2>3. ASSUME NEW b \in Assets PROVE ~UploadSucceeds(b) /\ ~UploadLost(b)
    BY <2>1 DEF UploadSucceeds, UploadLost, Create, TypeOK
  <2>4. ASSUME NEW b \in Assets PROVE ~KeepAsset(b)
    BY <2>1 DEF KeepAsset, TypeOK, Attachment
  <2>5. ~UserEdits
    BY <2>1 DEF UserEdits, Spend, Chances, TypeOK
  <2>6. PICK b \in Assets : DeleteStale(b)
    BY <2>2, <2>3, <2>4, <2>5 DEF Next, Step, vars, gitea, StartRun, VisitForeign, VisitRelease,
       ForgetStale, RefuseAsset, UploadFails, FinishRelease, FinishRun, CreateRefused, Abort,
     CutShort, MarkerRefused, SourceChanges
  <2>7. pc = "assets" /\ ready
    BY <2>6 DEF DeleteStale, FallbackInv, OthersWait
  <2>8. QED
    BY <2>1, <2>7 DEF FallbackInv, ReadyIsComplete, OfLatest
<1>2. QED
  BY <1>1, FallbackStarts, FallbackLasts, PTL DEF Spec, FallbackKept
=============================================================================
