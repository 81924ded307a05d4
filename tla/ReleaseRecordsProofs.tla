------------------------ MODULE ReleaseRecordsProofs ------------------------
(***************************************************************************)
(* Proofs about Releases, continued: what the markers record, after one    *)
(* quiet turn and over all runs.                                           *)
(***************************************************************************)
EXTENDS ReleasesProofs

-----------------------------------------------------------------------------
(* The turn of one release.                                                *)

\* What the turn's two loops have settled: nothing stale remains once the first asset is
\* served, and without a warning an asset is either waiting or as it should be.
TurnProgresses == pc = "assets" =>
  /\ stale \cap Wanted(current) = {} /\ queue \subseteq Wanted(current)
  /\ stale # {} => queue = Wanted(current)
  /\ ~warned => \A a \in Assets :
       /\ a \notin Wanted(current) /\ mirrored[a] # NoId => a \in stale
       /\ a \in Wanted(current) \ queue => mirrored[a] # NoId /\ seen[mirrored[a]].there

TurnInv == TypeOK /\ TurnProgresses

\* The assets that are wanted stay the same during a turn.
LEMMA WantedStays ==
  ASSUME UNCHANGED <<source, current>>, UNCHANGED mode
  PROVE  Wanted(current)' = Wanted(current)
BY DEF Wanted

\* Every step keeps what the turn has settled.
LEMMA TurnLasts == TurnInv /\ [Next]_vars => TurnInv'
<1> SUFFICES ASSUME TurnInv, [Next]_vars PROVE TurnInv'
  OBVIOUS
<1>1. TypeOK /\ TypeOK'
  BY TypesLast DEF TurnInv
<1> USE <1>1 DEF listings, assetRun, gitea, upstream, TurnInv
<1>2. CASE pc' # "assets"
  BY <1>2 DEF TurnProgresses
<1>3. CASE UNCHANGED <<source, current, mode, pc, stale, queue, mirrored, warned, seen>>
  BY <1>3, WantedStays DEF TurnProgresses
<1>4. ASSUME NEW r \in Releases, VisitRelease(r), pc' = "assets" PROVE TurnInv'
  <2>1. PICK m : Enter(r, m)
    BY <1>4 DEF VisitRelease
  <2>2. pc = "visit" /\ UNCHANGED <<upstream, listings>>
    BY <1>4 DEF VisitRelease, Turn
  <2>3. /\ current' = r /\ mirrored' = m /\ queue' = Wanted(r)
        /\ stale' = {a \in Assets : m[a] # NoId} \ Wanted(r)
    BY <1>4, <2>1, <2>2 DEF Enter
  <2>4. Wanted(current)' = Wanted(r)
    BY <2>2, <2>3 DEF Wanted
  <2>5. QED
    BY <2>3, <2>4 DEF TurnProgresses
<1>5. ASSUME NEW a \in Assets, ForgetStale(a) \/ DeleteStale(a) PROVE TurnInv'
  <2>1. /\ pc = "assets" /\ a \in stale /\ stale' = stale \ {a}
        /\ UNCHANGED <<upstream, source, current, queue>>
        /\ \A b \in Assets \ {a} : mirrored'[b] = mirrored[b]
        /\ warned' \/ (~warned /\ mirrored'[a] = NoId)
    BY <1>5 DEF ForgetStale, DeleteStale, Settle, Forget, TypeOK
  <2>2. Wanted(current)' = Wanted(current)
    BY <2>1, WantedStays
  <2>3. queue = Wanted(current)
    BY <2>1 DEF TurnProgresses
  <2>4. QED
    BY <2>1, <2>2, <2>3 DEF TurnProgresses
<1>6. ASSUME NEW a \in Assets, KeepAsset(a) \/ RefuseAsset(a) \/ UploadFails(a) \/ UploadSucceeds(a)
      PROVE  TurnInv'
  <2>1. /\ pc = "assets" /\ stale = {} /\ a \in queue /\ queue' = queue \ {a}
        /\ UNCHANGED <<upstream, source, current, stale>>
    BY <1>6 DEF KeepAsset, RefuseAsset, UploadFails, UploadSucceeds, Serve, Serving, Uploading
  <2>2. Wanted(current)' = Wanted(current)
    BY <2>1, WantedStays
  <2>3. CASE warned'
    BY <2>1, <2>2, <2>3 DEF TurnProgresses
  <2>4. CASE ~warned'
    <3>1. /\ ~warned /\ \A b \in Assets \ {a} : mirrored'[b] = mirrored[b]
          /\ \A i \in Ids : seen[i].there => seen'[i].there
          /\ mirrored'[a] \in Ids /\ seen'[mirrored'[a]].there
      <4>1. CASE KeepAsset(a)
        BY <2>4, <4>1 DEF KeepAsset, Present, TypeOK, NoId
      <4>2. CASE UploadSucceeds(a)
        BY <2>4, <4>2 DEF UploadSucceeds, Create, TypeOK
      <4>3. QED
        BY <1>6, <2>4, <4>1, <4>2 DEF RefuseAsset, UploadFails
    <3>2. a \in Wanted(current)
      BY <2>1 DEF TurnProgresses
    <3>3. \A b \in Assets : mirrored[b] \in Ids \cup {NoId}
      BY DEF TypeOK
    <3>4. QED
      BY <2>1, <2>2, <3>1, <3>2, <3>3 DEF TurnProgresses, Ids, NoId
  <2>5. QED
    BY <2>3, <2>4
<1>7. CASE StartRun \/ FinishRelease \/ FinishRun \/ \E r \in Releases : CreateRefused(r)
  BY <1>2, <1>7 DEF StartRun, FinishRelease, FinishRun, CreateRefused, EndOfRun
<1>8. CASE Abort \/ CutShort \/ MarkerRefused
  BY <1>2, <1>8 DEF Abort, CutShort, MarkerRefused, EndOfRun
<1>9. ASSUME NEW r \in Releases, VisitForeign(r) PROVE TurnInv'
  BY <1>2, <1>9 DEF VisitForeign, Turn
<1>10. CASE SourceChanges
  BY <1>2, <1>3, <1>10 DEF SourceChanges
<1>11. CASE UserEdits \/ UNCHANGED vars \/ \E a \in Assets : UploadLost(a)
  BY <1>3, <1>11 DEF UserEdits, UploadLost, vars
<1>12. QED
  BY <1>2, <1>4, <1>5, <1>6, <1>7, <1>8, <1>9, <1>10, <1>11 DEF Next, Step

\* After a turn without warnings the marker is exactly what the listing asks for, and every
\* attachment it names was there when the run last looked.
THEOREM QuietTurnsRecordAll == Spec => QuietTurnsAreComplete
<1> DEFINE Complete == pc = "assets" /\ pc' = "visit" /\ ~warned =>
             LET marker == release'[TagOf[current]].marker
             IN  \A a \in Assets : /\ marker[a] # NoId <=> a \in Wanted(current)
                                   /\ marker[a] # NoId => seen[marker[a]].there
<1> DEFINE Inv == TurnInv /\ OwnershipInv
<1>1. Inv /\ [Next]_vars => Complete
  <2> SUFFICES ASSUME Inv, [Next]_vars, pc = "assets", pc' = "visit", ~warned PROVE Complete
    OBVIOUS
  <2>1. FinishRelease
    BY DEF Next, Step, vars, StartRun, FinishRun, EndOfRun, VisitForeign, VisitRelease, CreateRefused, Turn,
       ForgetStale, DeleteStale, Settle, KeepAsset, RefuseAsset, UploadSucceeds, UploadFails, UploadLost,
       Serve, Abort, CutShort, MarkerRefused, SourceChanges, UserEdits
  <2>2. TagOf[current] \in Tags
    BY ReleasesAssumption DEF OwnershipInv, TurnIsOwned
  <2>3. release'[TagOf[current]].marker = mirrored
    BY <2>1, <2>2 DEF FinishRelease, FinalMarker, TurnInv, TypeOK, GiteaRelease
  <2>4. \A a \in Assets : /\ mirrored[a] # NoId <=> a \in Wanted(current)
                          /\ mirrored[a] # NoId => seen[mirrored[a]].there
    BY <2>1 DEF FinishRelease, TurnInv, TurnProgresses
  <2>5. QED
    BY <2>3, <2>4
<1>2. Init => TurnInv
  BY TypesStart DEF Init, TurnInv, TurnProgresses
<1>3. QED
  BY <1>1, <1>2, TurnLasts, OwnershipStarts, OwnershipLasts, PTL DEF Spec, QuietTurnsAreComplete

-----------------------------------------------------------------------------
(* All runs.  NothingIsOrphaned is not inductive: that the marker of a      *)
(* visited release is rewritten from an old listing loses nothing because,  *)
(* while nobody interferes, the listing is still what Gitea holds.          *)

BudgetShrinks == \A c \in Chances : budget[c] <= Budget[c]
TurnsEnd == pc # "assets" => current = "none"

\* The attachments a run remembers are those of Gitea, under their own names.
SeenIsTrue == pc # "idle" => seen = attachment
NamesStay == \A i \in Ids : \A a \in Assets : attachment[i].of = a => attachment[i].name = NameOf[a]

\* The marker that a release will start its turn from is the one it has in Gitea.
KnownIsCurrent == pc # "idle" => \A r \in todo :
  known[TagOf[r]].owner = r /\ current # r => release[TagOf[r]].marker = known[TagOf[r]].marker

\* The run's new marker replaces the old one for the release whose turn it is.
EachIsRecorded == \A i \in Ids : \A a \in Assets :
  attachment[i].of = a /\ attachment[i].there =>
    LET g == release[TagOf[ReleaseOf[a]]]
    IN  /\ g.owner = ReleaseOf[a]
        /\ current = ReleaseOf[a] => mirrored[a] = i
        /\ current # ReleaseOf[a] => g.marker[a] = i

Trusted == SeenIsTrue /\ NamesStay /\ KnownIsCurrent /\ EachIsRecorded
RecordInv == OwnershipInv /\ FallbackInv /\ BudgetShrinks /\ TurnsEnd /\ (Undisturbed => Trusted)

\* Nothing refills a budget.
LEMMA BudgetStep == TypeOK /\ [Next]_vars => \A c \in Chances : budget'[c] <= budget[c]
<1> SUFFICES ASSUME TypeOK, [Next]_vars PROVE \A c \in Chances : budget'[c] <= budget[c]
  OBVIOUS
<1>1. CASE UNCHANGED budget
  BY <1>1 DEF TypeOK
<1>2. ASSUME NEW chance \in Chances, Spend(chance) PROVE \A c \in Chances : budget'[c] <= budget[c]
  BY <1>2 DEF Spend, TypeOK
<1>3. CASE \E fault : Suffer(fault)
  BY <1>2, <1>3 DEF Suffer, Chances
<1>4. QED
  BY <1>1, <1>2, <1>3 DEF Next, Step, vars, StartRun, VisitForeign, VisitRelease, CreateRefused, ForgetStale,
     DeleteStale, KeepAsset, RefuseAsset, UploadSucceeds, UploadFails, UploadLost, FinishRelease, FinishRun,
     Abort, CutShort, MarkerRefused, SourceChanges, UserEdits, Chances

\* A step after which nothing has been disturbed follows a state with nothing disturbed, and it
\* is no edit, loses no answer and ends no run before the turn in progress is recorded.
LEMMA NothingDisturbs ==
  ASSUME TypeOK, TypeOK', BudgetShrinks, [Next]_vars, Undisturbed'
  PROVE  /\ Undisturbed
         /\ ~Spend("edit") /\ \A fault \in {"lost", "cut", "refusal"} : ~Suffer(fault)
<1>1. \A c \in Chances : budget'[c] <= budget[c] /\ budget[c] <= Budget[c]
  BY BudgetStep DEF BudgetShrinks
<1>2. \A c \in Chances : budget[c] \in Nat /\ budget'[c] \in Nat /\ Budget[c] \in Nat
  BY BoundsAssumption DEF TypeOK
<1>3. "edit" \in Chances /\ "fault" \in Chances
  BY DEF Chances
<1>4. \A c \in Chances : budget'[c] = Budget[c] => budget[c] = Budget[c] /\ ~Spend(c)
  <2> SUFFICES ASSUME NEW c \in Chances, budget'[c] = Budget[c] PROVE budget[c] = Budget[c] /\ ~Spend(c)
    OBVIOUS
  <2>1. budget[c] = Budget[c]
    BY <1>1, <1>2
  <2>2. ~Spend(c)
    BY <1>2, <2>1 DEF Spend, TypeOK
  <2>3. QED
    BY <2>1, <2>2
<1>5. QED
  BY <1>3, <1>4 DEF Undisturbed, Suffer

\* A release that has work to do is alone with its tag in the listing.
LEMMA TagsApart ==
  ASSUME FallbackInv, pc # "idle", NEW r \in todo, NEW q \in todo, TagOf[r] = TagOf[q]
  PROVE  r = q
BY DEF FallbackInv, ListingIsSane

\* A step that leaves releases and attachments alone, within a run or outside.
LEMMA GiteaRests ==
  ASSUME Trusted, UNCHANGED <<release, attachment, known, current, mirrored, pc>>,
         todo' \subseteq todo, seen' \in {seen, attachment}
  PROVE  Trusted'
BY DEF Trusted, SeenIsTrue, NamesStay, KnownIsCurrent, EachIsRecorded

\* The end of a run, when no release has its turn, forgets no attachment.
LEMMA RunEndsQuietly ==
  ASSUME TypeOK, Trusted, current = "none", EndOfRun, UNCHANGED gitea
  PROVE  Trusted'
<1>1. pc' = "idle" /\ current' = current /\ release' = release /\ attachment' = attachment
  BY DEF EndOfRun, gitea
<1>2. \A a \in Assets : ReleaseOf[a] # "none"
  BY ReleasesAssumption
<1>3. QED
  BY <1>1, <1>2 DEF Trusted, SeenIsTrue, NamesStay, KnownIsCurrent, EachIsRecorded

\* An asset whose attachment is gone from Gitea may be dropped from the new marker.
LEMMA DroppedIsGone ==
  ASSUME RecordInv, Trusted, pc = "assets", NEW a \in Assets, Forget(a),
         ~Present(a) \/ seen[mirrored[a]].name # NameOf[a],
         UNCHANGED <<release, attachment, seen, known, pc, todo, current>>
  PROVE  Trusted'
<1>1. SeenIsTrue' /\ NamesStay' /\ KnownIsCurrent'
  BY DEF Trusted, SeenIsTrue, NamesStay, KnownIsCurrent
<1>2. \A b \in Assets \ {a} : mirrored'[b] = mirrored[b]
  BY DEF Forget, RecordInv, OwnershipInv, TypeOK
<1>3. ASSUME NEW i \in Ids, attachment[i].of = a, attachment[i].there, current = ReleaseOf[a] PROVE FALSE
  <2>1. mirrored[a] = i /\ seen[i] = attachment[i] /\ attachment[i].name = NameOf[a]
    BY <1>3 DEF Trusted, EachIsRecorded, SeenIsTrue, NamesStay
  <2>2. QED
    BY <1>3, <2>1 DEF Present, Ids, NoId
<1>4. EachIsRecorded'
  BY <1>2, <1>3 DEF Trusted, EachIsRecorded
<1>5. QED
  BY <1>1, <1>4 DEF Trusted

\* The visit of a release enters or renews it with the marker it already has.
LEMMA VisitKeepsRecords ==
  ASSUME RecordInv, TypeOK', Trusted, NEW r \in Releases, VisitRelease(r)
  PROVE  Trusted'
<1> DEFINE t == TagOf[r]
           marker == IF Managed(r) THEN known[t].marker ELSE NoMarker
<1>1. /\ pc = "visit" /\ r \in todo /\ current = "none" /\ t \in Tags
      /\ \A a \in Assets : ReleaseOf[a] \in Releases /\ ReleaseOf[a] # "none"
      /\ r # "none"
  BY ReleasesAssumption DEF VisitRelease, Turn, RecordInv, TurnsEnd
<1>2. /\ UNCHANGED <<attachment, known>> /\ Enter(r, marker) /\ seen' \in {seen, attachment}
      /\ \/ Managed(r) /\ release' = release
         \/ /\ Managed(r) \/ release[t].owner = "none"
            /\ release' = [release EXCEPT ![t] = [owner |-> r, marker |-> marker]]
  BY DEF VisitRelease, listings
<1>3. Managed(r) => release[t].owner = r /\ release[t].marker = marker
  BY <1>1 DEF Managed, RecordInv, OwnershipInv, KnownLasts, Trusted, KnownIsCurrent
<1>4. \/ todo' = todo \ {r} /\ UNCHANGED <<current, mirrored>> /\ pc' = "visit"
      \/ todo' = todo /\ current' = r /\ mirrored' = marker /\ pc' = "assets"
  BY <1>1, <1>2 DEF Enter, assetRun
<1>5. SeenIsTrue' /\ NamesStay'
  BY <1>1, <1>2 DEF Trusted, SeenIsTrue, NamesStay
<1>6. /\ release \in [Tags -> GiteaRelease]
      /\ \A a \in Assets : TagOf[ReleaseOf[a]] \in Tags
  BY ReleasesAssumption DEF RecordInv, OwnershipInv, TypeOK
<1>7. KnownIsCurrent'
  <2> SUFFICES ASSUME NEW q \in todo', known[TagOf[q]].owner = q, current' # q
               PROVE  release'[TagOf[q]].marker = known[TagOf[q]].marker
    BY <1>2 DEF KnownIsCurrent
  <2>1. q \in todo /\ q # r
    BY <1>4
  <2>2. TagOf[q] # t
    BY <1>1, <2>1, TagsApart DEF RecordInv
  <2>3. q \in Releases /\ q # "none" /\ TagOf[q] \in Tags
    BY <2>1, ReleasesAssumption DEF RecordInv, OwnershipInv, TypeOK
  <2>4. release'[TagOf[q]] = release[TagOf[q]]
    BY <1>2, <1>6, <2>2, <2>3
  <2>5. QED
    BY <1>1, <2>1, <2>3, <2>4 DEF Trusted, KnownIsCurrent
<1>8. EachIsRecorded'
  <2> SUFFICES ASSUME NEW i \in Ids, NEW a \in Assets, attachment[i].of = a, attachment[i].there
               PROVE  /\ release'[TagOf[ReleaseOf[a]]].owner = ReleaseOf[a]
                      /\ current' = ReleaseOf[a] => mirrored'[a] = i
                      /\ current' # ReleaseOf[a] => release'[TagOf[ReleaseOf[a]]].marker[a] = i
    BY <1>2 DEF EachIsRecorded
  <2>1. release[TagOf[ReleaseOf[a]]].owner = ReleaseOf[a] /\ release[TagOf[ReleaseOf[a]]].marker[a] = i
    BY <1>1 DEF Trusted, EachIsRecorded
  <2>2. CASE TagOf[ReleaseOf[a]] # t
    <3>1. release'[TagOf[ReleaseOf[a]]] = release[TagOf[ReleaseOf[a]]]
      BY <1>2, <1>6, <2>2
    <3>2. QED
      BY <1>1, <1>4, <2>1, <2>2, <3>1
  <2>3. CASE TagOf[ReleaseOf[a]] = t
    <3>1. Managed(r) /\ ReleaseOf[a] = r /\ release[t].marker = marker
      BY <1>1, <1>2, <1>3, <2>1, <2>3
    <3>2. release'[t].owner = r /\ release'[t].marker = marker
      BY <1>1, <1>2, <1>3, <1>6, <3>1
    <3>3. marker[a] = i /\ (current' = r => mirrored' = marker)
      BY <1>1, <1>4, <2>1, <2>3, <3>1
    <3>4. QED
      BY <2>3, <3>1, <3>2, <3>3
  <2>4. QED
    BY <2>2, <2>3
<1>9. QED
  BY <1>5, <1>7, <1>8 DEF Trusted

\* A deletion that succeeds takes the attachment and its record together.
LEMMA DeletionKeepsRecords ==
  ASSUME RecordInv, Trusted, NEW a \in Assets, DeleteStale(a), ~Suffer("lost")
  PROVE  Trusted'
<1> DEFINE i == mirrored[a]
<1>1. pc = "assets" /\ UNCHANGED <<release, known, pc, todo, current>>
  BY DEF DeleteStale, Settle, listings
<1>2. CASE UNCHANGED <<attachment, seen, mirrored>>
  BY <1>1, <1>2, GiteaRests
<1>3. CASE /\ attachment' = [attachment EXCEPT ![i].there = FALSE]
           /\ seen' = [seen EXCEPT ![i].there = FALSE] /\ Forget(a)
  <2>1. \A b \in Assets \ {a} : mirrored'[b] = mirrored[b]
    BY <1>3 DEF Forget, RecordInv, OwnershipInv, TypeOK
  <2>2. ASSUME NEW j \in Ids
        PROVE  /\ attachment'[j].of = attachment[j].of /\ attachment'[j].name = attachment[j].name
               /\ attachment'[j].there => attachment[j].there /\ j # i
    <3>1. attachment[j] \in Attachment
      BY DEF RecordInv, OwnershipInv, TypeOK
    <3>2. QED
      BY <1>3, <3>1 DEF RecordInv, OwnershipInv, TypeOK, Attachment
  <2>3. seen = attachment
    BY <1>1 DEF Trusted, SeenIsTrue
  <2>4. SeenIsTrue' /\ NamesStay' /\ KnownIsCurrent'
    BY <1>1, <1>3, <2>2, <2>3 DEF Trusted, SeenIsTrue, NamesStay, KnownIsCurrent
  <2>5. EachIsRecorded'
    BY <1>1, <2>1, <2>2 DEF Trusted, EachIsRecorded
  <2>6. QED
    BY <2>4, <2>5 DEF Trusted
<1>4. QED
  BY <1>2, <1>3 DEF DeleteStale

\* While nobody interferes a recorded attachment has its own name, so nothing is renamed.
LEMMA KeepingKeepsRecords ==
  ASSUME RecordInv, Trusted, NEW a \in Assets, KeepAsset(a)
  PROVE  Trusted'
<1>1. pc = "assets" /\ mirrored[a] # NoId /\ mirrored[a] \in Ids
  BY DEF KeepAsset, Serving, Present, RecordInv, OwnershipInv, TypeOK
<1>2. attachment[mirrored[a]].of = a /\ seen = attachment
  BY <1>1 DEF RecordInv, OwnershipInv, MarkersAreHonest, Records, Trusted, SeenIsTrue
<1>3. seen[mirrored[a]].name = NameOf[a]
  BY <1>1, <1>2 DEF Trusted, NamesStay
<1>4. UNCHANGED <<release, attachment, known, current, mirrored, pc, todo, seen>>
  BY <1>3 DEF KeepAsset, Serve, listings
<1>5. QED
  BY <1>4, GiteaRests

\* A new attachment is in the new marker at once.
LEMMA UploadKeepsRecords ==
  ASSUME RecordInv, Trusted, NEW a \in Assets, UploadSucceeds(a)
  PROVE  Trusted'
<1>1. /\ pc = "assets" /\ a \in queue /\ ~Present(a)
      /\ UNCHANGED <<release, known, pc, todo, current>>
  BY DEF UploadSucceeds, Uploading, Serving, Serve, listings
<1>2. PICK i \in Ids : /\ Free(i) /\ Create(i, a)
                       /\ mirrored' = [mirrored EXCEPT ![a] = i]
                       /\ seen' = [seen EXCEPT ![i] = attachment'[i]]
  BY DEF UploadSucceeds
<1>3. TypeOK /\ current = ReleaseOf[a] /\ release[TagOf[current]].owner = current /\ seen = attachment
  BY <1>1 DEF RecordInv, OwnershipInv, TurnIsOwned, Trusted, SeenIsTrue
<1>4. /\ attachment'[i] = [of |-> a, tag |-> TagOf[ReleaseOf[a]], name |-> NameOf[a], there |-> TRUE]
      /\ \A j \in Ids \ {i} : attachment'[j] = attachment[j]
  BY <1>2, <1>3 DEF Create, TypeOK
<1>5. mirrored'[a] = i /\ \A b \in Assets \ {a} : mirrored'[b] = mirrored[b]
  BY <1>2, <1>3 DEF TypeOK
<1>6. \A j \in Ids : ~(attachment[j].of = a /\ attachment[j].there)
  BY <1>1, <1>3 DEF Trusted, EachIsRecorded, Present, Ids, NoId
<1>7. SeenIsTrue'
  BY <1>2, <1>3, <1>4 DEF SeenIsTrue, Create
<1>8. NamesStay' /\ KnownIsCurrent'
  BY <1>1, <1>4 DEF Trusted, NamesStay, KnownIsCurrent
<1>9. EachIsRecorded'
  BY <1>1, <1>3, <1>4, <1>5, <1>6 DEF Trusted, EachIsRecorded
<1>10. QED
  BY <1>7, <1>8, <1>9 DEF Trusted

\* The final marker takes over from the run.
LEMMA FinishKeepsRecords ==
  ASSUME RecordInv, Trusted, FinishRelease
  PROVE  Trusted'
<1>1. /\ pc = "assets" /\ pc' = "visit" /\ UNCHANGED <<attachment, seen, known>>
      /\ release' = [release EXCEPT ![TagOf[current]].marker = mirrored]
      /\ todo' = todo \ {current} /\ current' = "none"
  BY DEF FinishRelease, FinalMarker, listings
<1>2. /\ current \in Releases /\ TagOf[current] \in Tags /\ release[TagOf[current]].owner = current
      /\ \A r \in Releases : r # "none"
      /\ \A a \in Assets : ReleaseOf[a] \in Releases
  BY <1>1, ReleasesAssumption DEF RecordInv, OwnershipInv, TurnIsOwned
<1>3. /\ release'[TagOf[current]].marker = mirrored /\ release'[TagOf[current]].owner = current
      /\ \A t \in Tags \ {TagOf[current]} : release'[t] = release[t]
  BY <1>1, <1>2 DEF RecordInv, OwnershipInv, TypeOK, GiteaRelease
<1>4. SeenIsTrue' /\ NamesStay'
  BY <1>1 DEF Trusted, SeenIsTrue, NamesStay
<1>5. KnownIsCurrent'
  <2> SUFFICES ASSUME NEW q \in todo', known[TagOf[q]].owner = q
               PROVE  release'[TagOf[q]].marker = known[TagOf[q]].marker
    BY <1>1 DEF KnownIsCurrent
  <2>1. q \in todo /\ q # current /\ TagOf[q] \in Tags
    BY <1>1, ReleasesAssumption DEF RecordInv, OwnershipInv, TypeOK
  <2>2. TagOf[q] # TagOf[current]
    BY <1>1, <2>1 DEF RecordInv, FallbackInv, ListingIsSane
  <2>3. QED
    BY <1>1, <1>3, <2>1, <2>2 DEF Trusted, KnownIsCurrent
<1>6. EachIsRecorded'
  <2> SUFFICES ASSUME NEW i \in Ids, NEW a \in Assets, attachment[i].of = a, attachment[i].there
               PROVE  /\ release'[TagOf[ReleaseOf[a]]].owner = ReleaseOf[a]
                      /\ release'[TagOf[ReleaseOf[a]]].marker[a] = i
    BY <1>1, <1>2 DEF EachIsRecorded
  <2>1. /\ release[TagOf[ReleaseOf[a]]].owner = ReleaseOf[a]
        /\ current = ReleaseOf[a] => mirrored[a] = i
        /\ current # ReleaseOf[a] => release[TagOf[ReleaseOf[a]]].marker[a] = i
    BY DEF Trusted, EachIsRecorded
  <2>2. CASE current = ReleaseOf[a]
    BY <1>3, <2>1, <2>2
  <2>3. CASE current # ReleaseOf[a]
    <3>1. TagOf[ReleaseOf[a]] # TagOf[current] /\ TagOf[ReleaseOf[a]] \in Tags
      BY <1>2, <2>1, <2>3, ReleasesAssumption
    <3>2. QED
      BY <1>3, <2>1, <2>3, <3>1
  <2>4. QED
    BY <2>2, <2>3
<1>7. QED
  BY <1>4, <1>5, <1>6 DEF Trusted

\* Every step keeps the invariant of the records.
LEMMA RecordsInvLasts == RecordInv /\ [Next]_vars => RecordInv'
<1> SUFFICES ASSUME RecordInv, [Next]_vars PROVE RecordInv'
  OBVIOUS
<1>1. OwnershipInv' /\ FallbackInv' /\ TypeOK /\ TypeOK'
  BY OwnershipLasts, FallbackLasts, TypesLast DEF RecordInv, OwnershipInv
<1>2. BudgetShrinks'
  <2>1. \A c \in Chances : budget[c] \in Nat /\ budget'[c] \in Nat /\ Budget[c] \in Nat
    BY <1>1, BoundsAssumption DEF TypeOK
  <2>2. QED
    BY <1>1, <2>1, BudgetStep DEF RecordInv, BudgetShrinks
<1>3. TurnsEnd'
  BY DEF RecordInv, TurnsEnd, Next, Step, vars, assetRun, StartRun, FinishRun, EndOfRun, VisitForeign,
     VisitRelease, Enter, CreateRefused, Turn, ForgetStale, DeleteStale, Settle, KeepAsset, RefuseAsset,
     UploadSucceeds, UploadFails, UploadLost, Serve, FinishRelease, Abort, CutShort, MarkerRefused,
     SourceChanges, UserEdits
<1>4. ASSUME Undisturbed' PROVE Trusted'
  <2>1. Undisturbed /\ ~Spend("edit") /\ \A fault \in {"lost", "cut", "refusal"} : ~Suffer(fault)
    BY <1>1, <1>4, NothingDisturbs DEF RecordInv
  <2>2. Trusted
    BY <2>1 DEF RecordInv
  <2> USE <1>1, <2>1, <2>2
  <2>3. CASE StartRun
    <3>1. /\ known' = release /\ seen' = attachment /\ UNCHANGED <<release, attachment, current, mirrored>>
      BY <2>3 DEF StartRun, gitea, assetRun
    <3>2. QED
      BY <3>1 DEF Trusted, SeenIsTrue, NamesStay, KnownIsCurrent, EachIsRecorded
  <2>4. ASSUME NEW r \in Releases, VisitForeign(r) PROVE Trusted'
    BY <2>4, GiteaRests DEF VisitForeign, gitea, listings, assetRun
  <2>5. ASSUME NEW r \in Releases, VisitRelease(r) PROVE Trusted'
    BY <2>5, VisitKeepsRecords
  <2>6. CASE FinishRun \/ Abort \/ \E r \in Releases : CreateRefused(r)
    BY <2>6, RunEndsQuietly DEF FinishRun, Abort, CreateRefused, Turn, RecordInv, TurnsEnd
  <2>7. ASSUME NEW a \in Assets, ForgetStale(a) PROVE Trusted'
    BY <2>7, DroppedIsGone DEF ForgetStale, Settle, gitea, listings, Present
  <2>8. ASSUME NEW a \in Assets, RefuseAsset(a) \/ UploadFails(a) PROVE Trusted'
    BY <2>8, DroppedIsGone
    DEF RefuseAsset, UploadFails, Uploading, Serving, Serve, LeaveTaken, gitea, listings
  <2>9. ASSUME NEW a \in Assets, DeleteStale(a) PROVE Trusted'
    BY <2>9, DeletionKeepsRecords
  <2>10. ASSUME NEW a \in Assets, KeepAsset(a) PROVE Trusted'
    BY <2>10, KeepingKeepsRecords
  <2>11. ASSUME NEW a \in Assets, UploadSucceeds(a) PROVE Trusted'
    BY <2>11, UploadKeepsRecords
  <2>12. CASE FinishRelease
    BY <2>12, FinishKeepsRecords
  <2>13. ~CutShort /\ ~MarkerRefused /\ ~UserEdits /\ \A a \in Assets : ~UploadLost(a)
    BY DEF CutShort, MarkerRefused, UserEdits, UploadLost
  <2>14. CASE SourceChanges \/ UNCHANGED vars
    BY <2>14, GiteaRests DEF SourceChanges, vars, gitea, listings, assetRun
  <2>15. QED
    BY <2>3, <2>4, <2>5, <2>6, <2>7, <2>8, <2>9, <2>10, <2>11, <2>12, <2>13, <2>14 DEF Next, Step
<1>5. QED
  BY <1>1, <1>2, <1>3, <1>4 DEF RecordInv

\* Gitea is empty at the start.
LEMMA RecordsInvStarts == Init => RecordInv
<1> SUFFICES ASSUME Init PROVE RecordInv
  OBVIOUS
<1>1. OwnershipInv /\ FallbackInv
  BY OwnershipStarts, FallbackStarts
<1>2. BudgetShrinks
  BY BoundsAssumption DEF Init, BudgetShrinks
<1>3. \A i \in Ids : attachment[i].of = "none"
  BY DEF Init, NoAttachments
<1>4. TurnsEnd /\ Trusted
  BY <1>3, ReleasesAssumption
  DEF Init, TurnsEnd, Trusted, SeenIsTrue, NamesStay, KnownIsCurrent, EachIsRecorded
<1>5. QED
  BY <1>1, <1>2, <1>4 DEF RecordInv

\* While nobody edits, no answer is lost and every turn that begins gets to its final marker and
\* has it accepted (Undisturbed), every attachment GitHarbor has uploaded is recorded, in Gitea
\* or in the run that is under way: failed requests for single assets and runs that end between
\* two turns lose none.  A turn that is cut short, or whose final marker is refused, may.
THEOREM NoAttachmentIsLost == Spec => []NothingIsOrphaned
<1>1. RecordInv => NothingIsOrphaned
  BY DEF RecordInv, Trusted, EachIsRecorded, NothingIsOrphaned
<1>2. QED
  BY <1>1, RecordsInvStarts, RecordsInvLasts, PTL DEF Spec
=============================================================================
