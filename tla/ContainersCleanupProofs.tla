----------------------- MODULE ContainersCleanupProofs -----------------------
(***************************************************************************)
(* Proofs about Containers: what a run has mirrored when it deletes        *)
(* something and when it ends without a warning, and that the next run     *)
(* takes for its own what this one has copied.                             *)
(***************************************************************************)
EXTENDS ContainersProofs

Working == pc \in {"copy", "verify", "link"}
Cleaning == pc \in {"clean", "prune", "erase"}

\* What a run has to do, and how far it is.
Progress ==
  /\ \A v, w \in Versions : v # w => wanted[v] \cap wanted[w] = {}
  /\ \A v \in selected : wanted[v] # {}
  /\ todo \subseteq selected /\ completed \subseteq selected /\ completed \cap todo = {}
  /\ pc = "idle" => completed = {}
  /\ pc # "idle" /\ mode = "latest" => \E v \in Versions : selected = {v} /\ Latest \in wanted[v]
  /\ Working => current \in todo
  /\ Cleaning => todo = {} /\ mode = "latest" /\ completed = {current} /\ current \notin old
  /\ pc \in {"prune", "erase"} => record \in old
  /\ pc = "prune" => queue \cap wanted[current] = {}

\* A tag refers to a digest that is stored.
ImagesAreStored == \A n \in Names : Exists(n) => tag[n].digest \in images

\* What the run has completed is whole, with the tags it was to have.
CompletedIsWhole == \A v \in completed : Whole(v) /\ journal[v].tags = wanted[v]

\* Without a warning nothing is left out.
NothingLeftOut == ~warned =>
  /\ selected \subseteq todo \cup completed /\ kept = {}
  /\ Cleaning => \A v \in Versions : Recorded(v) => v = current \/ v \in old

Achievements == Progress /\ ImagesAreStored /\ CompletedIsWhole /\ NothingLeftOut

-----------------------------------------------------------------------------

\* Nothing is completed before the first run.
LEMMA AchievementsStart == Init => Achievements
<1> SUFFICES ASSUME Init PROVE Achievements
  OBVIOUS
<1>1. \A v \in Versions : wanted[v] = {}
  BY DEF Init, NothingWanted
<1>2. Progress
  BY <1>1 DEF Init, Progress, Working, Cleaning
<1>3. ImagesAreStored
  BY DEF Init, ImagesAreStored, Exists, NoTags, NoTag
<1>4. CompletedIsWhole /\ NothingLeftOut
  BY DEF Init, CompletedIsWhole, NothingLeftOut, Cleaning
<1>5. QED
  BY <1>2, <1>3, <1>4 DEF Achievements

\* The end of a run leaves nothing to say about it.
LEMMA EndForgets == ASSUME EndRun PROVE Progress' /\ CompletedIsWhole' /\ NothingLeftOut'
<1>1. \A v \in Versions : wanted'[v] = {}
  BY DEF EndRun, NothingWanted
<1>2. Progress'
  BY <1>1 DEF EndRun, Progress, Working, Cleaning
<1>3. QED
  BY <1>2 DEF EndRun, CompletedIsWhole, NothingLeftOut, Cleaning

\* What is stored and whole stays so as long as neither the registry nor the journal changes.
LEMMA ReadsKeep ==
  ASSUME ImagesAreStored, CompletedIsWhole, UNCHANGED <<tag, images, journal, completed, wanted>>
  PROVE ImagesAreStored' /\ CompletedIsWhole'
BY DEF ImagesAreStored, CompletedIsWhole, Whole, Carries, Exists

\* A completed version stays whole when its images, its record and its tags stay.
LEMMA WholeStays ==
  ASSUME CompletedIsWhole, completed' \subseteq completed, UNCHANGED wanted,
         \A v \in completed : /\ v \in images' /\ journal'[v] = journal[v]
                              /\ \A n \in wanted[v] : tag'[n] = tag[n]
  PROVE CompletedIsWhole'
BY DEF CompletedIsWhole, Whole, Carries, Exists

\* The listing of the source gives every selected version tags of its own.
LEMMA OpenAchieves ==
  ASSUME TypeOK, Achievements, OpenPackage PROVE Achievements'
<1> DEFINE chosen == IF mode = "all" THEN published ELSE {v \in published : holder[Latest] = v}
           names(v) == IF v \in chosen
                       THEN {t \in Tags : holder[t] = v}
                            \cup (IF mode = "all" THEN {Preservation(v)} ELSE {})
                       ELSE {}
<1>1. /\ pc = "idle" /\ pc' = "versions" /\ (mode = "all" \/ chosen # {})
      /\ selected' = chosen /\ todo' = chosen
      /\ wanted' = [v \in Versions |-> names(v)]
      /\ UNCHANGED <<upstream, gitea, journal, completed, current, queue, at, cleaning,
                     listed, warned, budget>>
  BY DEF OpenPackage
<1>2. chosen \subseteq Versions
  BY DEF TypeOK
<1>3. \A v, w \in Versions : v # w => names(v) \cap names(w) = {}
  BY ContainersAssumption DEF Preservation
<1>4. \A v \in chosen : (mode = "all" \/ mode = "latest") /\ names(v) # {}
  BY ContainersAssumption DEF TypeOK, Preservation
<1>5. mode = "latest" => \E v \in Versions : chosen = {v} /\ Latest \in names(v)
  BY <1>1, <1>2, ContainersAssumption
<1> HIDE DEF chosen, names
<1>6. completed = {}
  BY <1>1 DEF Achievements, Progress
<1>7. Progress'
  BY <1>1, <1>2, <1>3, <1>4, <1>5, <1>6 DEF Progress, Working, Cleaning, upstream
<1>8. ImagesAreStored' /\ CompletedIsWhole' /\ NothingLeftOut'
  BY <1>1, <1>6 DEF Achievements, ImagesAreStored, Exists, CompletedIsWhole, NothingLeftOut,
                    Cleaning, gitea, cleaning
<1>9. QED
  BY <1>7, <1>8 DEF Achievements

\* A version is prepared, or skipped with a warning.
LEMMA PrepareAchieves ==
  ASSUME TypeOK, Achievements, NEW v \in Versions, PrepareVersion(v) PROVE Achievements'
<1>1. /\ pc = "versions" /\ v \in todo /\ pc' = "copy" /\ current' = v
      /\ journal' = [journal EXCEPT ![v].state = "pending", ![v].tags = @ \cup wanted[v]]
      /\ UNCHANGED <<upstream, gitea, choice, todo, completed, cleaning, warned>>
  BY DEF PrepareVersion, PlannedFor, Turn
<1>2. Progress'
  BY <1>1 DEF Achievements, Progress, Working, Cleaning, upstream, choice, cleaning
<1>3. v \notin completed /\ completed \subseteq Versions
  BY <1>1 DEF Achievements, Progress, TypeOK
<1>4. \A w \in completed : w \in images /\ journal'[w] = journal[w]
  BY <1>1, <1>3 DEF Achievements, CompletedIsWhole, Whole, TypeOK
<1>5. CompletedIsWhole'
  BY <1>1, <1>4, WholeStays DEF Achievements, gitea, choice
<1>6. ImagesAreStored' /\ NothingLeftOut'
  BY <1>1 DEF Achievements, ImagesAreStored, NothingLeftOut, Exists, Cleaning, gitea, choice, cleaning
<1>7. QED
  BY <1>2, <1>5, <1>6 DEF Achievements

\* The way to the next version, with a warning.
LEMMA NextVersionAchieves ==
  ASSUME Achievements, NEW v, NextVersion(v), pc \in {"versions", "copy", "verify", "link"},
         warned' = TRUE, UNCHANGED <<upstream, choice, completed, cleaning>>
  PROVE Progress' /\ NothingLeftOut'
<1>1. Progress'
  BY DEF Achievements, Progress, Working, Cleaning, NextVersion, upstream, choice
<1>2. QED
  BY <1>1 DEF NothingLeftOut

\* A skipped version is reported.
LEMMA SkipAchieves ==
  ASSUME TypeOK, Achievements, NEW v \in Versions, SkipVersion(v) PROVE Achievements'
<1>1. /\ pc = "versions" /\ NextVersion(v) /\ warned' = TRUE
      /\ UNCHANGED <<upstream, gitea, journal, choice, completed, cleaning>>
  BY DEF SkipVersion, Turn, SkipIsWarned
<1>2. QED
  BY <1>1, NextVersionAchieves, ReadsKeep DEF Achievements, gitea, choice

\* A copy stores the image, and touches no tag of a completed version.
LEMMA UploadAchieves ==
  ASSUME TypeOK, Shape, Achievements, Working, NEW n \in queue, Upload(n, current),
         completed' \subseteq completed, UNCHANGED <<journal, wanted>>
  PROVE ImagesAreStored' /\ CompletedIsWhole'
<1>1. PICK i \in Ids : tag' = [tag EXCEPT ![n] = [id |-> i, digest |-> current, by |-> "mirror"]]
  BY DEF Upload
<1>2. /\ n \in Names /\ n \in wanted[current] /\ current \in todo
      /\ completed \subseteq Versions /\ current \in Versions
      /\ \A v \in Versions : wanted[v] \subseteq Names
  BY DEF Shape, Working, TypeOK, Achievements, Progress
<1>3. /\ tag'[n].digest = current /\ images' = images \cup {current}
      /\ \A m \in Names : m # n => tag'[m] = tag[m]
  BY <1>1, <1>2 DEF TypeOK, Upload
<1>4. ImagesAreStored'
  BY <1>3 DEF Achievements, ImagesAreStored, Exists
<1>5. \A v \in completed : v # current /\ n \notin wanted[v]
  BY <1>2 DEF Achievements, Progress
<1>6. ASSUME NEW v \in completed
      PROVE v \in images' /\ \A m \in wanted[v] : tag'[m] = tag[m]
  BY <1>2, <1>3, <1>5 DEF Achievements, CompletedIsWhole, Whole
<1>7. CompletedIsWhole'
  BY <1>6, WholeStays DEF Achievements
<1>8. QED
  BY <1>4, <1>7

\* A tag is copied.
LEMMA CopyAchieves ==
  ASSUME TypeOK, Shape, Achievements, NEW n \in Names, CopyTag(n) PROVE Achievements'
<1>1. /\ pc = "copy" /\ pc' = "verify" /\ n \in queue
      /\ UNCHANGED <<upstream, journal, choice, todo, completed, current, cleaning, warned>>
  BY DEF CopyTag
<1>2. Progress' /\ NothingLeftOut'
  BY <1>1 DEF Achievements, Progress, NothingLeftOut, Working, Cleaning, upstream, choice, cleaning
<1>3. CASE Upload(n, current)
  BY <1>1, <1>2, <1>3, UploadAchieves DEF Achievements, Working, choice
<1>4. CASE UNCHANGED <<tag, images>>
  BY <1>1, <1>2, <1>4, ReadsKeep DEF Achievements, choice
<1>5. QED
  BY <1>3, <1>4 DEF CopyTag

\* A failed copy is reported.
LEMMA CopyFailsAchieves ==
  ASSUME TypeOK, Shape, Achievements, CopyFails PROVE Achievements'
<1>1. /\ pc \in {"copy", "verify"} /\ NextVersion(current) /\ warned' = TRUE
      /\ UNCHANGED <<upstream, journal, choice, completed, cleaning>>
  BY DEF CopyFails
<1>2. Progress' /\ NothingLeftOut'
  BY <1>1, NextVersionAchieves
<1>3. CASE \E n \in queue : Upload(n, current)
  BY <1>1, <1>2, <1>3, UploadAchieves DEF Achievements, Working, choice
<1>4. CASE UNCHANGED <<tag, images>>
  BY <1>1, <1>2, <1>4, ReadsKeep DEF Achievements, choice
<1>5. QED
  BY <1>3, <1>4 DEF CopyFails

\* A tag is verified.
LEMMA VerifyAchieves == ASSUME TypeOK, Achievements, VerifyTag PROVE Achievements'
<1>1. /\ pc = "verify" /\ pc' \in {"copy", "link"}
      /\ UNCHANGED <<upstream, gitea, journal, choice, todo, completed, current, cleaning, warned>>
  BY DEF VerifyTag
<1>2. Progress' /\ NothingLeftOut'
  BY <1>1 DEF Achievements, Progress, NothingLeftOut, Working, Cleaning, upstream, choice, cleaning
<1>3. QED
  BY <1>1, <1>2, ReadsKeep DEF Achievements, gitea, choice

\* A version whose tags are all verified is whole when its record is.
LEMMA CompleteAchieves ==
  ASSUME TypeOK, Shape, Truth, Achievements, CompleteVersion PROVE Achievements'
<1>1. /\ pc = "link" /\ NextVersion(current)
      /\ UNCHANGED <<upstream, gitea, choice, cleaning>>
  BY DEF CompleteVersion
<1>2. CASE warned' = TRUE /\ UNCHANGED <<journal, completed>>
  BY <1>1, <1>2, NextVersionAchieves, ReadsKeep DEF Achievements, gitea, choice
<1>3. CASE /\ \A n \in wanted[current] : Exists(n)
           /\ journal' = [journal EXCEPT ![current] = Complete(current)]
           /\ completed' = completed \cup {current} /\ UNCHANGED warned
  <2>1. /\ current \in todo /\ current \in Versions /\ wanted[current] # {}
        /\ wanted[current] \subseteq Names /\ completed \subseteq Versions
        /\ current \notin completed
    BY <1>1 DEF Achievements, Progress, Working, TypeOK
  <2>2. \A n \in wanted[current] : Carries(n, current)
    BY <1>1 DEF Truth, WorkIsOurs, Shape
  <2>3. current \in images
    BY <2>1, <2>2 DEF Achievements, ImagesAreStored, Carries
  <2>4. /\ journal'[current].state = "complete" /\ journal'[current].tags = wanted[current]
        /\ \A v \in completed : journal'[v] = journal[v]
    BY <1>3, <2>1 DEF Complete, TypeOK
  <2>5. CompletedIsWhole'
    BY <1>1, <1>3, <2>2, <2>3, <2>4
       DEF Achievements, CompletedIsWhole, Whole, Carries, Exists, gitea, choice
  <2>6. Progress'
    BY <1>1, <1>3, <2>1 DEF Achievements, Progress, Working, Cleaning, NextVersion, upstream, choice
  <2>7. NothingLeftOut' /\ ImagesAreStored'
    BY <1>1, <1>3 DEF Achievements, NothingLeftOut, ImagesAreStored, Exists, Cleaning, NextVersion,
                      gitea, choice, cleaning
  <2>8. QED
    BY <2>5, <2>6, <2>7 DEF Achievements
<1>4. QED
  BY <1>2, <1>3 DEF CompleteVersion

\* The cleanup begins with the latest version complete, and with all the other records.
LEMMA StartAchieves ==
  ASSUME TypeOK, Achievements, NEW v \in Versions, StartCleanup(v) PROVE Achievements'
<1>1. /\ pc = "versions" /\ todo = {} /\ mode = "latest" /\ completed = {v} /\ pc' = "clean"
      /\ current' = v /\ old' = {w \in Versions \ {v} : Recorded(w)}
      /\ UNCHANGED <<upstream, gitea, journal, choice, todo, completed, queue, kept, warned>>
  BY DEF StartCleanup, CleanupDue
<1>2. Progress'
  BY <1>1 DEF Achievements, Progress, Working, Cleaning, upstream, choice
<1>3. NothingLeftOut'
  BY <1>1 DEF Achievements, NothingLeftOut, Recorded, choice
<1>4. QED
  BY <1>1, <1>2, <1>3, ReadsKeep DEF Achievements, gitea, choice

\* The tags of the current version are not among those to prune.
LEMMA OpenRecordAchieves ==
  ASSUME TypeOK, Achievements, NEW r \in Versions, OpenRecord(r) PROVE Achievements'
<1>1. /\ pc = "clean" /\ r \in old /\ pc' = "prune" /\ record' = r /\ kept' = {}
      /\ queue' \cap journal[current].tags = {}
      /\ UNCHANGED <<upstream, gitea, journal, choice, copying, old, warned>>
  BY DEF OpenRecord
<1>2. journal[current].tags = wanted[current]
  BY <1>1 DEF Achievements, Progress, Cleaning, CompletedIsWhole
<1>3. Progress'
  BY <1>1, <1>2 DEF Achievements, Progress, Working, Cleaning, upstream, choice, copying
<1>4. NothingLeftOut'
  BY <1>1 DEF Achievements, NothingLeftOut, Cleaning, Recorded, choice, copying
<1>5. QED
  BY <1>1, <1>3, <1>4, ReadsKeep DEF Achievements, gitea, choice, copying

\* A pruned tag is not of the completed version, and a kept one is reported.
LEMMA PruneAchieves ==
  ASSUME TypeOK, Achievements, NEW n \in Names, PruneTag(n) \/ KeepTag(n) PROVE Achievements'
<1>1. /\ pc = "prune" /\ n \in queue /\ queue' \subseteq queue
      /\ UNCHANGED <<upstream, images, link, journal, pc, choice, copying, old, record>>
  BY DEF PruneTag, KeepTag, Pruning
<1>2. /\ tag'[n] \in {tag[n], NoTag} /\ \A m \in Names : m # n => tag'[m] = tag[m]
      /\ (warned' = warned /\ kept' = kept) \/ warned' = TRUE
  BY DEF PruneTag, KeepTag, TypeOK
<1>3. /\ completed = {current} /\ n \notin wanted[current] /\ wanted[current] \subseteq Names
  BY <1>1 DEF Achievements, Progress, Cleaning, TypeOK
<1>4. Progress'
  BY <1>1 DEF Achievements, Progress, Working, Cleaning, upstream, choice, copying
<1>5. NothingLeftOut'
  BY <1>1, <1>2 DEF Achievements, NothingLeftOut, Cleaning, Recorded, choice, copying
<1>6. ImagesAreStored'
  BY <1>1, <1>2 DEF Achievements, ImagesAreStored, Exists, NoTag
<1>7. \A v \in completed : v \in images' /\ \A m \in wanted[v] : tag'[m] = tag[m]
  BY <1>1, <1>2, <1>3 DEF Achievements, CompletedIsWhole, Whole
<1>8. CompletedIsWhole'
  BY <1>1, <1>7, WholeStays DEF Achievements, choice, copying
<1>9. QED
  BY <1>4, <1>5, <1>6, <1>8 DEF Achievements

\* The way to the next record: only this one has changed, and it is not the completed version's.
LEMMA NextRecordAchieves ==
  ASSUME TypeOK, Shape, Achievements, pc \in {"prune", "erase"}, NextRecord,
         UNCHANGED <<upstream, queue>>, warned' \in {warned, TRUE},
         \A v \in Versions : v # record => journal'[v] = journal[v],
         warned' = FALSE => journal'[record].state = "none",
         images' \in {images, images \ {record}},
         \A n \in Names : tag'[n] \in {tag[n], NoTag},
         \A n \in Names : tag'[n] # tag[n] => tag[n].digest = record,
         \A n \in Names : record \notin images' /\ Exists(n)' => tag'[n].digest # record
  PROVE Achievements'
<1>1. /\ record \in old /\ record \in Versions /\ current \notin old /\ completed = {current}
      /\ current \in Versions
      /\ \A v \in Versions : wanted[v] \subseteq Names
      /\ pc' = "clean" /\ old' = old \ {record} /\ kept' = {}
      /\ UNCHANGED <<mode, selected, wanted, todo, completed, current>>
  BY DEF Achievements, Progress, Cleaning, Shape, TypeOK, NextRecord, choice, copying, upstream
<1>2. Progress'
  BY <1>1 DEF Achievements, Progress, Working, Cleaning
<1>3. NothingLeftOut'
  <2>1. SUFFICES ASSUME ~warned' PROVE NothingLeftOut'
    BY DEF NothingLeftOut
  <2>2. ~warned /\ journal'[record].state = "none"
    BY <2>1 DEF TypeOK
  <2>3. QED
    BY <1>1, <2>2 DEF Achievements, NothingLeftOut, Cleaning, Recorded
<1>4. ImagesAreStored'
  BY DEF Achievements, ImagesAreStored, Exists, NoTag
<1>5. current # record
  BY <1>1
<1>6. \A n \in wanted[current] : tag[n].digest = current
  BY <1>1 DEF Achievements, CompletedIsWhole, Whole, Carries
<1>7. \A v \in completed : /\ v \in images' /\ journal'[v] = journal[v]
                           /\ \A n \in wanted[v] : tag'[n] = tag[n]
  BY <1>1, <1>5, <1>6 DEF Achievements, CompletedIsWhole, Whole
<1>8. CompletedIsWhole'
  BY <1>1, <1>7, WholeStays DEF Achievements
<1>9. QED
  BY <1>2, <1>3, <1>4, <1>8 DEF Achievements

\* A record is reduced, kept, or erased with its image.
LEMMA CleanupAchieves ==
  ASSUME TypeOK, Shape, Achievements, KeepRecord \/ KeepImage \/ EraseImage \/ EraseFails
  PROVE Achievements'
<1>1. /\ pc \in {"prune", "erase"} /\ NextRecord /\ UNCHANGED <<upstream, queue>>
      /\ record \in Versions /\ warned \in BOOLEAN
  BY DEF KeepRecord, KeepImage, EraseImage, EraseFails, Shape, TypeOK
<1>2. CASE KeepRecord \/ KeepImage
  <2>1. /\ UNCHANGED <<tag, images>> /\ warned' = TRUE
        /\ \A v \in Versions : v # record => journal'[v] = journal[v]
    BY <1>1, <1>2 DEF KeepRecord, KeepImage, gitea, Achievements, NothingLeftOut, TypeOK
  <2>2. \A n \in Names : record \notin images' /\ Exists(n)' => tag'[n].digest # record
    BY <2>1 DEF Achievements, ImagesAreStored, Exists
  <2>3. QED
    BY <1>1, <2>1, <2>2, NextRecordAchieves
<1>3. CASE EraseImage \/ EraseFails
  <2>1. /\ images' = images \/ images' = images \ {record}
        /\ \A n \in Names : tag'[n] \in {tag[n], NoTag}
        /\ \A n \in Names : tag'[n] # tag[n] => tag[n].digest = record
    BY <1>3 DEF EraseImage, EraseFails, Erase, Carries
  <2>2. /\ \A v \in Versions : v # record => journal'[v] = journal[v]
        /\ warned' \in {warned, TRUE} /\ (warned' = FALSE => journal'[record].state = "none")
    <3>1. CASE EraseImage
      BY <1>1, <3>1 DEF EraseImage, NoRecord, TypeOK
    <3>2. CASE EraseFails
      BY <3>2 DEF EraseFails
    <3>3. QED
      BY <1>3, <3>1, <3>2
  <2>3. \A n \in Names : record \notin images' /\ Exists(n)' => tag'[n].digest # record
    <3>1. CASE UNCHANGED <<tag, images>>
      BY <3>1 DEF Achievements, ImagesAreStored, Exists
    <3>2. CASE Erase
      BY <3>2 DEF Erase, Exists, Carries, NoTag
    <3>3. QED
      BY <1>3, <3>1, <3>2 DEF EraseImage, EraseFails
  <2>4. QED
    BY <1>1, <2>1, <2>2, <2>3, NextRecordAchieves
<1>4. QED
  BY <1>2, <1>3

\* Users leave what is completed alone.
LEMMA EditsAchieve ==
  ASSUME TypeOK, Achievements, UserEdits, ~RacingEdits PROVE Achievements'
<1>1. UNCHANGED <<upstream, journal, pc, choice, copying, queue, cleaning, listed, warned>>
  BY DEF UserEdits
<1>2. Progress' /\ NothingLeftOut'
  BY <1>1 DEF Achievements, Progress, NothingLeftOut, Working, Cleaning, Recorded, upstream, choice,
              copying, cleaning
<1>3. CASE UNCHANGED <<tag, images>>
  BY <1>1, <1>2, <1>3, ReadsKeep DEF Achievements, choice, copying
<1>4. ASSUME NEW n \in UserNames, n \notin Verified, images \subseteq images',
             NEW version, tag' = [tag EXCEPT ![n] = version],
             version.id # NoId => version.digest \in images'
      PROVE Achievements'
  <2>1. /\ n \in Names /\ \A m \in Names : m # n => tag'[m] = tag[m]
        /\ tag'[n] = version
    BY <1>4, ContainersAssumption DEF TypeOK
  <2>2. ImagesAreStored'
    BY <1>4, <2>1 DEF Achievements, ImagesAreStored, Exists
  <2>3. \A v \in completed : wanted[v] \subseteq Names /\ n \notin wanted[v]
    BY <1>4 DEF Verified, TypeOK
  <2>4. \A v \in completed : v \in images' /\ \A m \in wanted[v] : tag'[m] = tag[m]
    BY <1>4, <2>1, <2>3 DEF Achievements, CompletedIsWhole, Whole
  <2>5. CompletedIsWhole'
    BY <1>1, <2>4, WholeStays DEF Achievements, choice, copying
  <2>6. QED
    BY <1>2, <2>2, <2>5 DEF Achievements
<1>5. CASE \E n \in UserNames, d \in Versions \cup {Other}, i \in Ids :
             /\ n \notin Verified /\ images' = images \cup {d}
             /\ tag' = [tag EXCEPT ![n] =
                  [id |-> i, digest |-> d, by |-> IF Expects(n, d) THEN "mirror" ELSE "user"]]
  BY <1>4, <1>5
<1>6. CASE \E n \in UserNames : /\ n \notin Verified /\ images' = images
                                /\ tag' = [tag EXCEPT ![n] = NoTag]
  BY <1>4, <1>6 DEF NoTag
<1>7. QED
  BY <1>3, <1>5, <1>6 DEF UserEdits

\* Every step keeps what the run has achieved.
LEMMA AchievementsLast ==
  ASSUME ~RacingEdits
  PROVE TypeOK /\ Shape /\ Truth /\ Achievements /\ [Next]_vars => Achievements'
<1> SUFFICES ASSUME TypeOK, Shape, Truth, Achievements, [Next]_vars PROVE Achievements'
  OBVIOUS
<1>1. CASE UNCHANGED vars
  <2>1. Progress' /\ NothingLeftOut'
    BY <1>1 DEF Achievements, Progress, NothingLeftOut, Working, Cleaning, Recorded, vars, upstream,
                choice, copying, cleaning
  <2>2. QED
    BY <1>1, <2>1, ReadsKeep DEF Achievements, vars, gitea, choice, copying
<1>2. CASE OpenPackage
  BY <1>2, OpenAchieves
<1>3. CASE LinkRefused \/ FinishRun \/ Abort
  <2>1. EndRun /\ UNCHANGED <<tag, images>>
    BY <1>3 DEF LinkRefused, FinishRun, Abort, gitea
  <2>2. QED
    BY <2>1, EndForgets DEF Achievements, ImagesAreStored, Exists
<1>4. CASE VerifyTag \/ CopyFails \/ CompleteVersion
  BY <1>4, VerifyAchieves, CopyFailsAchieves, CompleteAchieves
<1>5. CASE LinkPackage
  <2>1. UNCHANGED <<upstream, tag, images, journal, pc, choice, copying, queue, cleaning, warned>>
    BY <1>5 DEF LinkPackage
  <2>2. Progress' /\ NothingLeftOut'
    BY <2>1 DEF Achievements, Progress, NothingLeftOut, Working, Cleaning, Recorded, upstream,
                choice, copying, cleaning
  <2>3. QED
    BY <2>1, <2>2, ReadsKeep DEF Achievements, choice, copying
<1>6. CASE NoReferences
  <2>1. /\ pc = "prune" /\ pc' = "erase"
        /\ UNCHANGED <<upstream, gitea, journal, choice, copying, queue, cleaning, warned>>
    BY <1>6 DEF NoReferences
  <2>2. Progress' /\ NothingLeftOut'
    BY <2>1 DEF Achievements, Progress, NothingLeftOut, Working, Cleaning, Recorded, upstream,
                choice, copying, cleaning
  <2>3. QED
    BY <2>1, <2>2, ReadsKeep DEF Achievements, gitea, choice, copying
<1>7. CASE KeepRecord \/ KeepImage \/ EraseImage \/ EraseFails
  BY <1>7, CleanupAchieves
<1>8. ASSUME NEW v \in Versions, PrepareVersion(v) \/ SkipVersion(v) \/ StartCleanup(v) \/ OpenRecord(v)
      PROVE Achievements'
  BY <1>8, PrepareAchieves, SkipAchieves, StartAchieves, OpenRecordAchieves
<1>9. ASSUME NEW n \in Names, CopyTag(n) \/ PruneTag(n) \/ KeepTag(n) PROVE Achievements'
  BY <1>9, CopyAchieves, PruneAchieves
<1>10. CASE SourceChanges
  <2>1. /\ pc = "idle" /\ completed = {}
        /\ UNCHANGED <<gitea, journal, pc, choice, copying, queue, cleaning, warned>>
    BY <1>10 DEF SourceChanges, Achievements, Progress
  <2>2. Progress' /\ NothingLeftOut'
    BY <2>1 DEF Achievements, Progress, NothingLeftOut, Working, Cleaning, Recorded, choice, copying,
                cleaning
  <2>3. QED
    BY <2>1, <2>2, ReadsKeep DEF Achievements, gitea, choice, copying
<1>11. CASE UserEdits
  BY <1>11, EditsAchieve
<1>12. CASE SkipPackage
  BY <1>1, <1>12 DEF SkipPackage
<1>13. QED
  BY <1>1, <1>2, <1>3, <1>4, <1>5, <1>6, <1>7, <1>8, <1>9, <1>10, <1>11, <1>12 DEF Next, Step

-----------------------------------------------------------------------------

\* The steps that take an image or a tag away have a whole latest version to fall back on.
LEMMA RemovalHasFallback ==
  ASSUME TypeOK, Shape, Achievements, pc \in {"prune", "erase"},
         \A n \in Names : tag'[n] # tag[n] =>
           (pc = "prune" /\ n \in queue) \/ tag[n].digest = record
  PROVE \E c \in Versions : Latest \in journal[c].tags /\ Whole(c)
          /\ \A n \in journal[c].tags : tag'[n] = tag[n]
<1>1. /\ completed = {current} /\ current \in Versions /\ record # current
      /\ Latest \in wanted[current]
      /\ pc = "prune" => queue \cap wanted[current] = {}
  BY DEF Achievements, Progress, Cleaning, TypeOK
<1>2. Whole(current) /\ journal[current].tags = wanted[current] /\ wanted[current] \subseteq Names
  BY <1>1 DEF Achievements, CompletedIsWhole, TypeOK
<1>3. \A n \in journal[current].tags : tag[n].digest = current
  BY <1>2 DEF Whole, Carries
<1>4. QED
  BY <1>1, <1>2, <1>3

\* Of the steps that are no edits, only those of the cleanup take an image or a tag away.
LEMMA StepsKeepFallback ==
  ASSUME TypeOK, Shape, Achievements, [Next]_vars, ByMirror,
         images \ images' # {} \/ \E n \in Names : tag[n].id # NoId /\ tag'[n].id = NoId
  PROVE \E c \in Versions : Latest \in journal[c].tags /\ Whole(c)
          /\ \A n \in journal[c].tags : tag'[n] = tag[n]
<1>1. ~UNCHANGED <<tag, images>>
  OBVIOUS
<1>2. ~UserEdits
  BY DEF UserEdits, Spend, ByMirror, TypeOK, Chances
<1>3. ASSUME NEW m \in queue, Upload(m, current) PROVE FALSE
  <2>1. PICK i \in Ids : tag' = [tag EXCEPT ![m] = [id |-> i, digest |-> current, by |-> "mirror"]]
    BY <1>3 DEF Upload
  <2>2. i # NoId
    BY DEF Ids, NoId
  <2>3. QED
    BY <1>3, <2>1, <2>2 DEF Upload, TypeOK
<1>4. ~CopyFails /\ \A n \in Names : ~CopyTag(n)
  BY <1>1, <1>3 DEF CopyFails, CopyTag
<1>5. ASSUME NEW m \in Names, PruneTag(m) \/ KeepTag(m)
      PROVE pc = "prune" /\ \A n \in Names : tag'[n] # tag[n] => n \in queue
  BY <1>5 DEF PruneTag, KeepTag, Pruning, TypeOK
<1>6. ASSUME EraseImage \/ EraseFails
      PROVE pc = "erase" /\ \A n \in Names : tag'[n] # tag[n] => tag[n].digest = record
  BY <1>6 DEF EraseImage, EraseFails, Erase, Carries
<1>7. (EraseImage \/ EraseFails) \/ \E m \in Names : PruneTag(m) \/ KeepTag(m)
  <2>1. CASE OpenPackage \/ SkipPackage \/ VerifyTag \/ LinkPackage \/ LinkRefused \/ CompleteVersion
             \/ FinishRun \/ KeepRecord \/ KeepImage \/ NoReferences \/ Abort \/ SourceChanges
    BY <1>1, <2>1
       DEF OpenPackage, SkipPackage, VerifyTag, LinkPackage, LinkRefused, CompleteVersion, FinishRun,
           KeepRecord, KeepImage, NoReferences, Abort, SourceChanges, gitea, vars
  <2>2. CASE \E v \in Versions : PrepareVersion(v) \/ SkipVersion(v) \/ StartCleanup(v) \/ OpenRecord(v)
    BY <1>1, <2>2 DEF PrepareVersion, SkipVersion, StartCleanup, OpenRecord, gitea
  <2>3. CASE UNCHANGED vars
    BY <1>1, <2>3 DEF vars, gitea
  <2>4. QED
    BY <1>2, <1>4, <2>1, <2>2, <2>3 DEF Next, Step
<1>8. QED
  BY <1>5, <1>6, <1>7, RemovalHasFallback

\* In every run in which users leave the tags alone that a run has just verified, a tag or an
\* image goes away only while another version with "latest" is recorded as complete, is complete in
\* Gitea and stays so.
THEOREM FallbackIsKept == ASSUME ~RacingEdits PROVE Spec => FallbackKept
<1>1. Init => TypeOK /\ Shape /\ Truth /\ Achievements
  BY TypesStart, TruthStart, AchievementsStart
<1>2. TypeOK /\ Shape /\ Truth /\ Achievements /\ [Next]_vars
        => (TypeOK /\ Shape /\ Truth /\ Achievements)'
  BY TypesLast, TruthLasts, AchievementsLast
<1>3. TypeOK /\ Shape /\ Truth /\ Achievements /\ [Next]_vars
        => [ByMirror /\
            (images \ images' # {} \/ \E n \in Names : tag[n].id # NoId /\ tag'[n].id = NoId)
            => \E c \in Versions : Latest \in journal[c].tags /\ Whole(c)
                 /\ \A n \in journal[c].tags : tag'[n] = tag[n]]_vars
  BY StepsKeepFallback
<1>4. QED
  BY <1>1, <1>2, <1>3, PTL DEF Spec, FallbackKept

\* A run that ends by itself and has warned of nothing has left nothing out.
LEMMA QuietEnd ==
  ASSUME TypeOK, Achievements, [Next]_vars,
         ~warned, pc \in {"versions", "clean"}, pc' = "idle", budget' = budget
  PROVE /\ \A v \in selected : Recorded(v) /\ \A n \in wanted[v] : Carries(n, v)
        /\ mode = "latest" => \A v \in Versions \ selected : ~Recorded(v)
<1>1. FinishRun
  <2>1. ~Abort /\ ~SourceChanges /\ ~UserEdits /\ ~UNCHANGED pc
    BY DEF Abort, Suffer, SourceChanges, UserEdits, Spend, TypeOK, Chances
  <2>2. /\ ~OpenPackage /\ ~SkipPackage /\ ~VerifyTag /\ ~CopyFails /\ ~LinkPackage /\ ~LinkRefused
        /\ ~CompleteVersion /\ ~KeepRecord /\ ~KeepImage /\ ~NoReferences
        /\ ~EraseImage /\ ~EraseFails
    BY DEF OpenPackage, SkipPackage, VerifyTag, CopyFails, LinkPackage, LinkRefused, CompleteVersion,
           KeepRecord, KeepImage, NoReferences, EraseImage, EraseFails
  <2>3. /\ \A v \in Versions : ~PrepareVersion(v) /\ ~SkipVersion(v) /\ ~StartCleanup(v) /\ ~OpenRecord(v)
        /\ \A n \in Names : ~CopyTag(n) /\ ~PruneTag(n) /\ ~KeepTag(n)
    BY DEF PrepareVersion, SkipVersion, NextVersion, StartCleanup, OpenRecord, CopyTag, PruneTag,
           KeepTag, Pruning
  <2>4. QED
    BY <2>1, <2>2, <2>3 DEF Next, Step, vars
<1>2. todo = {}
  BY <1>1 DEF FinishRun, Achievements, Progress, Cleaning
<1>3. selected = completed /\ completed \subseteq Versions
  BY <1>2 DEF Achievements, Progress, NothingLeftOut, TypeOK
<1>4. \A v \in selected : Recorded(v) /\ \A n \in wanted[v] : Carries(n, v)
  BY <1>3 DEF Achievements, CompletedIsWhole, Whole, Recorded
<1>5. ASSUME mode = "latest" PROVE \A v \in Versions \ selected : ~Recorded(v)
  <2>1. pc # "versions"
    BY <1>1, <1>3, <1>5 DEF FinishRun, CleanupDue, Achievements, Progress
  <2>2. old = {} /\ completed = {current}
    BY <1>1, <2>1 DEF FinishRun, Achievements, Progress, Cleaning
  <2>3. QED
    BY <1>3, <2>1, <2>2 DEF Achievements, NothingLeftOut, Cleaning
<1>6. QED
  BY <1>4, <1>5

\* In every run in which users leave the tags alone that a run has just verified: one that ends by
\* itself without a warning has mirrored and recorded each selected version with each of its tags,
\* and in latest mode no other version is recorded.
THEOREM QuietRunsMirrorAll == ASSUME ~RacingEdits PROVE Spec => QuietRunsAreComplete
<1>1. Init => TypeOK /\ Shape /\ Truth /\ Achievements
  BY TypesStart, TruthStart, AchievementsStart
<1>2. TypeOK /\ Shape /\ Truth /\ Achievements /\ [Next]_vars
        => (TypeOK /\ Shape /\ Truth /\ Achievements)'
  BY TypesLast, TruthLasts, AchievementsLast
<1>3. TypeOK /\ Shape /\ Truth /\ Achievements /\ [Next]_vars
        => [~warned /\ pc \in {"versions", "clean"} /\ pc' = "idle" /\ budget' = budget =>
              /\ \A v \in selected : Recorded(v) /\ \A n \in wanted[v] : Carries(n, v)
              /\ mode = "latest" => \A v \in Versions \ selected : ~Recorded(v)]_vars
  BY QuietEnd
<1>4. QED
  BY <1>1, <1>2, <1>3, PTL DEF Spec, QuietRunsAreComplete

-----------------------------------------------------------------------------
(* While nobody edits and the source rests, no copy is stranded.           *)

\* The versions that a run has to mirror, and the tags that it gives to each of them.
Chosen == IF mode = "all" THEN published ELSE {v \in published : holder[Latest] = v}
WantedOf(v) == {t \in Tags : holder[t] = v} \cup (IF mode = "all" THEN {Preservation(v)} ELSE {})

\* A run, and the journal, know the versions and the tags that the source still has.
RunIsCurrent ==
  /\ selected \cup completed \subseteq Chosen
  /\ todo \cup (IF Working THEN {current} ELSE {}) \subseteq Chosen
  /\ pc # "idle" => \A v \in Chosen : wanted[v] = WantedOf(v)
JournalIsCurrent == \A v \in Versions :
  journal[v].tags = IF Recorded(v) THEN WantedOf(v) ELSE {}
OnlyChosenRecorded == \A v \in Versions : Recorded(v) => v \in Chosen

\* The ids of the journal are those of Gitea, and what Gitea has is journalled.
IdsAreCurrent == \A v \in Versions, n \in Names :
  journal[v].id[n] # NoId => tag[n].id = journal[v].id[n]
CopiesAreJournalled == \A n \in Names : Exists(n) =>
  \E v \in Versions : /\ tag[n].digest = v /\ n \in journal[v].tags
                      /\ journal[v].id[n] = Planned => journal[v].state = "pending"

\* The version at work is pending, and the cleanup finds nothing to do.
NothingIsOld == pc \notin {"prune", "erase"} /\ (pc = "clean" => old = {})
WorkIsPending == Working => journal[current].state = "pending"

Settled == RunIsCurrent /\ JournalIsCurrent /\ OnlyChosenRecorded /\ IdsAreCurrent
           /\ CopiesAreJournalled /\ NothingIsOld /\ WorkIsPending
BudgetShrinks == \A c \in Chances : budget[c] <= Budget[c]
SettledInv == BudgetShrinks /\ (Undisturbed => Settled)

\* Nothing refills a budget.
LEMMA BudgetStep == TypeOK /\ [Next]_vars => \A c \in Chances : budget'[c] <= budget[c]
<1> SUFFICES ASSUME TypeOK, [Next]_vars PROVE \A c \in Chances : budget'[c] <= budget[c]
  OBVIOUS
<1>1. CASE UNCHANGED budget
  BY <1>1 DEF TypeOK
<1>2. ASSUME NEW chance \in Chances, Spend(chance) PROVE \A c \in Chances : budget'[c] <= budget[c]
  BY <1>2 DEF Spend, TypeOK
<1>3. CASE \E fault : Suffer(fault)
  BY <1>2, <1>3 DEF Suffer, Chances
<1>4. QED
  BY <1>1, <1>2, <1>3
  DEF Next, Step, vars, OpenPackage, SkipPackage, VerifyTag, CopyFails, LinkPackage, LinkRefused,
      CompleteVersion, FinishRun, KeepRecord, KeepImage, NoReferences, EraseImage, EraseFails,
      PrepareVersion, SkipVersion, StartCleanup, OpenRecord, CopyTag, PruneTag, KeepTag, Abort,
      SourceChanges, UserEdits, Chances

\* A step that leaves the budgets for edits and changes untouched is none of those.
LEMMA NothingDisturbs ==
  ASSUME TypeOK, TypeOK', BudgetShrinks, [Next]_vars, Undisturbed'
  PROVE  Undisturbed /\ ~SourceChanges /\ ~UserEdits
<1>1. \A c \in Chances : budget'[c] <= budget[c] /\ budget[c] <= Budget[c]
  BY BudgetStep DEF BudgetShrinks
<1>2. \A c \in Chances : budget[c] \in Nat /\ budget'[c] \in Nat /\ Budget[c] \in Nat
  BY BoundsAssumption DEF TypeOK
<1>3. \A c \in Chances : budget'[c] = Budget[c] => budget[c] = Budget[c] /\ ~Spend(c)
  <2> SUFFICES ASSUME NEW c \in Chances, budget'[c] = Budget[c] PROVE budget[c] = Budget[c] /\ ~Spend(c)
    OBVIOUS
  <2>1. budget[c] = Budget[c]
    BY <1>1, <1>2
  <2>2. ~Spend(c)
    BY <1>2, <2>1 DEF Spend, TypeOK
  <2>3. QED
    BY <2>1, <2>2
<1>4. "edit" \in Chances /\ "change" \in Chances
  BY DEF Chances
<1>5. QED
  BY <1>3, <1>4 DEF Undisturbed, SourceChanges, UserEdits

\* No tag is wanted for two versions.
LEMMA WantedApart ==
  ASSUME NEW v \in Versions, NEW w \in Versions, NEW n, n \in WantedOf(v), n \in WantedOf(w)
  PROVE  v = w
BY ContainersAssumption DEF WantedOf, Preservation

\* A run that copies nothing now keeps what is settled, while it stays in its own selection.
LEMMA RestKeepsSettled ==
  ASSUME Settled, UNCHANGED <<published, holder, mode, tag, journal>>,
         RunIsCurrent', NothingIsOld', WorkIsPending'
  PROVE  Settled'
<1>1. Chosen' = Chosen /\ \A v \in Versions : WantedOf(v)' = WantedOf(v)
  BY DEF Chosen, WantedOf
<1>2. JournalIsCurrent' /\ OnlyChosenRecorded'
  BY <1>1 DEF Settled, JournalIsCurrent, OnlyChosenRecorded, Recorded
<1>3. IdsAreCurrent' /\ CopiesAreJournalled'
  BY DEF Settled, IdsAreCurrent, CopiesAreJournalled, Exists
<1>4. QED
  BY <1>2, <1>3 DEF Settled

\* The end of a run, by itself or not.
LEMMA EndKeepsSettled ==
  ASSUME Settled, EndRun, UNCHANGED <<upstream, gitea, journal>> PROVE Settled'
<1>1. RunIsCurrent' /\ NothingIsOld' /\ WorkIsPending'
  BY DEF EndRun, RunIsCurrent, NothingIsOld, WorkIsPending, Working
<1>2. QED
  BY <1>1, RestKeepsSettled DEF upstream, gitea

\* The way to the next version.
LEMMA NextKeepsRun ==
  ASSUME Settled, pc # "idle", NEW v, NextVersion(v), UNCHANGED <<upstream, choice>>,
         completed' \subseteq completed \cup (IF Working THEN {current} ELSE {})
  PROVE  RunIsCurrent' /\ NothingIsOld' /\ WorkIsPending'
<1>1. Chosen' = Chosen /\ \A w : WantedOf(w)' = WantedOf(w)
  BY DEF Chosen, WantedOf, upstream
<1>2. QED
  BY <1>1 DEF NextVersion, choice, Settled, RunIsCurrent, NothingIsOld, WorkIsPending, Working

\* A copy goes to a tag that Gitea does not have: two versions never want the same one.
LEMMA UploadKeepsSettled ==
  ASSUME TypeOK, Shape, Settled, Working, NEW n \in queue, Upload(n, current), ~Carries(n, current),
         UNCHANGED journal
  PROVE  IdsAreCurrent' /\ CopiesAreJournalled'
<1>1. PICK i \in Ids : tag' = [tag EXCEPT ![n] = [id |-> i, digest |-> current, by |-> "mirror"]]
  BY DEF Upload
<1>2. /\ current \in Versions /\ n \in wanted[current] /\ n \in Names /\ n \in journal[current].tags
      /\ wanted[current] = WantedOf(current)
  BY DEF Working, Shape, TypeOK, Settled, RunIsCurrent
<1>3. i # NoId /\ \A m \in Names : tag'[m] =
        IF m = n THEN [id |-> i, digest |-> current, by |-> "mirror"] ELSE tag[m]
  BY <1>1, <1>2 DEF TypeOK, Ids, NoId
<1>4. ~Exists(n)
  <2>1. ASSUME Exists(n) PROVE FALSE
    <3>1. PICK v \in Versions : tag[n].digest = v /\ n \in journal[v].tags
      BY <1>2, <2>1 DEF Settled, CopiesAreJournalled
    <3>2. n \in WantedOf(v)
      BY <3>1 DEF Settled, JournalIsCurrent
    <3>3. v = current
      BY <1>2, <3>2, WantedApart
    <3>4. QED
      BY <2>1, <3>1, <3>3 DEF Carries
  <2>2. QED
    BY <2>1
<1>5. IdsAreCurrent'
  BY <1>2, <1>3, <1>4 DEF Settled, IdsAreCurrent, Exists
<1>6. journal[current].state = "pending"
  BY DEF Settled, WorkIsPending
<1>7. CopiesAreJournalled'
  BY <1>2, <1>3, <1>6 DEF Settled, CopiesAreJournalled, Exists
<1>8. QED
  BY <1>5, <1>7

\* The journal plans the tags that the version at work has at the source.
LEMMA PrepareKeepsSettled ==
  ASSUME TypeOK, Settled, NEW v \in Versions, PrepareVersion(v) PROVE Settled'
<1>1. /\ pc = "versions" /\ v \in todo /\ pc' = "copy" /\ current' = v
      /\ journal' = [journal EXCEPT ![v].state = "pending", ![v].tags = @ \cup wanted[v]]
      /\ UNCHANGED <<published, holder, mode, tag, selected, wanted, todo, completed, old>>
  BY DEF PrepareVersion, PlannedFor, Turn, upstream, gitea, choice, cleaning
<1>2. Chosen' = Chosen /\ \A w : WantedOf(w)' = WantedOf(w)
  BY <1>1 DEF Chosen, WantedOf
<1>3. v \in Chosen /\ wanted[v] = WantedOf(v)
  BY <1>1 DEF Settled, RunIsCurrent
<1>4. /\ \A w \in Versions : w # v => journal'[w] = journal[w]
      /\ journal'[v].state = "pending" /\ journal'[v].id = journal[v].id
      /\ journal'[v].tags = journal[v].tags \cup wanted[v]
  BY <1>1 DEF TypeOK, Record
<1>5. journal'[v].tags = WantedOf(v)
  BY <1>3, <1>4 DEF Settled, JournalIsCurrent
<1>6. JournalIsCurrent' /\ OnlyChosenRecorded'
  BY <1>2, <1>3, <1>4, <1>5 DEF Settled, JournalIsCurrent, OnlyChosenRecorded, Recorded
<1>7. RunIsCurrent' /\ NothingIsOld' /\ WorkIsPending'
  BY <1>1, <1>2, <1>4 DEF Settled, RunIsCurrent, NothingIsOld, WorkIsPending, Working
<1>8. \A w \in Versions :
        /\ journal'[w].id = journal[w].id
        /\ journal[w].tags \subseteq journal'[w].tags
        /\ journal[w].state = "pending" => journal'[w].state = "pending"
  BY <1>4
<1>9. IdsAreCurrent'
  BY <1>1, <1>8 DEF Settled, IdsAreCurrent
<1>10. CopiesAreJournalled'
  <2>1. SUFFICES ASSUME NEW n \in Names, Exists(n)
                 PROVE \E w \in Versions :
                         /\ tag[n].digest = w /\ n \in journal'[w].tags
                         /\ journal'[w].id[n] = Planned => journal'[w].state = "pending"
    BY <1>1 DEF CopiesAreJournalled, Exists
  <2>2. PICK w \in Versions : /\ tag[n].digest = w /\ n \in journal[w].tags
                              /\ journal[w].id[n] = Planned => journal[w].state = "pending"
    BY <2>1 DEF Settled, CopiesAreJournalled
  <2>3. /\ journal'[w].id = journal[w].id /\ n \in journal'[w].tags
        /\ journal[w].state = "pending" => journal'[w].state = "pending"
    BY <1>8, <2>2
  <2>4. QED
    BY <2>2, <2>3
<1>11. QED
  BY <1>6, <1>7, <1>9, <1>10 DEF Settled

\* A tag is copied, or a copy fails.
LEMMA CopyKeepsSettled ==
  ASSUME TypeOK, Shape, Settled, CopyFails \/ \E n \in Names : CopyTag(n) PROVE Settled'
<1>1. /\ Working /\ UNCHANGED <<upstream, journal, choice, completed>>
      /\ (UNCHANGED tag \/ \E n \in queue : ~Carries(n, current) /\ Upload(n, current))
  BY DEF CopyFails, CopyTag, Working
<1>2. IdsAreCurrent' /\ CopiesAreJournalled'
  <2>1. CASE UNCHANGED tag
    BY <1>1, <2>1 DEF Settled, IdsAreCurrent, CopiesAreJournalled, Exists
  <2>2. QED
    BY <1>1, <2>1, UploadKeepsSettled
<1>3. Chosen' = Chosen /\ \A w : WantedOf(w)' = WantedOf(w)
  BY <1>1 DEF Chosen, WantedOf, upstream
<1>4. JournalIsCurrent' /\ OnlyChosenRecorded'
  BY <1>1, <1>3 DEF Settled, JournalIsCurrent, OnlyChosenRecorded, Recorded
<1>5. RunIsCurrent' /\ NothingIsOld' /\ WorkIsPending'
  <2>1. CASE CopyFails
    <3>1. NextVersion(current) /\ completed' = completed /\ pc # "idle"
      BY <2>1 DEF CopyFails
    <3>2. QED
      BY <1>1, <3>1, NextKeepsRun
  <2>2. CASE \E n \in Names : CopyTag(n)
    <3>1. pc' = "verify" /\ UNCHANGED <<todo, current, old>>
      BY <2>2 DEF CopyTag, cleaning
    <3>2. QED
      BY <1>1, <1>3, <3>1 DEF Settled, RunIsCurrent, NothingIsOld, WorkIsPending, Working, choice
  <2>3. QED
    BY <2>1, <2>2
<1>6. QED
  BY <1>2, <1>4, <1>5 DEF Settled

\* A completed record has the ids that the tags have in Gitea.
LEMMA CompleteKeepsSettled == ASSUME TypeOK, Shape, Settled, CompleteVersion PROVE Settled'
<1>1. /\ pc = "link" /\ Working /\ NextVersion(current) /\ UNCHANGED <<upstream, gitea, choice>>
      /\ completed' \subseteq completed \cup {current}
  BY DEF CompleteVersion, Working
<1>2. RunIsCurrent' /\ NothingIsOld' /\ WorkIsPending'
  BY <1>1, NextKeepsRun
<1>3. CASE UNCHANGED journal
  BY <1>1, <1>2, <1>3, RestKeepsSettled DEF upstream, gitea
<1>4. CASE journal' # journal
  <2>1. journal' = [journal EXCEPT ![current] = Complete(current)]
    BY <1>4 DEF CompleteVersion
  <2>2. current \in Versions /\ current \in Chosen /\ wanted[current] = WantedOf(current)
    BY <1>1 DEF Shape, Working, Settled, RunIsCurrent
  <2>3. /\ journal'[current].tags = wanted[current] /\ journal'[current].state = "complete"
        /\ \A n \in Names :
             journal'[current].id[n] = IF n \in wanted[current] THEN tag[n].id ELSE NoId
        /\ \A v \in Versions : v # current => journal'[v] = journal[v]
    BY <2>1, <2>2 DEF Complete, TypeOK
  <2>4. Chosen' = Chosen /\ tag' = tag /\ \A w : WantedOf(w)' = WantedOf(w)
    BY <1>1 DEF Chosen, WantedOf, upstream, gitea
  <2>5. JournalIsCurrent' /\ OnlyChosenRecorded'
    BY <2>2, <2>3, <2>4 DEF Settled, JournalIsCurrent, OnlyChosenRecorded, Recorded
  <2>6. IdsAreCurrent'
    BY <2>3, <2>4 DEF Settled, IdsAreCurrent
  <2>7. ASSUME NEW n \in Names, Exists(n)', NEW v \in Versions, tag[n].digest = v,
               n \in journal[v].tags, journal[v].id[n] = Planned => journal[v].state = "pending"
        PROVE  n \in journal'[v].tags /\ (journal'[v].id[n] = Planned => journal'[v].state = "pending")
    <3>1. CASE v = current
      <4>1. n \in WantedOf(v)
        BY <2>7 DEF Settled, JournalIsCurrent
      <4>2. journal'[v].id[n] = tag[n].id
        BY <2>2, <2>3, <3>1, <4>1
      <4>3. QED
        BY <2>2, <2>3, <2>4, <2>7, <3>1, <4>1, <4>2 DEF Exists, Planned, NoId
    <3>2. QED
      BY <2>3, <2>7, <3>1
  <2>8. CopiesAreJournalled'
    BY <2>4, <2>7 DEF Settled, CopiesAreJournalled, Exists
  <2>9. QED
    BY <1>2, <2>5, <2>6, <2>8 DEF Settled
<1>5. QED
  BY <1>3, <1>4

\* In latest mode the completed version is the only one that the journal knows.
LEMMA CleanupFindsNothing ==
  ASSUME TypeOK, Settled, NEW v \in Versions, StartCleanup(v) PROVE Settled'
<1>1. /\ pc = "versions" /\ pc' = "clean" /\ mode = "latest" /\ completed = {v} /\ current' = v
      /\ old' = {w \in Versions \ {v} : Recorded(w)}
      /\ UNCHANGED <<upstream, gitea, journal, choice, todo, completed>>
  BY DEF StartCleanup, CleanupDue
<1>2. \A w \in Chosen : w = v
  BY <1>1 DEF Settled, RunIsCurrent, Chosen
<1>3. old' = {}
  BY <1>1, <1>2 DEF Settled, OnlyChosenRecorded
<1>4. Chosen' = Chosen /\ \A w : WantedOf(w)' = WantedOf(w)
  BY <1>1 DEF Chosen, WantedOf, upstream
<1>5. RunIsCurrent' /\ NothingIsOld' /\ WorkIsPending'
  BY <1>1, <1>3, <1>4 DEF Settled, RunIsCurrent, NothingIsOld, WorkIsPending, Working, choice
<1>6. QED
  BY <1>1, <1>5, RestKeepsSettled DEF upstream, gitea

\* Every step keeps what is settled.
LEMMA SettledLasts == TypeOK /\ Shape /\ SettledInv /\ [Next]_vars /\ TypeOK' => SettledInv'
<1> SUFFICES ASSUME TypeOK, Shape, SettledInv, [Next]_vars, TypeOK' PROVE SettledInv'
  OBVIOUS
<1>1. BudgetShrinks'
  <2>1. \A c \in Chances : budget[c] \in Nat /\ budget'[c] \in Nat /\ Budget[c] \in Nat
    BY BoundsAssumption DEF TypeOK
  <2>2. QED
    BY <2>1, BudgetStep DEF SettledInv, BudgetShrinks
<1>2. ASSUME Undisturbed' PROVE Settled'
  <2>1. Settled /\ ~SourceChanges /\ ~UserEdits
    BY <1>2, NothingDisturbs DEF SettledInv
  <2>2. CASE OpenPackage
    <3>1. /\ pc' = "versions" /\ selected' = Chosen /\ todo' = Chosen
          /\ wanted' = [v \in Versions |-> IF v \in Chosen THEN WantedOf(v) ELSE {}]
          /\ UNCHANGED <<upstream, gitea, journal, completed, current, cleaning>>
      BY <2>2 DEF OpenPackage, Chosen, WantedOf
    <3>2. Chosen' = Chosen /\ (\A w : WantedOf(w)' = WantedOf(w)) /\ Chosen \subseteq Versions
      BY <3>1 DEF Chosen, WantedOf, upstream, TypeOK
    <3>3. RunIsCurrent' /\ NothingIsOld' /\ WorkIsPending'
      BY <2>1, <3>1, <3>2 DEF Settled, RunIsCurrent, NothingIsOld, WorkIsPending, Working
    <3>4. QED
      BY <2>1, <3>1, <3>3, RestKeepsSettled DEF upstream, gitea
  <2>3. CASE LinkRefused \/ FinishRun \/ Abort
    BY <2>1, <2>3, EndKeepsSettled DEF LinkRefused, FinishRun, Abort
  <2>4. CASE VerifyTag \/ LinkPackage
    <3>1. /\ Working /\ Working' /\ UNCHANGED <<upstream, tag, journal, choice, todo, completed, current, old>>
      BY <2>4 DEF VerifyTag, LinkPackage, Working, gitea, copying, cleaning
    <3>2. Chosen' = Chosen /\ \A w : WantedOf(w)' = WantedOf(w)
      BY <3>1 DEF Chosen, WantedOf, upstream
    <3>3. RunIsCurrent' /\ NothingIsOld' /\ WorkIsPending'
      BY <2>1, <3>1, <3>2 DEF Settled, RunIsCurrent, NothingIsOld, WorkIsPending, Working, choice
    <3>4. QED
      BY <2>1, <3>1, <3>3, RestKeepsSettled DEF upstream
  <2>5. CASE CopyFails \/ CompleteVersion \/ \E n \in Names : CopyTag(n)
    BY <2>1, <2>5, CopyKeepsSettled, CompleteKeepsSettled
  <2>6. ASSUME NEW v \in Versions, PrepareVersion(v) \/ SkipVersion(v) \/ StartCleanup(v)
        PROVE  Settled'
    <3>1. CASE SkipVersion(v)
      <4>1. /\ pc = "versions" /\ NextVersion(v)
            /\ UNCHANGED <<upstream, gitea, journal, choice, completed>>
        BY <3>1 DEF SkipVersion, Turn
      <4>2. RunIsCurrent' /\ NothingIsOld' /\ WorkIsPending'
        BY <2>1, <4>1, NextKeepsRun
      <4>3. QED
        BY <2>1, <4>1, <4>2, RestKeepsSettled DEF upstream, gitea
    <3>2. QED
      BY <2>1, <2>6, <3>1, PrepareKeepsSettled, CleanupFindsNothing
  <2>7. /\ ~KeepRecord /\ ~KeepImage /\ ~NoReferences /\ ~EraseImage /\ ~EraseFails
        /\ \A r \in Versions : ~OpenRecord(r)
        /\ \A n \in Names : ~PruneTag(n) /\ ~KeepTag(n)
    BY <2>1 DEF Settled, NothingIsOld, KeepRecord, KeepImage, NoReferences, EraseImage, EraseFails,
                OpenRecord, PruneTag, KeepTag, Pruning
  <2>8. CASE UNCHANGED vars
    <3>1. UNCHANGED <<published, holder, mode, tag, journal, pc, selected, wanted, todo, completed,
                      current, old>>
      BY <2>8 DEF vars, upstream, gitea, choice, copying, cleaning
    <3>2. RunIsCurrent' /\ NothingIsOld' /\ WorkIsPending'
      BY <2>1, <3>1
      DEF Settled, RunIsCurrent, NothingIsOld, WorkIsPending, Working, Chosen, WantedOf
    <3>3. QED
      BY <2>1, <3>1, <3>2, RestKeepsSettled
  <2>9. CASE SkipPackage
    BY <2>8, <2>9 DEF SkipPackage
  <2>10. QED
    BY <2>1, <2>2, <2>3, <2>4, <2>5, <2>6, <2>7, <2>8, <2>9 DEF Next, Step
<1>3. QED
  BY <1>1, <1>2 DEF SettledInv

\* Nothing is journalled, copied or selected before the first run.
LEMMA SettledStarts == Init => SettledInv
<1> SUFFICES ASSUME Init PROVE SettledInv
  OBVIOUS
<1>1. \A v \in Versions : ~Recorded(v) /\ journal[v].tags = {} /\ \A n \in Names : journal[v].id[n] = NoId
  BY DEF Init, NoRecord, Recorded
<1>2. \A n \in Names : ~Exists(n)
  BY DEF Init, NoTags, NoTag, Exists
<1>3. Settled
  BY <1>1, <1>2 DEF Init, Settled, RunIsCurrent, JournalIsCurrent, OnlyChosenRecorded, IdsAreCurrent,
                    CopiesAreJournalled, NothingIsOld, WorkIsPending, Working
<1>4. BudgetShrinks
  BY BoundsAssumption DEF Init, BudgetShrinks
<1>5. QED
  BY <1>3, <1>4 DEF SettledInv

\* While the source and the settings rest and nobody edits in Gitea, every tag that GitHarbor has
\* copied is one that its next run takes for its own, wherever a run fails, is cut short, or loses
\* an answer.
THEOREM NoCopyIsStranded == Spec => []CopiesAreRecognized
<1>1. Init => TypeOK /\ Shape /\ SettledInv
  BY TypesStart, SettledStarts
<1>2. TypeOK /\ Shape /\ SettledInv /\ [Next]_vars => (TypeOK /\ Shape /\ SettledInv)'
  BY TypesLast, SettledLasts
<1>3. SettledInv => CopiesAreRecognized
  <2> SUFFICES ASSUME Settled, NEW n \in Names, Exists(n)
               PROVE tag[n].id \in Owned \/ \E v \in Versions : Interrupted(n, v)
    BY DEF SettledInv, CopiesAreRecognized
  <2>1. PICK v \in Versions : /\ tag[n].digest = v /\ n \in journal[v].tags
                              /\ journal[v].id[n] = Planned => journal[v].state = "pending"
    BY DEF Settled, CopiesAreJournalled
  <2>2. CASE journal[v].id[n] = NoId
    BY <2>1, <2>2 DEF Interrupted, Planned, NoId
  <2>3. CASE journal[v].id[n] # NoId
    BY <2>3 DEF Settled, IdsAreCurrent, Owned
  <2>4. QED
    BY <2>2, <2>3
<1>4. QED
  BY <1>1, <1>2, <1>3, PTL DEF Spec
=============================================================================
