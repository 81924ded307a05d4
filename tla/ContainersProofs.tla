-------------------------- MODULE ContainersProofs --------------------------
(***************************************************************************)
(* Proofs about Containers, for any source, any edits and any faults.      *)
(***************************************************************************)
EXTENDS Containers, TLAPS

\* What the locals of a run are when.
Shape ==
  /\ pc \in {"copy", "verify", "link"} =>
       /\ current \in Versions /\ queue \subseteq wanted[current]
       /\ wanted[current] \subseteq journal[current].tags
  /\ pc = "verify" => at \in queue
  /\ pc = "link" => queue = {}
  /\ pc \in {"prune", "erase"} =>
       record \in Versions /\ queue \cup kept \subseteq journal[record].tags
  /\ \A v \in Versions, n \in Names : journal[v].id[n] # NoId => n \in journal[v].tags

\* An id belongs to one tag, in Gitea and in the journal; a tag without id is empty.
IdsAreUnique ==
  /\ \A n, m \in Names : Exists(n) /\ tag[n].id = tag[m].id => n = m
  /\ \A v \in Versions, n, m \in Names :
       Exists(n) /\ journal[v].id[m] = tag[n].id => n = m
  /\ \A n \in Names : Exists(n) \/ tag[n] = NoTag

\* What the version at work may overwrite is not a user's, and what it has verified stays.
WorkIsOurs == pc \in {"copy", "verify", "link"} =>
  /\ \A n \in queue : listed[n].by # "user" /\ (tag[n].digest = current => tag[n].by = "mirror")
  /\ \A n \in wanted[current] \ queue : Carries(n, current) /\ tag[n].by = "mirror"

\* A tag that the last listing saw does not refer to a digest that is about to be deleted.
NothingListedIsErased == pc = "erase" =>
  \A n \in Names : listed[n] = tag[n] => ~Carries(n, record)

Truth == IdsAreUnique /\ JournalIsTrue /\ WorkIsOurs /\ NothingListedIsErased

-----------------------------------------------------------------------------
(* Types.                                                                  *)

\* The values before any run have their types.
LEMMA InitialValues ==
  /\ NoTag \in PackageVersion /\ NoTags \in [Names -> PackageVersion]
  /\ NoRecord \in Record /\ NothingWanted \in [Versions -> SUBSET Names]
BY DEF NoTag, NoTags, NoRecord, NothingWanted, PackageVersion, Record, NoId, Other, Nobody

\* The initial state has the types, and its empty run has the shape of one.
LEMMA TypesStart == Init => TypeOK /\ Shape
<1> SUFFICES ASSUME Init PROVE TypeOK /\ Shape
  OBVIOUS
<1>1. journal \in [Versions -> Record] /\ \A v \in Versions : journal[v] = NoRecord
  BY InitialValues DEF Init
<1>2. \A v \in Versions, n \in Names : n \notin journal[v].tags /\ journal[v].id[n] = NoId
  BY <1>1 DEF NoRecord
<1>3. TypeOK
  BY <1>1, <1>2, InitialValues, BoundsAssumption DEF Init, TypeOK, None
<1>4. Shape
  BY <1>2 DEF Init, Shape
<1>5. QED
  BY <1>3, <1>4

\* A chance that is spent leaves natural numbers in the budget.
LEMMA BudgetType == ASSUME budget \in [Chances -> Nat], NEW c \in Chances, Spend(c)
                    PROVE budget' \in [Chances -> Nat]
BY DEF Spend

\* A fault leaves natural numbers in the budget.
LEMMA FaultType == ASSUME budget \in [Chances -> Nat], NEW fault, Suffer(fault)
                   PROVE budget' \in [Chances -> Nat] /\ ByMirror
BY DEF Suffer, Spend, Chances, ByMirror

\* An upload puts a package version of GitHarbor into the tag.
LEMMA UploadType ==
  ASSUME TypeOK, NEW n \in Names, NEW v \in Versions, Upload(n, v)
  PROVE /\ tag' \in [Names -> PackageVersion] /\ images' \subseteq Versions \cup {Other}
        /\ \E i \in Ids : Fresh(i)
             /\ tag' = [tag EXCEPT ![n] = [id |-> i, digest |-> v, by |-> "mirror"]]
<1>1. PICK i \in Ids : Fresh(i)
             /\ tag' = [tag EXCEPT ![n] = [id |-> i, digest |-> v, by |-> "mirror"]]
  BY DEF Upload
<1>2. [id |-> i, digest |-> v, by |-> "mirror"] \in PackageVersion
  BY DEF PackageVersion
<1>3. QED
  BY <1>1, <1>2 DEF Upload, TypeOK

\* The end of a run has the types and the shape, if the rest keeps its own.
LEMMA EndOfRun ==
  ASSUME TypeOK, Shape, EndRun, UNCHANGED <<upstream, gitea, journal>>,
         budget' \in [Chances -> Nat]
  PROVE TypeOK' /\ Shape'
<1>1. TypeOK'
  BY InitialValues DEF TypeOK, EndRun, upstream, gitea, None
<1>2. Shape'
  BY DEF Shape, EndRun
<1>3. QED
  BY <1>1, <1>2

\* A run opens with selected versions and the tags they carry at the source.
LEMMA OpenTypes == TypeOK /\ Shape /\ OpenPackage => TypeOK' /\ Shape'
<1> SUFFICES ASSUME TypeOK, Shape, OpenPackage PROVE TypeOK' /\ Shape'
  OBVIOUS
<1> DEFINE chosen == IF mode = "all" THEN published ELSE {v \in published : holder[Latest] = v}
<1>1. chosen \subseteq Versions
  BY DEF TypeOK
<1>2. wanted' \in [Versions -> SUBSET Names]
  BY DEF OpenPackage, Names, Preservation
<1>3. /\ pc' = "versions" /\ selected' = chosen /\ todo' = chosen
      /\ UNCHANGED <<upstream, gitea, journal, completed, current, queue, at, cleaning,
                     listed, warned, budget>>
  BY DEF OpenPackage
<1> HIDE DEF chosen
<1>4. TypeOK'
  BY <1>1, <1>2, <1>3 DEF TypeOK, upstream, gitea, cleaning
<1>5. Shape'
  BY <1>3 DEF Shape
<1>6. QED
  BY <1>4, <1>5

\* The journal plans the tags of the version at work.
LEMMA PrepareTypes ==
  ASSUME TypeOK, Shape, NEW v \in Versions, PrepareVersion(v) PROVE TypeOK' /\ Shape'
<1>1. wanted[v] \subseteq Names /\ journal[v] \in Record
  BY DEF TypeOK
<1>2. /\ journal' = [journal EXCEPT ![v].state = "pending", ![v].tags = @ \cup wanted[v]]
      /\ pc' = "copy" /\ current' = v /\ queue' = wanted[v] /\ listed' = tag
      /\ UNCHANGED <<upstream, gitea, choice, todo, completed, at, cleaning, warned, budget>>
  BY DEF PrepareVersion, PlannedFor
<1>3. journal \in [Versions -> Record]
  BY DEF TypeOK
<1>4. /\ DOMAIN journal' = Versions
      /\ \A w \in Versions : w # v => journal'[w] = journal[w]
      /\ journal'[v] = [state |-> "pending", tags |-> journal[v].tags \cup wanted[v],
                        id |-> journal[v].id]
  BY <1>1, <1>2, <1>3 DEF Record
<1>5. journal'[v] \in Record
  BY <1>1, <1>4 DEF Record
<1>6. journal' \in [Versions -> Record]
  BY <1>2, <1>3, <1>4, <1>5
<1>7. TypeOK'
  <2>1. \A w \in Versions, n \in Names :
          n \in journal'[w].tags /\ journal'[w].state = "complete" => journal'[w].id[n] # NoId
    BY <1>4 DEF TypeOK
  <2>2. QED
    BY <1>1, <1>2, <1>6, <2>1 DEF TypeOK, upstream, gitea, choice, cleaning
<1>8. Shape'
  BY <1>2, <1>4 DEF Shape, choice
<1>9. QED
  BY <1>7, <1>8

\* The way to the next version, with any record of what became of this one.
LEMMA NextVersionTypes ==
  ASSUME TypeOK, Shape, NEW v, NextVersion(v), UNCHANGED <<upstream, choice, cleaning>>,
         tag' \in [Names -> PackageVersion], images' \subseteq Versions \cup {Other},
         link' = link, warned' \in BOOLEAN, completed' \subseteq Versions,
         journal' = journal, budget' \in [Chances -> Nat]
  PROVE TypeOK' /\ Shape'
<1>1. TypeOK'
  BY InitialValues DEF TypeOK, NextVersion, upstream, choice, cleaning, None
<1>2. Shape'
  BY DEF Shape, NextVersion
<1>3. QED
  BY <1>1, <1>2

\* A version is skipped.
LEMMA SkipTypes ==
  ASSUME TypeOK, Shape, NEW v \in Versions, SkipVersion(v) PROVE TypeOK' /\ Shape'
<1>1. budget' \in [Chances -> Nat]
  BY FaultType DEF SkipVersion, TypeOK
<1>2. QED
  BY <1>1, NextVersionTypes DEF SkipVersion, SkipIsWarned, TypeOK, gitea

\* A tag is copied, or is there already.
LEMMA CopyTypes ==
  ASSUME TypeOK, Shape, NEW n \in Names, CopyTag(n) PROVE TypeOK' /\ Shape'
<1>1. /\ pc = "copy" /\ n \in queue /\ current \in Versions /\ pc' = "verify" /\ at' = n
      /\ UNCHANGED <<upstream, link, journal, choice, todo, completed, current, queue, cleaning,
                     listed, warned, budget>>
  BY DEF CopyTag, Shape
<1>2. tag' \in [Names -> PackageVersion] /\ images' \subseteq Versions \cup {Other}
  BY <1>1, UploadType DEF CopyTag, TypeOK
<1>3. TypeOK'
  BY <1>1, <1>2 DEF TypeOK, upstream, choice, cleaning
<1>4. Shape'
  BY <1>1 DEF Shape, choice
<1>5. QED
  BY <1>3, <1>4

\* The copied tag carries the digest.
LEMMA VerifyTypes == TypeOK /\ Shape /\ VerifyTag => TypeOK' /\ Shape'
<1> SUFFICES ASSUME TypeOK, Shape, VerifyTag PROVE TypeOK' /\ Shape'
  OBVIOUS
<1>1. TypeOK'
  BY DEF TypeOK, VerifyTag, upstream, gitea, choice, cleaning
<1>2. Shape'
  BY DEF Shape, VerifyTag, choice
<1>3. QED
  BY <1>1, <1>2

\* A copy fails.
LEMMA CopyFailsTypes == TypeOK /\ Shape /\ CopyFails => TypeOK' /\ Shape'
<1> SUFFICES ASSUME TypeOK, Shape, CopyFails PROVE TypeOK' /\ Shape'
  OBVIOUS
<1>1. budget' \in [Chances -> Nat]
  BY FaultType DEF CopyFails, TypeOK
<1>2. tag' \in [Names -> PackageVersion] /\ images' \subseteq Versions \cup {Other}
  <2>1. CASE UNCHANGED <<tag, images>>
    BY <2>1 DEF TypeOK
  <2>2. CASE pc = "copy" /\ \E n \in queue : Upload(n, current)
    BY <2>2, UploadType DEF Shape, TypeOK
  <2>3. QED
    BY <2>1, <2>2 DEF CopyFails
<1>3. QED
  BY <1>1, <1>2, NextVersionTypes DEF CopyFails, TypeOK

\* A version is completed, or found incomplete.
LEMMA CompleteTypes == TypeOK /\ Shape /\ CompleteVersion => TypeOK' /\ Shape'
<1> SUFFICES ASSUME TypeOK, Shape, CompleteVersion PROVE TypeOK' /\ Shape'
  OBVIOUS
<1>1. /\ NextVersion(current) /\ UNCHANGED <<upstream, gitea, choice, cleaning, budget>>
      /\ current \in Versions /\ wanted[current] \subseteq Names
  BY DEF CompleteVersion, Shape, TypeOK
<1>2. CASE UNCHANGED <<journal, completed>> /\ warned' = TRUE
  BY <1>1, <1>2, NextVersionTypes DEF TypeOK, gitea
<1>3. CASE /\ \A n \in wanted[current] : Exists(n)
           /\ journal' = [journal EXCEPT ![current] = Complete(current)]
           /\ completed' = completed \cup {current} /\ warned' = warned
  <2>1. Complete(current) \in Record
    BY <1>1 DEF Complete, Record, TypeOK, PackageVersion
  <2>2. journal' \in [Versions -> Record]
    BY <1>3, <2>1 DEF TypeOK
  <2>3. \A w \in Versions : journal'[w] = IF w = current THEN Complete(current) ELSE journal[w]
    BY <1>3 DEF TypeOK
  <2>4. \A w \in Versions, n \in Names :
          /\ n \in journal'[w].tags /\ journal'[w].state = "complete" => journal'[w].id[n] # NoId
          /\ journal'[w].id[n] # NoId => n \in journal'[w].tags
    BY <1>1, <1>3, <2>3 DEF TypeOK, Shape, Complete, Exists
  <2>5. TypeOK'
    BY <1>1, <1>3, <2>2, <2>4, InitialValues
       DEF TypeOK, NextVersion, upstream, gitea, choice, cleaning, None
  <2>6. Shape'
    BY <1>1, <2>4 DEF Shape, NextVersion
  <2>7. QED
    BY <2>5, <2>6
<1>4. QED
  BY <1>2, <1>3 DEF CompleteVersion

\* The tags of an old record are pruned, or kept.
LEMMA PruneTypes ==
  ASSUME TypeOK, Shape, NEW n \in Names, PruneTag(n) \/ KeepTag(n) PROVE TypeOK' /\ Shape'
<1>1. Pruning(n) /\ queue' \subseteq queue
  BY DEF PruneTag, KeepTag, Pruning
<1>2. budget' \in [Chances -> Nat]
  BY FaultType DEF PruneTag, KeepTag, TypeOK
<1>3. tag' \in [Names -> PackageVersion]
  BY InitialValues DEF PruneTag, KeepTag, TypeOK
<1>4. kept' \subseteq kept \cup {n} /\ warned' \in BOOLEAN
  BY DEF PruneTag, KeepTag, TypeOK
<1>5. TypeOK'
  BY <1>1, <1>2, <1>3, <1>4 DEF TypeOK, Pruning, upstream, choice, copying
<1>6. Shape'
  BY <1>1, <1>4 DEF Shape, Pruning, choice, copying
<1>7. QED
  BY <1>5, <1>6

\* The way to the next record, whatever became of this one.
LEMMA NextRecordTypes ==
  ASSUME TypeOK, Shape, NextRecord, UNCHANGED <<upstream, link, queue>>,
         tag' \in [Names -> PackageVersion], images' \subseteq Versions \cup {Other},
         warned' \in BOOLEAN, budget' \in [Chances -> Nat],
         NEW r \in Record,
         \A n \in Names : r.state = "complete" /\ n \in r.tags => r.id[n] # NoId,
         \A n \in Names : r.id[n] # NoId => n \in r.tags,
         journal' = journal \/ journal' = [journal EXCEPT ![record] = r]
  PROVE TypeOK' /\ Shape'
<1>1. journal' \in [Versions -> Record]
  BY DEF TypeOK
<1>2. \A v \in Versions : journal'[v] \in {journal[v], r}
  BY DEF TypeOK
<1>3. TypeOK'
  BY <1>1, <1>2, InitialValues DEF TypeOK, NextRecord, upstream, choice, copying, None
<1>4. Shape'
  BY <1>2 DEF Shape, NextRecord
<1>5. QED
  BY <1>3, <1>4

\* The record keeps the tags that could not be removed.
LEMMA KeepRecordTypes == TypeOK /\ Shape /\ KeepRecord => TypeOK' /\ Shape'
<1> SUFFICES ASSUME TypeOK, Shape, KeepRecord PROVE TypeOK' /\ Shape'
  OBVIOUS
<1> DEFINE r == [state |-> journal[record].state, tags |-> kept,
                 id |-> [n \in Names |-> IF n \in kept THEN journal[record].id[n] ELSE NoId]]
<1>1. record \in Versions /\ kept \subseteq journal[record].tags /\ journal[record] \in Record
  BY DEF KeepRecord, Shape, TypeOK
<1>2. r \in Record
  BY <1>1 DEF Record, TypeOK
<1>3. journal' = [journal EXCEPT ![record] = r]
  BY <1>1 DEF KeepRecord, Record
<1>4. /\ \A n \in Names : r.state = "complete" /\ n \in r.tags => r.id[n] # NoId
      /\ \A n \in Names : r.id[n] # NoId => n \in r.tags
  BY <1>1 DEF TypeOK
<1>5. /\ NextRecord /\ UNCHANGED <<upstream, link, queue, tag, images, warned, budget>>
  BY DEF KeepRecord, gitea
<1> HIDE DEF r
<1>6. QED
  BY <1>2, <1>3, <1>4, <1>5, NextRecordTypes DEF TypeOK

\* A record and its image are erased.
LEMMA EraseTypes == TypeOK /\ Shape /\ (EraseImage \/ EraseFails \/ KeepImage) => TypeOK' /\ Shape'
<1> SUFFICES ASSUME TypeOK, Shape, EraseImage \/ EraseFails \/ KeepImage PROVE TypeOK' /\ Shape'
  OBVIOUS
<1>1. budget' \in [Chances -> Nat] /\ warned' \in BOOLEAN
  BY FaultType DEF EraseImage, EraseFails, KeepImage, TypeOK
<1>2. tag' \in [Names -> PackageVersion] /\ images' \subseteq Versions \cup {Other}
  BY InitialValues DEF EraseImage, EraseFails, KeepImage, Erase, TypeOK, gitea
<1>3. NextRecord /\ UNCHANGED <<upstream, link, queue>>
  BY DEF EraseImage, EraseFails, KeepImage, gitea
<1>4. journal' = journal \/ journal' = [journal EXCEPT ![record] = NoRecord]
  BY DEF EraseImage, EraseFails, KeepImage
<1>5. \A n \in Names : NoRecord.id[n] = NoId /\ n \notin NoRecord.tags
  BY DEF NoRecord
<1>6. QED
  BY <1>1, <1>2, <1>3, <1>4, <1>5, InitialValues, NextRecordTypes

\* The edits of users.
LEMMA EditTypes == TypeOK /\ Shape /\ UserEdits => TypeOK' /\ Shape'
<1> SUFFICES ASSUME TypeOK, Shape, UserEdits PROVE TypeOK' /\ Shape'
  OBVIOUS
<1>1. budget' \in [Chances -> Nat]
  BY BudgetType DEF UserEdits, TypeOK, Chances
<1>2. UNCHANGED <<upstream, journal, pc, choice, copying, queue, cleaning, listed, warned>>
  BY DEF UserEdits
<1>3. /\ tag' \in [Names -> PackageVersion] /\ images' \subseteq Versions \cup {Other}
      /\ link' \in {"none", "ours", "other"}
  <2>1. CASE \E n \in UserNames, d \in Versions \cup {Other}, i \in Ids :
               /\ tag' = [tag EXCEPT ![n] =
                    [id |-> i, digest |-> d, by |-> IF Expects(n, d) THEN "mirror" ELSE "user"]]
               /\ images' = images \cup {d} /\ link' = link
    <3>1. PICK n \in UserNames, d \in Versions \cup {Other}, i \in Ids :
               /\ tag' = [tag EXCEPT ![n] =
                    [id |-> i, digest |-> d, by |-> IF Expects(n, d) THEN "mirror" ELSE "user"]]
               /\ images' = images \cup {d} /\ link' = link
      BY <2>1
    <3> DEFINE who == IF Expects(n, d) THEN "mirror" ELSE "user"
    <3>2. who \in {"mirror", "user"}
      OBVIOUS
    <3> HIDE DEF who
    <3>3. [id |-> i, digest |-> d, by |-> who] \in PackageVersion
      BY <3>2 DEF PackageVersion
    <3>4. tag' = [tag EXCEPT ![n] = [id |-> i, digest |-> d, by |-> who]]
      BY <3>1 DEF who
    <3>5. QED
      BY <3>1, <3>3, <3>4 DEF TypeOK
  <2>2. CASE \E n \in UserNames : tag' = [tag EXCEPT ![n] = NoTag] /\ UNCHANGED <<images, link>>
    BY <2>2, InitialValues DEF TypeOK
  <2>3. CASE link' = "other" /\ UNCHANGED <<tag, images>>
    BY <2>3 DEF TypeOK
  <2>4. QED
    BY <2>1, <2>2, <2>3 DEF UserEdits
<1>4. TypeOK'
  BY <1>1, <1>2, <1>3 DEF TypeOK, upstream, choice, copying, cleaning
<1>5. Shape'
  BY <1>2 DEF Shape, choice, copying, cleaning
<1>6. QED
  BY <1>4, <1>5

\* The source and the settings change.
LEMMA ChangeTypes == TypeOK /\ Shape /\ SourceChanges => TypeOK' /\ Shape'
<1> SUFFICES ASSUME TypeOK, Shape, SourceChanges PROVE TypeOK' /\ Shape'
  OBVIOUS
<1>1. budget' \in [Chances -> Nat]
  BY BudgetType DEF SourceChanges, TypeOK, Chances
<1>2. UNCHANGED <<gitea, journal, pc, choice, copying, queue, cleaning, listed, warned>>
  BY DEF SourceChanges
<1>3. published' \subseteq Versions /\ holder' \in [Tags -> Versions \cup {None}] /\ mode' \in Modes
  BY DEF SourceChanges, TypeOK
<1>4. TypeOK'
  BY <1>1, <1>2, <1>3 DEF TypeOK, gitea, choice, copying, cleaning
<1>5. Shape'
  BY <1>2 DEF Shape, choice, copying, cleaning
<1>6. QED
  BY <1>4, <1>5

\* Every action keeps the types and the shape.
LEMMA TypesLast == TypeOK /\ Shape /\ [Next]_vars => TypeOK' /\ Shape'
<1> SUFFICES ASSUME TypeOK, Shape, [Next]_vars PROVE TypeOK' /\ Shape'
  OBVIOUS
<1>1. CASE UNCHANGED vars
  <2>1. TypeOK'
    BY <1>1 DEF vars, TypeOK, upstream, gitea, choice, copying, cleaning
  <2>2. Shape'
    BY <1>1 DEF vars, Shape, choice, copying, cleaning
  <2>3. QED
    BY <2>1, <2>2
<1>2. CASE OpenPackage
  BY <1>2, OpenTypes
<1>3. CASE VerifyTag \/ CopyFails \/ CompleteVersion
  BY <1>3, VerifyTypes, CopyFailsTypes, CompleteTypes
<1>4. CASE LinkPackage
  <2>1. TypeOK'
    BY <1>4 DEF LinkPackage, TypeOK, upstream, choice, copying, cleaning
  <2>2. Shape'
    BY <1>4 DEF LinkPackage, Shape, choice, copying, cleaning
  <2>3. QED
    BY <2>1, <2>2
<1>5. CASE LinkRefused \/ FinishRun \/ Abort
  <2>1. budget' \in [Chances -> Nat]
    BY <1>5, FaultType DEF LinkRefused, FinishRun, Abort, TypeOK
  <2>2. QED
    BY <1>5, <2>1, EndOfRun DEF LinkRefused, FinishRun, Abort
<1>6. CASE KeepRecord \/ KeepImage \/ EraseImage \/ EraseFails
  BY <1>6, KeepRecordTypes, EraseTypes
<1>7. CASE NoReferences
  <2>1. TypeOK'
    BY <1>7 DEF NoReferences, TypeOK, upstream, gitea, choice, copying, cleaning
  <2>2. Shape'
    BY <1>7 DEF NoReferences, Shape, choice, copying, cleaning
  <2>3. QED
    BY <2>1, <2>2
<1>8. ASSUME NEW v \in Versions, PrepareVersion(v) \/ SkipVersion(v) PROVE TypeOK' /\ Shape'
  BY <1>8, PrepareTypes, SkipTypes
<1>9. ASSUME NEW v \in Versions, StartCleanup(v) \/ OpenRecord(v) PROVE TypeOK' /\ Shape'
  <2>1. TypeOK'
    BY <1>9 DEF StartCleanup, OpenRecord, TypeOK, Record, upstream, gitea, choice, copying
  <2>2. Shape'
    BY <1>9 DEF StartCleanup, OpenRecord, Shape, TypeOK, choice, copying
  <2>3. QED
    BY <2>1, <2>2
<1>10. ASSUME NEW n \in Names, CopyTag(n) \/ PruneTag(n) \/ KeepTag(n) PROVE TypeOK' /\ Shape'
  BY <1>10, CopyTypes, PruneTypes
<1>11. CASE SourceChanges \/ UserEdits
  BY <1>11, ChangeTypes, EditTypes
<1>12. CASE SkipPackage
  BY <1>1, <1>12 DEF SkipPackage
<1>13. QED
  BY <1>1, <1>2, <1>3, <1>4, <1>5, <1>6, <1>7, <1>8, <1>9, <1>10, <1>11, <1>12 DEF Next, Step

\* Every variable has its type in every run, and a complete record has the id of each tag.
THEOREM TypeCorrect == Spec => []TypeOK
<1>1. Init => TypeOK /\ Shape
  BY TypesStart
<1>2. TypeOK /\ Shape /\ [Next]_vars => (TypeOK /\ Shape)'
  BY TypesLast
<1>3. Spec => [](TypeOK /\ Shape)
  BY <1>1, <1>2, PTL DEF Spec
<1>4. QED
  BY <1>3, PTL

-----------------------------------------------------------------------------
(* The journal tells the truth, and users keep their tags.                 *)

\* Before the first run nothing is recorded and no tag exists.
LEMMA TruthStart == Init => Truth
<1> SUFFICES ASSUME Init PROVE Truth
  OBVIOUS
<1>1. \A n \in Names : tag[n] = NoTag
  BY DEF Init, NoTags
<1>2. \A v \in Versions : journal[v] = NoRecord
  BY DEF Init
<1>3. IdsAreUnique
  BY <1>1 DEF IdsAreUnique, Exists, NoTag
<1>4. JournalIsTrue
  BY <1>2 DEF JournalIsTrue, NoRecord
<1>5. WorkIsOurs /\ NothingListedIsErased
  BY DEF Init, WorkIsOurs, NothingListedIsErased
<1>6. QED
  BY <1>3, <1>4, <1>5 DEF Truth

\* A tag that may be overwritten for v is not a user's: it is empty, or the journal names it.
LEMMA FreeIsOurs ==
  ASSUME TypeOK, Shape, Truth, NEW v \in Versions, NEW n \in Names, Free(n, v)
  PROVE tag[n].by # "user" /\ (tag[n].digest = v => tag[n].by = "mirror")
<1>1. CASE ~Exists(n)
  <2>1. tag[n] = NoTag
    BY <1>1 DEF Truth, IdsAreUnique
  <2>2. v # Other
    BY ContainersAssumption DEF Other
  <2>3. QED
    BY <2>1, <2>2 DEF NoTag, Nobody
<1>2. CASE Exists(n) /\ tag[n].id \in Owned
  <2>1. PICK w \in Versions, m \in Names : journal[w].id[m] = tag[n].id
    BY <1>2 DEF Owned
  <2>2. m = n /\ journal[w].id[n] # NoId /\ n \in journal[w].tags
    BY <1>2, <2>1 DEF Truth, IdsAreUnique, Exists, Shape
  <2>3. QED
    BY <2>1, <2>2 DEF Truth, JournalIsTrue
<1>3. CASE Interrupted(n, v)
  BY <1>3 DEF Truth, JournalIsTrue, Interrupted
<1>4. QED
  BY <1>1, <1>2, <1>3 DEF Free

\* Taking package versions away keeps what is true of the ids and of the journal.
LEMMA RemovalIsHarmless ==
  ASSUME TypeOK, IdsAreUnique, JournalIsTrue,
         \A n \in Names : tag'[n] \in {tag[n], NoTag}, UNCHANGED journal
  PROVE IdsAreUnique' /\ JournalIsTrue'
<1>1. NoTag.id = NoId /\ NoTag.digest = Other /\ \A v \in Versions : v # Other
  BY ContainersAssumption DEF NoTag, Other
<1>2. IdsAreUnique'
  BY <1>1 DEF IdsAreUnique, Exists
<1>3. \A v \in Versions : journal[v].tags \subseteq Names
  BY DEF TypeOK, Record
<1>4. JournalIsTrue'
  BY <1>1, <1>3 DEF JournalIsTrue, Planned, NoId
<1>5. QED
  BY <1>2, <1>4

\* A package version with an id that nobody remembers enters a tag: what is true of the journal
\* stays true unless it is a user's and what the journal plans.
LEMMA FreshIsHarmless ==
  ASSUME TypeOK, IdsAreUnique, JournalIsTrue, NEW n \in Names, NEW i \in Ids, Fresh(i),
         NEW d, NEW who,
         tag' = [tag EXCEPT ![n] = [id |-> i, digest |-> d, by |-> who]], UNCHANGED journal,
         \A v \in Versions : n \in journal[v].tags /\ journal[v].id[n] = Planned /\ d = v
                               => who = "mirror"
  PROVE IdsAreUnique' /\ JournalIsTrue'
<1>1. i # NoId
  BY BoundsAssumption DEF Ids, NoId
<1>2. /\ tag'[n] = [id |-> i, digest |-> d, by |-> who]
      /\ \A m \in Names : m # n => tag'[m] = tag[m]
  BY DEF TypeOK
<1>3. i \notin Owned /\ \A m \in Names : tag[m].id # i
  BY DEF Fresh
<1>4. \A v \in Versions, m \in Names : journal[v].id[m] # i
  BY <1>1, <1>3 DEF Owned
<1>5. IdsAreUnique'
  BY <1>1, <1>2, <1>3, <1>4 DEF IdsAreUnique, Exists
<1>6. \A v \in Versions : journal[v].tags \subseteq Names
  BY DEF TypeOK, Record
<1>7. JournalIsTrue'
  BY <1>1, <1>2, <1>4, <1>6 DEF JournalIsTrue
<1>8. QED
  BY <1>5, <1>7

\* The steps that change neither the registry nor the journal.
LEMMA TruthOfReads ==
  ASSUME TypeOK, Shape, Truth, UNCHANGED <<tag, journal>>,
         \/ pc' \notin {"copy", "verify", "link", "erase"}
         \/ VerifyTag \/ LinkPackage \/ NoReferences
         \/ UNCHANGED <<pc, current, queue, wanted, listed, record>>
  PROVE Truth'
<1>1. IdsAreUnique' /\ JournalIsTrue'
  BY DEF Truth, IdsAreUnique, JournalIsTrue, Exists
<1>2. CASE pc' \notin {"copy", "verify", "link", "erase"}
  BY <1>1, <1>2 DEF Truth, WorkIsOurs, NothingListedIsErased
<1>3. CASE VerifyTag
  <2>1. /\ pc' \in {"copy", "link"} /\ queue' = queue \ {at} /\ Carries(at, current)
        /\ UNCHANGED <<current, wanted, listed>>
    BY <1>3 DEF VerifyTag, choice
  <2>2. at \in queue /\ at \in Names /\ tag[at].by = "mirror"
    BY <1>3 DEF VerifyTag, Shape, TypeOK, Truth, WorkIsOurs, Carries
  <2>3. WorkIsOurs'
    BY <1>3, <2>1, <2>2 DEF VerifyTag, Truth, WorkIsOurs, Carries, Exists
  <2>4. QED
    BY <1>1, <2>1, <2>3 DEF Truth, NothingListedIsErased
<1>4. CASE LinkPackage
  BY <1>1, <1>4 DEF Truth, WorkIsOurs, NothingListedIsErased, LinkPackage, choice, copying, Carries,
                    Exists
<1>5. CASE NoReferences
  <2>1. \A n \in Names : ~Carries(n, record)
    BY <1>5 DEF NoReferences, Referenced
  <2>2. QED
    BY <1>1, <1>5, <2>1 DEF NoReferences, Truth, WorkIsOurs, NothingListedIsErased, Carries, Exists,
                            cleaning
<1>6. CASE UNCHANGED <<pc, current, queue, wanted, listed, record>>
  BY <1>1, <1>6 DEF Truth, WorkIsOurs, NothingListedIsErased, Carries, Exists
<1>7. QED
  BY <1>2, <1>3, <1>4, <1>5, <1>6

\* The tags of v are planned: what they carry is GitHarbor's, because all of them are free.
LEMMA TruthOfPrepare ==
  ASSUME TypeOK, Shape, Truth, NEW v \in Versions, PrepareVersion(v) PROVE Truth'
<1>1. \A n \in wanted[v] : n \in Names
                           /\ tag[n].by # "user" /\ (tag[n].digest = v => tag[n].by = "mirror")
  BY FreeIsOurs DEF PrepareVersion, TypeOK
<1>2. /\ pc' = "copy" /\ current' = v /\ queue' = wanted[v] /\ listed' = tag
      /\ UNCHANGED <<tag, wanted>>
  BY DEF PrepareVersion, gitea, choice
<1>3. /\ \A w \in Versions : journal'[w].id = journal[w].id
      /\ \A w \in Versions : journal'[w].tags \subseteq
           journal[w].tags \cup (IF w = v THEN wanted[v] ELSE {})
      /\ \A w \in Versions : journal[w].tags \subseteq Names
  BY DEF PrepareVersion, PlannedFor, TypeOK, Record
<1>4. IdsAreUnique'
  BY <1>2, <1>3 DEF Truth, IdsAreUnique, Exists
<1>5. ASSUME NEW w \in Versions, NEW n \in journal'[w].tags, n \notin journal[w].tags
      PROVE journal[w].id[n] = NoId /\ (tag[n].digest = w => tag[n].by = "mirror")
  BY <1>1, <1>3, <1>5 DEF Shape
<1>6. JournalIsTrue'
  BY <1>2, <1>3, <1>5 DEF Truth, JournalIsTrue
<1>7. WorkIsOurs' /\ NothingListedIsErased'
  BY <1>1, <1>2 DEF WorkIsOurs, NothingListedIsErased
<1>8. QED
  BY <1>4, <1>6, <1>7 DEF Truth

\* A copy gives the tag a new id.
LEMMA TruthOfUpload ==
  ASSUME TypeOK, Shape, Truth, NEW n \in queue, Upload(n, current), current \in Versions,
         UNCHANGED journal
  PROVE /\ IdsAreUnique' /\ JournalIsTrue'
        /\ tag'[n].by = "mirror" /\ \A m \in Names : m # n => tag'[m] = tag[m]
<1>1. PICK i \in Ids : Fresh(i)
             /\ tag' = [tag EXCEPT ![n] = [id |-> i, digest |-> current, by |-> "mirror"]]
  BY DEF Upload
<1>2. n \in Names
  BY DEF TypeOK
<1>3. IdsAreUnique' /\ JournalIsTrue'
  BY <1>1, <1>2, FreshIsHarmless DEF Truth
<1>4. QED
  BY <1>1, <1>2, <1>3 DEF TypeOK

\* A tag is copied, or a copy fails.
LEMMA TruthOfCopy ==
  ASSUME TypeOK, Shape, Truth, CopyFails \/ \E n \in Names : CopyTag(n) PROVE Truth'
<1>1. CASE CopyFails
  <2>1. pc' = "versions" /\ UNCHANGED journal
    BY <1>1 DEF CopyFails, NextVersion
  <2>2. CASE tag' = tag
    BY <2>1, <2>2, TruthOfReads
  <2>3. CASE tag' # tag
    <3>1. PICK n \in queue : Upload(n, current)
      BY <1>1, <2>3 DEF CopyFails
    <3>2. current \in Versions
      BY <1>1, <2>3 DEF CopyFails, Shape
    <3>3. IdsAreUnique' /\ JournalIsTrue'
      BY <2>1, <3>1, <3>2, TruthOfUpload
    <3>4. QED
      BY <2>1, <3>3 DEF Truth, WorkIsOurs, NothingListedIsErased
  <2>4. QED
    BY <2>2, <2>3
<1>2. ASSUME NEW n \in Names, CopyTag(n) PROVE Truth'
  <2>1. /\ pc = "copy" /\ pc' = "verify" /\ n \in queue /\ current \in Versions
        /\ queue \subseteq Names /\ wanted[current] \subseteq Names
        /\ UNCHANGED <<journal, current, queue, wanted, listed>>
    BY <1>2 DEF CopyTag, Shape, TypeOK, choice
  <2>2. /\ IdsAreUnique' /\ JournalIsTrue'
        /\ tag'[n] = tag[n] \/ tag'[n].by = "mirror"
        /\ \A m \in Names : m # n => tag'[m] = tag[m]
    <3>1. CASE Upload(n, current)
      BY <2>1, <3>1, TruthOfUpload
    <3>2. CASE UNCHANGED tag
      BY <2>1, <3>2 DEF Truth, IdsAreUnique, JournalIsTrue, Exists
    <3>3. QED
      BY <1>2, <3>1, <3>2 DEF CopyTag
  <2>3. WorkIsOurs'
    BY <2>1, <2>2 DEF Truth, WorkIsOurs, Carries, Exists
  <2>4. QED
    BY <2>1, <2>2, <2>3 DEF Truth, NothingListedIsErased
<1>3. QED
  BY <1>1, <1>2

\* The ids of verified tags enter the journal.
LEMMA TruthOfComplete == ASSUME TypeOK, Shape, Truth, CompleteVersion PROVE Truth'
<1>1. pc = "link" /\ pc' = "versions" /\ UNCHANGED tag
  BY DEF CompleteVersion, NextVersion, gitea
<1>2. CASE UNCHANGED journal
  BY <1>1, <1>2, TruthOfReads
<1>3. CASE journal' # journal
  <2>1. /\ journal' = [journal EXCEPT ![current] = Complete(current)]
        /\ \A n \in wanted[current] : Exists(n)
    BY <1>3 DEF CompleteVersion
  <2>2. /\ current \in Versions /\ wanted[current] \subseteq Names
        /\ \A n \in wanted[current] : Carries(n, current) /\ tag[n].by = "mirror"
    BY <1>1 DEF Truth, WorkIsOurs, Shape, TypeOK
  <2>3. /\ journal'[current].tags = wanted[current]
        /\ \A n \in Names :
             journal'[current].id[n] = IF n \in wanted[current] THEN tag[n].id ELSE NoId
        /\ \A v \in Versions : v # current => journal'[v] = journal[v]
    BY <2>1, <2>2 DEF Complete, TypeOK
  <2>4. IdsAreUnique'
    BY <1>1, <2>3 DEF Truth, IdsAreUnique, Exists
  <2>5. JournalIsTrue'
    BY <1>1, <2>2, <2>3 DEF Truth, JournalIsTrue, Carries
  <2>6. QED
    BY <1>1, <2>4, <2>5 DEF Truth, WorkIsOurs, NothingListedIsErased
<1>4. QED
  BY <1>2, <1>3

\* A pruned tag is gone or stays.
LEMMA TruthOfPrune ==
  ASSUME TypeOK, Shape, Truth, NEW n \in Names, PruneTag(n) \/ KeepTag(n) PROVE Truth'
<1>1. pc = "prune" /\ pc' = pc /\ UNCHANGED journal
  BY DEF PruneTag, KeepTag, Pruning
<1>2. \A m \in Names : tag'[m] \in {tag[m], NoTag}
  BY DEF PruneTag, KeepTag, TypeOK
<1>3. IdsAreUnique' /\ JournalIsTrue'
  BY <1>1, <1>2, RemovalIsHarmless DEF Truth
<1>4. QED
  BY <1>1, <1>3 DEF Truth, WorkIsOurs, NothingListedIsErased

\* A record shrinks to what could not be removed.
LEMMA TruthOfKeepRecord == ASSUME TypeOK, Shape, Truth, KeepRecord PROVE Truth'
<1>1. pc' = "clean" /\ UNCHANGED tag
  BY DEF KeepRecord, NextRecord, gitea
<1>2. record \in Versions /\ kept \subseteq journal[record].tags /\ kept \subseteq Names
  BY DEF KeepRecord, Shape, TypeOK
<1>3. /\ journal'[record].tags = kept
      /\ \A n \in Names : journal'[record].id[n] = IF n \in kept THEN journal[record].id[n] ELSE NoId
      /\ \A v \in Versions : v # record => journal'[v] = journal[v]
  BY <1>2 DEF KeepRecord, TypeOK
<1>4. IdsAreUnique'
  BY <1>1, <1>3 DEF Truth, IdsAreUnique, Exists
<1>5. JournalIsTrue'
  BY <1>1, <1>2, <1>3 DEF Truth, JournalIsTrue
<1>6. QED
  BY <1>1, <1>4, <1>5 DEF Truth, WorkIsOurs, NothingListedIsErased

\* An image is deleted with what carries it, and its record is.
LEMMA TruthOfErase == ASSUME TypeOK, Shape, Truth, EraseImage \/ EraseFails PROVE Truth'
<1>1. pc = "erase" /\ pc' = "clean" /\ record \in Versions
  BY DEF EraseImage, EraseFails, NextRecord, Shape
<1>2. \A n \in Names : tag'[n] \in {tag[n], NoTag}
  BY DEF EraseImage, EraseFails, Erase
<1>3. /\ \A v \in Versions : journal'[v] = journal[v] \/ journal'[v] = NoRecord
      /\ NoRecord.tags = {} /\ \A n \in Names : NoRecord.id[n] = NoId
      /\ \A v \in Versions : journal[v].tags \subseteq Names
  BY <1>1 DEF EraseImage, EraseFails, TypeOK, Record, NoRecord
<1>4. NoTag.id = NoId /\ NoTag.digest = Other /\ \A v \in Versions : v # Other
  BY ContainersAssumption DEF NoTag, Other
<1>5. IdsAreUnique'
  BY <1>2, <1>3, <1>4 DEF Truth, IdsAreUnique, Exists
<1>6. ASSUME NEW v \in Versions, NEW n \in journal'[v].tags
      PROVE journal'[v] = journal[v] /\ n \in Names
  BY <1>3
<1>7. JournalIsTrue'
  <2>1. SUFFICES ASSUME NEW v \in Versions, NEW n \in journal'[v].tags
                 PROVE /\ journal'[v].id[n] # NoId /\ tag'[n].id = journal'[v].id[n]
                            => tag'[n].digest = v /\ tag'[n].by = "mirror"
                       /\ journal'[v].id[n] = Planned /\ tag'[n].digest = v => tag'[n].by = "mirror"
    BY DEF JournalIsTrue
  <2>2. journal'[v] = journal[v] /\ n \in journal[v].tags /\ tag'[n] \in {tag[n], NoTag}
    BY <1>2, <1>6
  <2>3. QED
    BY <1>4, <2>2 DEF Truth, JournalIsTrue
<1>8. QED
  BY <1>1, <1>5, <1>7 DEF Truth, WorkIsOurs, NothingListedIsErased

\* What the version at work has verified is verified.
LEMMA WorkIsVerified == ASSUME current # None PROVE wanted[current] \ queue \subseteq Verified
<1> DEFINE done == UNION {wanted[v] : v \in completed}
<1>1. Verified = done \cup (wanted[current] \ queue)
  BY DEF Verified
<1> HIDE DEF done
<1>2. QED
  BY <1>1

\* An edit leaves verified tags alone; it gives any other tag a new id, or none, and what the
\* journal plans it cannot tell from the planned copy.
LEMMA TruthOfEdits ==
  ASSUME TypeOK, Shape, Truth, UserEdits, ~RacingEdits PROVE Truth'
<1>1. UNCHANGED <<journal, pc, wanted, completed, current, queue, at, record, listed>>
  BY DEF UserEdits, choice, copying, cleaning
<1>2. CASE UNCHANGED tag
  BY <1>1, <1>2, TruthOfReads
<1>3. ASSUME NEW n \in UserNames, n \notin Verified,
             NEW d \in Versions \cup {Other}, NEW i \in Ids, NEW who,
             Fresh(i), tag' = [tag EXCEPT ![n] = [id |-> i, digest |-> d, by |-> who]],
             Expects(n, d) => who = "mirror"
      PROVE Truth'
  <2>1. n \in Names /\ i # NoId /\ Other \notin Versions
    BY ContainersAssumption, BoundsAssumption DEF Ids, NoId, Other
  <2>2. /\ tag'[n] = [id |-> i, digest |-> d, by |-> who]
        /\ \A m \in Names : m # n => tag'[m] = tag[m]
    BY <1>3, <2>1 DEF TypeOK
  <2>3. \A v \in Versions : n \in journal[v].tags /\ journal[v].id[n] = Planned /\ d = v
                              => who = "mirror"
    BY <1>3 DEF Expects
  <2>4. IdsAreUnique' /\ JournalIsTrue'
    BY <1>1, <1>3, <2>1, <2>3, FreshIsHarmless DEF Truth
  <2>5. WorkIsOurs'
    <3>1. SUFFICES ASSUME pc \in {"copy", "verify", "link"} PROVE WorkIsOurs'
      BY <1>1 DEF WorkIsOurs
    <3>2. /\ current \in Versions /\ current # None
          /\ queue \subseteq wanted[current] /\ wanted[current] \subseteq journal[current].tags
          /\ wanted[current] \subseteq Names
      BY <3>1, ContainersAssumption DEF Shape, TypeOK, None
    <3>3. n \notin wanted[current] \ queue
      BY <1>3, <3>2, WorkIsVerified
    <3>4. n \in queue /\ d = current => who = "mirror"
      BY <1>3, <3>2 DEF Expects
    <3>5. \A m \in wanted[current] \ queue : Carries(m, current)' /\ tag'[m].by = "mirror"
      <4>1. \A m \in wanted[current] \ queue : tag'[m] = tag[m]
        BY <2>2, <3>2, <3>3
      <4>2. QED
        BY <1>1, <3>1, <4>1 DEF Truth, WorkIsOurs, Carries, Exists
    <3>6. \A m \in queue : listed[m].by # "user" /\ (tag'[m].digest = current => tag'[m].by = "mirror")
      BY <2>2, <3>1, <3>2, <3>4 DEF Truth, WorkIsOurs
    <3>7. QED
      BY <1>1, <3>5, <3>6 DEF WorkIsOurs
  <2>6. NothingListedIsErased'
    <3>1. listed[n] # tag'[n]
      BY <1>3, <2>1, <2>2 DEF Fresh
    <3>2. QED
      BY <1>1, <2>2, <3>1 DEF Truth, NothingListedIsErased, Carries, Exists
  <2>7. QED
    BY <2>4, <2>5, <2>6 DEF Truth
<1>4. ASSUME NEW n \in UserNames, n \notin Verified, tag' = [tag EXCEPT ![n] = NoTag] PROVE Truth'
  <2>1. /\ n \in Names /\ Other \notin Versions
        /\ NoTag.id = NoId /\ NoTag.digest = Other
    BY ContainersAssumption DEF Other, NoTag
  <2>2. tag'[n] = NoTag /\ \A m \in Names : m # n => tag'[m] = tag[m]
    BY <1>4, <2>1 DEF TypeOK
  <2>3. IdsAreUnique' /\ JournalIsTrue'
    BY <1>1, <2>2, RemovalIsHarmless DEF Truth
  <2>4. WorkIsOurs'
    <3>1. SUFFICES ASSUME pc \in {"copy", "verify", "link"} PROVE WorkIsOurs'
      BY <1>1 DEF WorkIsOurs
    <3>2. /\ current \in Versions /\ current # None
          /\ queue \subseteq wanted[current] /\ wanted[current] \subseteq Names
      BY <3>1, ContainersAssumption DEF Shape, TypeOK, None
    <3>3. n \notin wanted[current] \ queue
      BY <1>4, <3>2, WorkIsVerified
    <3>4. \A m \in wanted[current] \ queue : Carries(m, current)' /\ tag'[m].by = "mirror"
      <4>1. \A m \in wanted[current] \ queue : tag'[m] = tag[m]
        BY <2>2, <3>2, <3>3
      <4>2. QED
        BY <1>1, <3>1, <4>1 DEF Truth, WorkIsOurs, Carries, Exists
    <3>5. \A m \in queue : listed[m].by # "user" /\ (tag'[m].digest = current => tag'[m].by = "mirror")
      BY <2>1, <2>2, <3>1, <3>2 DEF Truth, WorkIsOurs
    <3>6. QED
      BY <1>1, <3>4, <3>5 DEF WorkIsOurs
  <2>5. NothingListedIsErased'
    BY <1>1, <2>1, <2>2 DEF Truth, NothingListedIsErased, Carries, Exists
  <2>6. QED
    BY <2>3, <2>4, <2>5 DEF Truth
<1>5. QED
  BY <1>2, <1>3, <1>4 DEF UserEdits

\* Every step keeps the truth.
LEMMA TruthLasts ==
  ASSUME ~RacingEdits PROVE TypeOK /\ Shape /\ Truth /\ [Next]_vars => Truth'
<1> SUFFICES ASSUME TypeOK, Shape, Truth, [Next]_vars PROVE Truth'
  OBVIOUS
<1>1. CASE UNCHANGED vars
  BY <1>1, TruthOfReads DEF vars, gitea, choice, copying, cleaning
<1>2. CASE OpenPackage \/ LinkRefused \/ FinishRun \/ KeepImage \/ Abort
  BY <1>2, TruthOfReads
     DEF OpenPackage, LinkRefused, FinishRun, KeepImage, Abort, EndRun, NextRecord, gitea
<1>3. CASE VerifyTag \/ LinkPackage \/ NoReferences
  BY <1>3, TruthOfReads DEF VerifyTag, LinkPackage, NoReferences, gitea
<1>4. CASE CopyFails \/ CompleteVersion
  BY <1>4, TruthOfCopy, TruthOfComplete
<1>5. CASE KeepRecord \/ EraseImage \/ EraseFails
  BY <1>5, TruthOfKeepRecord, TruthOfErase
<1>6. ASSUME NEW v \in Versions, PrepareVersion(v) PROVE Truth'
  BY <1>6, TruthOfPrepare
<1>7. ASSUME NEW v \in Versions, SkipVersion(v) \/ StartCleanup(v) \/ OpenRecord(v) PROVE Truth'
  BY <1>7, TruthOfReads DEF SkipVersion, NextVersion, StartCleanup, OpenRecord, gitea
<1>8. ASSUME NEW n \in Names, CopyTag(n) \/ PruneTag(n) \/ KeepTag(n) PROVE Truth'
  BY <1>8, TruthOfCopy, TruthOfPrune
<1>9. CASE SourceChanges
  BY <1>9, TruthOfReads DEF SourceChanges, gitea, choice, copying, cleaning
<1>10. CASE UserEdits
  BY <1>10, TruthOfEdits
<1>11. CASE SkipPackage
  BY <1>1, <1>11 DEF SkipPackage
<1>12. QED
  BY <1>1, <1>2, <1>3, <1>4, <1>5, <1>6, <1>7, <1>8, <1>9, <1>10, <1>11 DEF Next, Step

\* In every run in which users leave the tags alone that a run has just verified, what the journal
\* names was pushed by GitHarbor and is the image of its record.
THEOREM TrueJournal == ASSUME ~RacingEdits PROVE Spec => []JournalIsTrue
<1>1. Init => TypeOK /\ Shape /\ Truth
  BY TypesStart, TruthStart
<1>2. TypeOK /\ Shape /\ Truth /\ [Next]_vars => (TypeOK /\ Shape /\ Truth)'
  BY TypesLast, TruthLasts
<1>3. TypeOK /\ Shape /\ Truth => JournalIsTrue
  BY DEF Truth
<1>4. QED
  BY <1>1, <1>2, <1>3, PTL DEF Spec

\* A step that is not an edit leaves a user's package version as it was listed.
LEMMA StepsSpareUsers ==
  ASSUME TypeOK, Shape, Truth, [Next]_vars, ByMirror,
         NEW n \in Names, tag[n].by = "user", listed[n] = tag[n]
  PROVE tag'[n] = tag[n]
<1>1. CASE UNCHANGED tag
  BY <1>1
<1>2. CASE CopyFails \/ \E m \in Names : CopyTag(m)
  <2>1. CASE \E m \in queue : pc = "copy" /\ Upload(m, current)
    <3>1. PICK m \in queue : pc = "copy" /\ Upload(m, current)
      BY <2>1
    <3>2. m # n
      BY <3>1 DEF Truth, WorkIsOurs
    <3>3. QED
      BY <3>1, <3>2 DEF Upload, TypeOK
  <2>2. QED
    BY <1>1, <1>2, <2>1 DEF CopyFails, CopyTag
<1>3. ASSUME NEW m \in Names, PruneTag(m) \/ KeepTag(m) PROVE tag'[n] = tag[n]
  <2>1. CASE Ours(m) /\ tag' = [tag EXCEPT ![m] = NoTag]
    <3>1. /\ pc = "prune" /\ record \in Versions /\ m \in journal[record].tags
          /\ journal[record].id[m] = Planned \/ listed[m].id = journal[record].id[m]
          /\ journal[record].id[m] = Planned => tag[m].digest = record
      BY <1>3, <2>1 DEF PruneTag, KeepTag, Pruning, Shape, Ours, Expected, Carries
    <3>2. m # n
      BY <3>1 DEF Truth, JournalIsTrue, Planned, NoId
    <3>3. QED
      BY <2>1, <3>2 DEF TypeOK
  <2>2. QED
    BY <1>1, <1>3, <2>1 DEF PruneTag, KeepTag
<1>4. CASE EraseImage \/ EraseFails
  <2>1. ~Carries(n, record)
    BY <1>4 DEF EraseImage, EraseFails, Truth, NothingListedIsErased
  <2>2. QED
    BY <1>1, <1>4, <2>1 DEF EraseImage, EraseFails, Erase
<1>5. ~UserEdits
  BY DEF UserEdits, Spend, ByMirror, TypeOK, Chances
<1>6. CASE UNCHANGED vars
  BY <1>1, <1>6 DEF vars, gitea
<1>7. CASE OpenPackage \/ SkipPackage \/ VerifyTag \/ LinkPackage \/ LinkRefused \/ CompleteVersion
           \/ FinishRun \/ KeepRecord \/ KeepImage \/ NoReferences \/ Abort \/ SourceChanges
  BY <1>1, <1>6, <1>7
     DEF OpenPackage, SkipPackage, VerifyTag, LinkPackage, LinkRefused, CompleteVersion, FinishRun,
         KeepRecord, KeepImage, NoReferences, Abort, SourceChanges, gitea
<1>8. CASE \E v \in Versions : PrepareVersion(v) \/ SkipVersion(v) \/ StartCleanup(v) \/ OpenRecord(v)
  BY <1>1, <1>8 DEF PrepareVersion, SkipVersion, StartCleanup, OpenRecord, gitea
<1>9. QED
  BY <1>2, <1>3, <1>4, <1>5, <1>6, <1>7, <1>8 DEF Next, Step

\* In every run in which users leave the tags alone that a run has just verified, the mirror
\* neither overwrites nor deletes a user's package version that its last listing saw.
THEOREM UsersKeepTheirTags == ASSUME ~RacingEdits PROVE Spec => UserTagsStay
<1>1. Init => TypeOK /\ Shape /\ Truth
  BY TypesStart, TruthStart
<1>2. TypeOK /\ Shape /\ Truth /\ [Next]_vars => (TypeOK /\ Shape /\ Truth)'
  BY TypesLast, TruthLasts
<1>3. TypeOK /\ Shape /\ Truth /\ [Next]_vars
        => [ByMirror => \A n \in Names :
              tag[n].by = "user" /\ listed[n] = tag[n] => tag'[n] = tag[n]]_vars
  BY StepsSpareUsers
<1>4. QED
  BY <1>1, <1>2, <1>3, PTL DEF Spec, UserTagsStay
=============================================================================
