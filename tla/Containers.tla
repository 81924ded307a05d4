----------------------------- MODULE Containers -----------------------------
(***************************************************************************)
(* The mirror of one container package:                                    *)
(* src/githarbor/services/containers.py against Gitea's registry.          *)
(*                                                                         *)
(* The container_images table is a journal: a record of the tags of a      *)
(* GitHub version is committed before the first of them is copied, with    *)
(* id 0, and gets the ids of Gitea's package versions once all are         *)
(* verified.  Only what the journal names may be overwritten or deleted.   *)
(*                                                                         *)
(* An action is one request with the code up to the next one.  Runs of one *)
(* repository never overlap (SyncService!OneTransferPerRepository).  A     *)
(* version stands for its digest.  The letter case of tags is left out; a  *)
(* listing that the code refuses as contradictory is a failed request.     *)
(***************************************************************************)
EXTENDS Naturals

CONSTANTS
  Versions,          \* GitHub's package versions: numbers in the order of created_at
  Tags, Latest,      \* their tags, and the tag "latest" among them
  Oversized,         \* versions above PACKAGE_MAX_BYTES
  Modes,             \* the retention modes that are used: "all", "latest"
  MaxId,             \* bound: ids of Gitea's package versions
  Faults,            \* kinds of fault that happen: "failure", "lost", "abort"
  Budget,            \* bounds: faults in all, changes at the source, edits in Gitea
  UserNames,         \* the tags in Gitea that users also use
  RacingEdits        \* whether users also edit the tags that a run has just verified

\* The preservation tag of a version is written as the version.
Names == Tags \cup Versions
Preservation(v) == v

Ids == 1..MaxId
NoId == 0
Planned == 0       \* the id of a tag that is journalled and not yet verified
None == 0          \* no version, and no tag
Other == 0         \* the digest of any other image
Nobody == "nobody"
Chances == {"fault", "change", "edit"}

ASSUME ContainersAssumption ==
  /\ Versions \subseteq Nat \ {0} /\ Tags \cap Versions = {} /\ Latest \in Tags
  /\ Oversized \subseteq Versions /\ Modes \subseteq {"all", "latest"}
  /\ UserNames \subseteq Names /\ RacingEdits \in BOOLEAN
ASSUME BoundsAssumption ==
  /\ MaxId \in Nat /\ Budget \in [Chances -> Nat]
  /\ Faults \subseteq {"failure", "lost", "abort"}

VARIABLES
  \* GitHub: the versions there are and which of them has each tag; the setting.
  published, holder, mode,
  \* Gitea: its package version for each tag, the digests stored, the linked repository.
  tag, images, link,
  \* The database.
  journal,
  \* The run over versions and over the tags of one (at: the tag just copied); then over the
  \* old records and their tags (kept: retained).  listed is by_tag.
  pc, selected, wanted, todo, completed, current, queue, at, old, record, kept, listed, warned,
  budget

upstream == <<published, holder, mode>>
gitea    == <<tag, images, link>>
choice   == <<selected, wanted>>
copying  == <<todo, completed, current, at>>
cleaning == <<old, record, kept>>
vars == <<upstream, gitea, journal, pc, choice, copying, queue, cleaning, listed, warned, budget>>

NoTag == [id |-> NoId, digest |-> Other, by |-> Nobody]
NoTags == [n \in Names |-> NoTag]
NoRecord == [state |-> "none", tags |-> {}, id |-> [n \in Names |-> NoId]]
NothingWanted == [v \in Versions |-> {}]

Init ==
  /\ published \in SUBSET Versions
  /\ holder \in [Tags -> published \cup {None}] /\ mode \in Modes
  /\ tag = NoTags /\ images = {} /\ link = "none"
  /\ journal = [v \in Versions |-> NoRecord]
  /\ pc = "idle" /\ selected = {} /\ wanted = NothingWanted /\ todo = {} /\ completed = {}
  /\ current = None /\ queue = {} /\ at = None
  /\ old = {} /\ record = None /\ kept = {} /\ listed = NoTags /\ warned = FALSE
  /\ budget = Budget

Spend(chance) == budget[chance] > 0 /\ budget' = [budget EXCEPT ![chance] = @ - 1]
Suffer(fault) == fault \in Faults /\ Spend("fault")

Exists(n) == tag[n].id # NoId
Visible == \E n \in Names : Exists(n)
Recorded(v) == journal[v].state # "none"
Owned == {journal[v].id[n] : v \in Versions, n \in Names} \ {NoId}
\* A tag that is planned for v and carries its digest: an interrupted copy.
Interrupted(n, v) ==
  /\ journal[v].state = "pending" /\ n \in journal[v].tags /\ journal[v].id[n] = Planned
  /\ tag[n].digest = v

\* Gitea never uses an id again.  An id that nobody remembers is as good as a new one.
Fresh(i) ==
  LET unused(j) == j \notin Owned /\ \A n \in Names : tag[n].id # j /\ listed[n].id # j
  IN  unused(i) /\ \A j \in Ids : unused(j) => i <= j

EndRun ==
  /\ pc' = "idle" /\ selected' = {} /\ wanted' = NothingWanted /\ todo' = {} /\ completed' = {}
  /\ current' = None /\ queue' = {} /\ at' = None
  /\ old' = {} /\ record' = None /\ kept' = {} /\ listed' = NoTags /\ warned' = FALSE

-----------------------------------------------------------------------------
(* _mirror_package and _mirror_version.                                    *)

\* The listings of GitHub and of Gitea; each reads its own side only.
OpenPackage ==
  LET chosen == IF mode = "all" THEN published ELSE {v \in published : holder[Latest] = v}
  IN  /\ pc = "idle"
      /\ mode = "all" \/ chosen # {}
      /\ Visible => (\E v \in Versions : Recorded(v)) /\ link # "other"
      /\ pc' = "versions" /\ selected' = chosen /\ todo' = chosen
      /\ wanted' = [v \in Versions |->
           IF v \in chosen THEN {t \in Tags : holder[t] = v}
                                \cup (IF mode = "all" THEN {Preservation(v)} ELSE {})
           ELSE {}]
      /\ UNCHANGED <<upstream, gitea, journal, completed, current, queue, at, cleaning,
                     listed, warned, budget>>

\* No literal latest, an unmanaged package, or one linked elsewhere: skipped with a warning.
SkipPackage ==
  /\ pc = "idle"
  /\ \/ mode = "latest" /\ \A v \in published : holder[Latest] # v
     \/ Visible /\ ((\A v \in Versions : ~Recorded(v)) \/ link = "other")
  /\ UNCHANGED vars

Turn(v) == pc = "versions" /\ v \in todo /\ \A w \in todo : v <= w

\* Defect: a tag that the journal plans is taken whatever it carries.
FreePlanned(n, v) == ~Exists(n) \/ tag[n].id \in Owned \/ n \in journal[v].tags
Free(n, v) == ~Exists(n) \/ tag[n].id \in Owned \/ Interrupted(n, v)

\* Defect: the journal is written only when the copies are there.
PlannedLate(v) == journal
\* Tags that have an id keep it, also if their copy has to be made again.
PlannedFor(v) == [journal EXCEPT ![v].state = "pending", ![v].tags = @ \cup wanted[v]]

\* The collision check passes and _prepare_record commits, before anything is copied.
PrepareVersion(v) ==
  /\ Turn(v) /\ v \notin Oversized /\ \A n \in wanted[v] : Free(n, v)
  /\ journal' = PlannedFor(v)
  /\ pc' = "copy" /\ current' = v /\ queue' = wanted[v] /\ listed' = tag
  /\ UNCHANGED <<upstream, gitea, choice, todo, completed, at, cleaning, warned, budget>>

\* Defect: a skipped version is not reported.
SilentSkip == warned
SkipIsWarned == TRUE

NextVersion(v) ==
  /\ pc' = "versions" /\ todo' = todo \ {v}
  /\ current' = None /\ queue' = {} /\ at' = None /\ listed' = NoTags

SkipVersion(v) ==
  /\ Turn(v)
  /\ \/ (v \in Oversized \/ \E n \in wanted[v] : ~Free(n, v)) /\ UNCHANGED budget
     \/ Suffer("failure")
  /\ NextVersion(v) /\ warned' = SkipIsWarned
  /\ UNCHANGED <<upstream, gitea, journal, choice, completed, cleaning>>

Carries(n, v) == Exists(n) /\ tag[n].digest = v

Upload(n, v) ==
  /\ \E i \in Ids : Fresh(i) /\ tag' = [tag EXCEPT ![n] = [id |-> i, digest |-> v, by |-> "mirror"]]
  /\ images' = images \cup {v}

\* "latest" goes last; a tag that already carries the digest is not copied.
CopyTag(n) ==
  /\ pc = "copy" /\ n \in queue /\ (n = Latest => queue = {Latest})
  /\ IF Carries(n, current) THEN UNCHANGED <<tag, images>> ELSE Upload(n, current)
  /\ pc' = "verify" /\ at' = n
  /\ UNCHANGED <<upstream, link, journal, choice, todo, completed, current, queue, cleaning,
                 listed, warned, budget>>

VerifyTag ==
  /\ pc = "verify" /\ Carries(at, current)
  /\ queue' = queue \ {at} /\ at' = None
  /\ pc' = IF queue' = {} THEN "link" ELSE "copy"
  /\ UNCHANGED <<upstream, gitea, journal, choice, todo, completed, current, cleaning, listed,
                 warned, budget>>

\* Skopeo fails, its result is lost, or the tag carries another digest: the record stays pending.
CopyFails ==
  /\ \/ /\ pc = "copy" /\ Suffer("lost")
        /\ \E n \in queue : /\ n = Latest => queue = {Latest}
                           /\ ~Carries(n, current) /\ Upload(n, current)
     \/ pc \in {"copy", "verify"} /\ Suffer("failure") /\ UNCHANGED <<tag, images>>
     \/ pc = "verify" /\ ~Carries(at, current) /\ UNCHANGED <<tag, images, budget>>
  /\ NextVersion(current) /\ warned' = TRUE
  /\ UNCHANGED <<upstream, link, journal, choice, completed, cleaning>>

LinkPackage ==
  /\ pc = "link" /\ Visible /\ link = "none" /\ link' = "ours"
  /\ UNCHANGED <<upstream, tag, images, journal, pc, choice, copying, queue, cleaning, listed,
                 warned, budget>>

\* The package is linked to another repository by now: the rest of it is skipped.
LinkRefused ==
  /\ pc = "link" /\ Visible /\ link = "other" /\ EndRun
  /\ UNCHANGED <<upstream, gitea, journal, budget>>

\* Defects: earlier tags stay in the record; every tag of the package enters it.
CompleteAfter(v) == [journal[v] EXCEPT !.state = "complete",
  !.id = [n \in Names |-> IF n \in wanted[v] THEN tag[n].id ELSE @[n]]]
CompleteWithAll(v) == [state |-> "complete", tags |-> {n \in Names : Exists(n)},
                       id |-> [n \in Names |-> tag[n].id]]
Complete(v) == [state |-> "complete", tags |-> wanted[v],
                id |-> [n \in Names |-> IF n \in wanted[v] THEN tag[n].id ELSE NoId]]

\* The ids of the last listing replace those of the record.
CompleteVersion ==
  /\ pc = "link" /\ (Visible => link = "ours")
  /\ IF \A n \in wanted[current] : Exists(n)
     THEN /\ journal' = [journal EXCEPT ![current] = Complete(current)]
          /\ completed' = completed \cup {current} /\ UNCHANGED warned
     ELSE warned' = TRUE /\ UNCHANGED <<journal, completed>>
  /\ NextVersion(current)
  /\ UNCHANGED <<upstream, gitea, choice, cleaning, budget>>

-----------------------------------------------------------------------------
(* _cleanup_older_versions.                                                *)

\* Defect: the cleanup follows whatever became of the latest version.
CleanupAnyway(v) == mode = "latest" /\ selected = {v}
CleanupDue(v) == mode = "latest" /\ completed = {v} /\ ~warned

StartCleanup(v) ==
  /\ pc = "versions" /\ todo = {} /\ CleanupDue(v)
  /\ pc' = "clean" /\ current' = v
  /\ old' = {w \in Versions \ {v} : Recorded(w)}
  /\ UNCHANGED <<upstream, gitea, journal, choice, todo, completed, queue, at, record, kept,
                 listed, warned, budget>>

FinishRun ==
  /\ \/ pc = "versions" /\ todo = {} /\ \A v \in Versions : ~CleanupDue(v)
     \/ pc = "clean" /\ old = {}
  /\ EndRun
  /\ UNCHANGED <<upstream, gitea, journal, budget>>

\* The tags of the current version are protected.
OpenRecord(r) ==
  /\ pc = "clean" /\ r \in old
  /\ pc' = "prune" /\ record' = r /\ kept' = {} /\ listed' = tag
  /\ queue' = {n \in journal[r].tags \ journal[current].tags : Exists(n)}
  /\ UNCHANGED <<upstream, gitea, journal, choice, copying, old, warned, budget>>

Expected(n) == journal[record].id[n]
\* The listed id is the recorded one; a planned tag is recognized by its digest.
Ours(n) == IF Expected(n) = Planned THEN Carries(n, record) ELSE listed[n].id = Expected(n)
Pruning(n) ==
  /\ pc = "prune" /\ n \in queue /\ queue' = queue \ {n}
  /\ UNCHANGED <<upstream, images, link, journal, pc, choice, copying, old, record, listed>>

PruneTag(n) ==
  /\ Pruning(n) /\ Ours(n) /\ Exists(n)
  /\ tag' = [tag EXCEPT ![n] = NoTag]
  /\ UNCHANGED <<kept, warned, budget>>

\* The tag has changed, a request fails, or the answer to the deletion is lost.
KeepTag(n) ==
  /\ Pruning(n)
  /\ \/ (~Ours(n) \/ ~Exists(n)) /\ UNCHANGED <<tag, budget>>
     \/ Suffer("failure") /\ UNCHANGED tag
     \/ Ours(n) /\ Suffer("lost") /\ tag' = [tag EXCEPT ![n] = NoTag]
  /\ kept' = kept \cup {n} /\ warned' = TRUE

NextRecord ==
  /\ pc' = "clean" /\ old' = old \ {record} /\ record' = None /\ kept' = {} /\ listed' = NoTags
  /\ UNCHANGED <<choice, copying>>

KeepRecord ==
  /\ pc = "prune" /\ queue = {} /\ kept # {}
  /\ journal' = [journal EXCEPT ![record] =
       [state |-> @.state, tags |-> kept,
        id |-> [n \in Names |-> IF n \in kept THEN @.id[n] ELSE NoId]]]
  /\ NextRecord
  /\ UNCHANGED <<upstream, gitea, queue, warned, budget>>

Referenced(v) == \E n \in Names : Carries(n, v)

\* Tags that nobody recorded still refer to the digest, or the listing fails.
KeepImage ==
  /\ pc = "prune" /\ queue = {} /\ kept = {}
  /\ (Referenced(record) /\ UNCHANGED budget) \/ Suffer("failure")
  /\ warned' = TRUE /\ NextRecord
  /\ UNCHANGED <<upstream, gitea, journal, queue>>

NoReferences ==
  /\ pc = "prune" /\ queue = {} /\ kept = {} /\ ~Referenced(record)
  /\ pc' = "erase"
  /\ UNCHANGED <<upstream, gitea, journal, choice, copying, queue, cleaning, listed, warned, budget>>

\* Deleting a manifest by its digest takes the tags along that it has by then.
Erase ==
  /\ images' = images \ {record}
  /\ tag' = [n \in Names |-> IF Carries(n, record) THEN NoTag ELSE tag[n]]

EraseImage ==
  /\ pc = "erase" /\ Erase
  /\ journal' = [journal EXCEPT ![record] = NoRecord]
  /\ NextRecord
  /\ UNCHANGED <<upstream, link, queue, warned, budget>>

EraseFails ==
  /\ pc = "erase"
  /\ (Suffer("failure") /\ UNCHANGED <<tag, images>>) \/ (Suffer("lost") /\ Erase)
  /\ warned' = TRUE /\ NextRecord
  /\ UNCHANGED <<upstream, link, journal, queue>>

-----------------------------------------------------------------------------
(* What happens around the run.                                            *)

\* A request outside these handlers fails, the sync is cancelled, or the process dies.
Abort ==
  /\ pc # "idle" /\ Suffer("abort") /\ EndRun
  /\ UNCHANGED <<upstream, gitea, journal>>

\* A push makes a version or moves tags to one, a version is deleted, or a restart brings
\* another mode.  A run reads the source once: what changes meanwhile could as well change after.
SourceChanges ==
  /\ pc = "idle" /\ Spend("change")
  /\ \/ \E v \in Versions, T \in SUBSET Tags :
          /\ published' = published \cup {v}
          /\ holder' = [t \in Tags |-> IF t \in T THEN v ELSE holder[t]]
          /\ UNCHANGED mode
     \/ \E v \in published :
          /\ published' = published \ {v}
          /\ holder' = [t \in Tags |-> IF holder[t] = v THEN None ELSE holder[t]]
          /\ UNCHANGED mode
     \/ mode' \in Modes /\ UNCHANGED <<published, holder>>
  /\ UNCHANGED <<gitea, journal, pc, choice, copying, queue, cleaning, listed, warned>>

\* The tags that this run has verified: of the completed versions, and of the one at work.
Verified == (UNION {wanted[v] : v \in completed})
            \cup (IF current = None THEN {} ELSE wanted[current] \ queue)

\* The digest pushed to n is what the journal plans for it, or what the run is to copy there.
Expects(n, d) == d \in Versions /\ n \in journal[d].tags
                 /\ (journal[d].id[n] = Planned \/ (current = d /\ n \in queue))

\* A user of Gitea pushes an image to a tag, deletes a tag, or links the package elsewhere.
\* A push of the very digest that is expected cannot be told from the expected copy.
UserEdits ==
  /\ Spend("edit")
  /\ \/ \E n \in UserNames :
          /\ RacingEdits \/ n \notin Verified
          /\ \/ \E d \in Versions \cup {Other}, i \in Ids :
                  /\ Fresh(i)
                  /\ tag' = [tag EXCEPT ![n] =
                       [id |-> i, digest |-> d, by |-> IF Expects(n, d) THEN "mirror" ELSE "user"]]
                  /\ images' = images \cup {d}
             \/ Exists(n) /\ tag' = [tag EXCEPT ![n] = NoTag] /\ UNCHANGED images
          /\ UNCHANGED link
     \/ Visible /\ link' = "other" /\ UNCHANGED <<tag, images>>
  /\ UNCHANGED <<upstream, journal, pc, choice, copying, queue, cleaning, listed, warned>>

Step ==
  \/ OpenPackage \/ SkipPackage \/ VerifyTag \/ CopyFails \/ LinkPackage \/ LinkRefused
  \/ CompleteVersion \/ FinishRun \/ KeepRecord \/ KeepImage \/ NoReferences
  \/ EraseImage \/ EraseFails
  \/ \E v \in Versions : PrepareVersion(v) \/ SkipVersion(v) \/ StartCleanup(v) \/ OpenRecord(v)
  \/ \E n \in Names : CopyTag(n) \/ PruneTag(n) \/ KeepTag(n)

Next == Step \/ Abort \/ SourceChanges \/ UserEdits

Spec == Init /\ [][Next]_vars

\* The scheduler starts runs for ever and every request returns.
FairSpec == Spec /\ WF_vars(Step)

-----------------------------------------------------------------------------
(* Properties.                                                             *)

PackageVersion == [id : Ids \cup {NoId}, digest : Versions \cup {Other},
                   by : {Nobody, "mirror", "user"}]
Record == [state : {"none", "pending", "complete"}, tags : SUBSET Names,
           id : [Names -> Ids \cup {NoId}]]

\* Every variable has its type, and a complete record has the id of each of its tags.
TypeOK ==
  /\ published \subseteq Versions /\ holder \in [Tags -> Versions \cup {None}] /\ mode \in Modes
  /\ tag \in [Names -> PackageVersion] /\ images \subseteq Versions \cup {Other}
  /\ link \in {"none", "ours", "other"}
  /\ journal \in [Versions -> Record]
  /\ \A v \in Versions, n \in Names :
       n \in journal[v].tags /\ journal[v].state = "complete" => journal[v].id[n] # NoId
  /\ pc \in {"idle", "versions", "copy", "verify", "link", "clean", "prune", "erase"}
  /\ selected \subseteq Versions /\ wanted \in [Versions -> SUBSET Names]
  /\ todo \subseteq Versions /\ completed \subseteq Versions /\ current \in Versions \cup {None}
  /\ queue \subseteq Names /\ at \in Names \cup {None}
  /\ old \subseteq Versions /\ record \in Versions \cup {None} /\ kept \subseteq Names
  /\ listed \in [Names -> PackageVersion] /\ warned \in BOOLEAN
  /\ budget \in [Chances -> Nat]

\* The journal tells the truth: the package version that a record names, and the tag with the
\* planned digest, were pushed by GitHarbor and are the image of that record, through moved
\* tags, lost results, restarts and edits.  This is what the next runs overwrite and delete.
JournalIsTrue == \A v \in Versions : \A n \in journal[v].tags :
  /\ journal[v].id[n] # NoId /\ tag[n].id = journal[v].id[n]
       => tag[n].digest = v /\ tag[n].by = "mirror"
  /\ journal[v].id[n] = Planned /\ tag[n].digest = v => tag[n].by = "mirror"

ByMirror == budget'["edit"] = budget["edit"]

\* A user's package version that the collision check or the listing of the cleanup saw stays
\* as it is: the mirror neither overwrites nor deletes it.  One that was pushed since that
\* listing is not covered.
UserTagsStay == [][ByMirror => \A n \in Names :
  tag[n].by = "user" /\ listed[n] = tag[n] => tag'[n] = tag[n]]_vars

\* The image of v is complete in Gitea with every tag that its record names.
Whole(v) ==
  /\ journal[v].state = "complete" /\ v \in images
  /\ \A n \in journal[v].tags : Carries(n, v)

\* A tag or an image goes away only when another version with the tag "latest" is recorded as
\* complete and is complete in Gitea: a failed copy keeps the old image.
FallbackKept == [][ByMirror /\
  (images \ images' # {} \/ \E n \in Names : tag[n].id # NoId /\ tag'[n].id = NoId)
  => \E c \in Versions : Latest \in journal[c].tags /\ Whole(c)
       /\ \A n \in journal[c].tags : tag'[n] = tag[n]]_vars

\* A run over the whole package that warns of nothing has mirrored every selected version with
\* each of its tags; after one in latest mode the journal knows no other version.
QuietRunsAreComplete == [][
  ~warned /\ pc \in {"versions", "clean"} /\ pc' = "idle" /\ budget' = budget =>
    /\ \A v \in selected : Recorded(v) /\ \A n \in wanted[v] : Carries(n, v)
    /\ mode = "latest" => \A v \in Versions \ selected : ~Recorded(v)]_vars

\* The source and the settings have rested so far, and nobody edited in Gitea.
Undisturbed == budget["edit"] = Budget["edit"] /\ budget["change"] = Budget["change"]

\* No copy is stranded: each tag in Gitea is one whose id the journal holds or that the next
\* run recognizes as an interrupted copy, wherever a run was cut short or lost an answer.
\* Otherwise the collision check would refuse the version for ever.
CopiesAreRecognized == Undisturbed => \A n \in Names :
  Exists(n) => tag[n].id \in Owned \/ \E v \in Versions : Interrupted(n, v)

\* Once the source rests, every version that GitHub has is in Gitea with all of its tags.
EveryVersionMirrored == <>[](mode = "all" => \A v \in published \ Oversized :
  \A n \in {t \in Tags : holder[t] = v} \cup {Preservation(v)} : Carries(n, v))
=============================================================================
