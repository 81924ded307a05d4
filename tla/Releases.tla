------------------------------ MODULE Releases ------------------------------
(***************************************************************************)
(* Release and release-asset mirroring of one repository:                  *)
(* src/githarbor/services/releases.py against the Gitea client.            *)
(*                                                                         *)
(* The only memory between two runs is in Gitea: the marker in the body of *)
(* a release says which source release owns it and which attachment id     *)
(* mirrors which source asset.  An attachment is created first and entered *)
(* in the marker later, by another request.                                *)
(*                                                                         *)
(* An action is one request to Gitea with the code around it.  Runs of one *)
(* repository never overlap (SyncService!OneTransferPerRepository).  Title, *)
(* notes and their truncation, sizes and digests are left out: an asset    *)
(* that can never be uploaded is in Unfit, and Gitea never changes the     *)
(* bytes of an attachment.                                                 *)
(***************************************************************************)
EXTENDS Naturals

CONSTANTS
  Releases, Tags, TagOf,      \* source releases (GitHub ids) and their tags
  Assets, ReleaseOf,          \* source assets (GitHub ids) and their releases
  Names, NameOf,              \* file names; a replaced asset has a new id and may keep its name
  Unfit,                      \* assets not uploaded at the source, or over Gitea's limit
  MaxId,                      \* bound: attachments ever created in Gitea
  Faults,                     \* kinds of fault that happen, a subset of FaultKinds
  Budget                      \* bounds: faults in all, changes at the source, edits in Gitea

Ids == 1..MaxId
NoId == 0
Chances == {"fault", "change", "edit"}
Modes == {"all", "latest", "off"}

\* A request for one asset fails ("failure"), or is done and its answer lost ("lost").  The run
\* ends between two releases' turns ("abort") or inside a turn ("cut"), or at the end of a turn
\* because the final marker is refused ("refusal").
FaultKinds == {"failure", "lost", "abort", "cut", "refusal"}

ASSUME ReleasesAssumption ==
  /\ TagOf \in [Releases -> Tags]
  /\ ReleaseOf \in [Assets -> Releases] /\ NameOf \in [Assets -> Names]
  /\ Unfit \subseteq Assets
  /\ Releases \cap {"none", "user"} = {} /\ Assets \cap {"none", "user"} = {}
ASSUME BoundsAssumption ==
  /\ MaxId \in Nat /\ Budget \in [Chances -> Nat]
  /\ Faults \subseteq FaultKinds

VARIABLES
  \* The source, and the settings of the running process ("off": RELEASE_ASSETS_ENABLED=false).
  published, listed, latest, mode,
  \* Gitea: one release per tag, and every attachment ever created.
  release, attachment,
  \* The run: its listings, then the loop over releases and over the assets of one
  \* (mirrored: its new marker, taken: by_name).
  pc, source, known, seen, todo, ready, current, mirrored, taken, stale, queue, warned,
  budget

upstream == <<published, listed, latest, mode>>
gitea    == <<release, attachment>>
listings == <<source, known>>
assetRun == <<current, mirrored, taken, stale, queue, warned>>
vars == <<upstream, gitea, pc, listings, seen, todo, ready, assetRun, budget>>

NoMarker == [a \in Assets |-> NoId]
NoReleases == [t \in Tags |-> [owner |-> "none", marker |-> NoMarker]]
NoAttachments == [i \in Ids |-> [of |-> "none", tag |-> "none", name |-> "none", there |-> FALSE]]
NoSource == [releases |-> {}, assets |-> {}, latest |-> "none"]

\* What GitHub can hold: tags are unique, and so are the asset names of one release.
Sane(releases, assets, newest) ==
  /\ \A r, q \in releases : TagOf[r] = TagOf[q] => r = q
  /\ \A a, b \in assets : ReleaseOf[a] = ReleaseOf[b] /\ NameOf[a] = NameOf[b] => a = b
  /\ newest \in releases \cup {"none"}

Init ==
  /\ published \in SUBSET Releases /\ listed \in SUBSET Assets
  /\ latest \in Releases \cup {"none"}
  /\ Sane(published, listed, latest)
  /\ mode \in Modes
  /\ release = NoReleases /\ attachment = NoAttachments
  /\ pc = "idle" /\ source = NoSource /\ known = NoReleases /\ seen = NoAttachments
  /\ todo = {} /\ ready = FALSE
  /\ current = "none" /\ mirrored = NoMarker /\ taken = {}
  /\ stale = {} /\ queue = {} /\ warned = FALSE
  /\ budget = Budget

Spend(chance) == budget[chance] > 0 /\ budget' = [budget EXCEPT ![chance] = @ - 1]
Suffer(fault) == fault \in Faults /\ Spend("fault")

\* Gitea gives increasing ids.
Free(i) == attachment[i].of = "none" /\ \A j \in Ids : attachment[j].of = "none" => i <= j

-----------------------------------------------------------------------------
(* The run: listings, and the turn of each release.                        *)

\* The listings of mirror().  What changes at the source between them commutes with them.
\* The code sets latest_assets_ready to FALSE only in LATEST mode with a stable release.
StartRun ==
  /\ pc = "idle" /\ pc' = "visit"
  /\ source' = [releases |-> published,
                assets   |-> {a \in listed : ReleaseOf[a] \in published},
                latest   |-> IF mode = "latest" THEN latest ELSE "none"]
  /\ known' = release /\ seen' = attachment
  /\ todo' = published
  /\ ready' = (source'.latest = "none")
  /\ UNCHANGED <<upstream, gitea, assetRun, budget>>

\* ordered_releases: the latest release goes first.
Turn(r) == pc = "visit" /\ r \in todo /\ (source.latest \in todo => r = source.latest)

\* Defect: the release is recognized by its tag and not by its marker.
ManagedByTag(r) == known[TagOf[r]].owner # "none"
Managed(r) == known[TagOf[r]].owner = r

\* An unmanaged release uses the tag: skipped with a warning.
VisitForeign(r) ==
  /\ Turn(r) /\ ~Managed(r) /\ known[TagOf[r]].owner # "none"
  /\ todo' = todo \ {r}
  /\ UNCHANGED <<upstream, gitea, pc, listings, seen, ready, assetRun, budget>>

\* Defects: every release keeps its assets in LATEST mode, too; names are queued for assets.
WantedAll(r) == {a \in source.assets : ReleaseOf[a] = r}
WantedNames(r) == {NameOf[a] : a \in WantedAll(r)}
\* In LATEST mode every other release should have no asset.
Wanted(r) == IF mode = "latest" /\ r # source.latest
             THEN {} ELSE {a \in source.assets : ReleaseOf[a] = r}

\* Defect: the other releases are cleaned up whatever became of the latest one.
HoldsBackNever(r) == FALSE
HoldsBack(r) == mode = "latest" /\ r # source.latest /\ ~ready

\* Where the loop goes after create_release or update_release, with this marker.
Enter(r, marker) ==
  IF mode = "off" \/ HoldsBack(r)
  THEN todo' = todo \ {r} /\ UNCHANGED <<pc, assetRun>>
  ELSE /\ pc' = "assets" /\ current' = r /\ mirrored' = marker /\ warned' = FALSE
       /\ taken' = {seen'[i].name : i \in {j \in Ids : seen'[j].there /\ seen'[j].tag = TagOf[r]}}
       /\ queue' = Wanted(r)
       /\ stale' = {a \in Assets : marker[a] # NoId} \ Wanted(r)
       /\ UNCHANGED todo

\* The answers of create_release and update_release list the attachments anew; a release whose
\* metadata still matches is not patched and keeps those of the listing.
VisitRelease(r) ==
  /\ Turn(r)
  /\ LET t == TagOf[r]
         marker == IF Managed(r) THEN known[t].marker ELSE NoMarker
     IN  /\ \/ /\ Managed(r)
               /\ UNCHANGED <<release, seen>>
            \/ /\ Managed(r) \/ (known[t].owner = "none" /\ release[t].owner = "none")
               /\ release' = [release EXCEPT ![t] = [owner |-> r, marker |-> marker]]
               /\ seen' = attachment
         /\ Enter(r, marker)
  /\ UNCHANGED <<upstream, attachment, listings, ready, budget>>

-----------------------------------------------------------------------------
(* _mirror_assets, first loop: recorded assets that are not wanted.        *)

Settle(a) == stale' = stale \ {a} /\ UNCHANGED <<pc, listings, todo, ready, current, queue>>
\* Defect: what was removed stays in the new marker.
ForgetNever(a) == UNCHANGED mirrored
Forget(a) == mirrored' = [mirrored EXCEPT ![a] = NoId]
Gone(i) == ~attachment[i].there

\* The attachment is not listed any more, or has another name and is left to its new owner.
ForgetStale(a) ==
  /\ pc = "assets" /\ a \in stale
  /\ LET i == mirrored[a]
     IN  /\ ~seen[i].there \/ seen[i].name # NameOf[a]
         /\ warned' = (warned \/ seen[i].there)
  /\ Forget(a) /\ Settle(a)
  /\ UNCHANGED <<upstream, gitea, seen, taken, budget>>

\* delete_release_asset succeeds; or fails; or its answer is lost and the retry gets 404.
\* Then the code drops the name from by_name, whichever other attachment has it, too.
DeleteStale(a) ==
  /\ pc = "assets" /\ a \in stale
  /\ LET i == mirrored[a]
     IN  /\ seen[i].there /\ seen[i].name = NameOf[a]
         /\ \/ /\ ~Gone(i)
               /\ attachment' = [attachment EXCEPT ![i].there = FALSE]
               /\ seen' = [seen EXCEPT ![i].there = FALSE]
               /\ taken' = taken \ {NameOf[a]}
               /\ Forget(a) /\ UNCHANGED <<warned, budget>>
            \/ /\ warned' = TRUE /\ UNCHANGED <<mirrored, seen, taken>>
               /\ \/ Gone(i) /\ UNCHANGED <<attachment, budget>>
                  \/ Suffer("failure") /\ UNCHANGED attachment
                  \/ ~Gone(i) /\ Suffer("lost") /\ attachment' = [attachment EXCEPT ![i].there = FALSE]
  /\ Settle(a)
  /\ UNCHANGED <<upstream, release>>

-----------------------------------------------------------------------------
(* _mirror_asset, for each wanted asset once nothing stale is left.        *)

Serving(a) == pc = "assets" /\ stale = {} /\ a \in queue
Serve(a) == queue' = queue \ {a} /\ UNCHANGED <<pc, listings, todo, ready, current, stale>>
Present(a) == mirrored[a] # NoId /\ seen[mirrored[a]].there
Taken(a) == NameOf[a] \in taken

\* The recorded attachment is there; its old name is put back, or the rename fails.
KeepAsset(a) ==
  /\ Serving(a) /\ Present(a)
  /\ LET i == mirrored[a]
     IN  \/ /\ seen[i].name = NameOf[a]
            /\ UNCHANGED <<attachment, warned, budget>>
         \/ /\ seen[i].name # NameOf[a] /\ ~Gone(i)
            /\ attachment' = [attachment EXCEPT ![i].name = NameOf[a]]
            /\ UNCHANGED <<warned, budget>>
         \/ /\ seen[i].name # NameOf[a]
            /\ (Gone(i) /\ UNCHANGED budget) \/ Suffer("failure")
            /\ warned' = TRUE /\ UNCHANGED attachment
  /\ Serve(a)
  /\ UNCHANGED <<upstream, release, seen, mirrored, taken>>

\* Defect: an attachment that already has the name is taken for the asset.
AdoptTaken(a) == mirrored' = [mirrored EXCEPT ![a] =
  IF Taken(a) THEN CHOOSE i \in Ids : seen[i].there /\ seen[i].name = NameOf[a] ELSE NoId]
LeaveTaken(a) == Forget(a)

\* An unfit asset, or one whose name an attachment without record has: skipped with a warning.
RefuseAsset(a) ==
  /\ Serving(a) /\ ~Present(a) /\ (a \in Unfit \/ Taken(a))
  /\ LeaveTaken(a) /\ warned' = TRUE
  /\ Serve(a)
  /\ UNCHANGED <<upstream, gitea, seen, taken, budget>>

Uploading(a) == Serving(a) /\ ~Present(a) /\ a \notin Unfit /\ ~Taken(a)
Create(i, a) == attachment' = [attachment EXCEPT ![i] =
  [of |-> a, tag |-> TagOf[ReleaseOf[a]], name |-> NameOf[a], there |-> TRUE]]

UploadSucceeds(a) ==
  /\ Uploading(a)
  /\ \E i \in Ids : /\ Free(i) /\ Create(i, a)
                    /\ mirrored' = [mirrored EXCEPT ![a] = i]
                    /\ seen' = [seen EXCEPT ![i] = attachment'[i]]
  /\ taken' = taken \cup {NameOf[a]}
  /\ Serve(a)
  /\ UNCHANGED <<upstream, release, warned, budget>>

\* Download, upload or byte count fails for good, or Gitea's storage is full; nothing stays.
UploadFails(a) ==
  /\ Uploading(a)
  /\ Suffer("failure") \/ ((\A i \in Ids : ~Free(i)) /\ UNCHANGED budget)
  /\ Forget(a) /\ warned' = TRUE
  /\ Serve(a)
  /\ UNCHANGED <<upstream, gitea, seen, taken>>

\* Gitea stores the attachment but its answer is lost: the next attempt of the same upload
\* follows.  With UploadFails next, also a short upload that could not be deleted.
UploadLost(a) ==
  /\ Uploading(a) /\ Suffer("lost")
  /\ \E i \in Ids : Free(i) /\ Create(i, a)
  /\ UNCHANGED <<upstream, release, pc, listings, seen, todo, ready, assetRun>>

-----------------------------------------------------------------------------
(* The end of a release's turn, of the run, and what happens around it.    *)

\* Defect: latest_assets_ready becomes true with warnings.
ReadyDespiteWarnings == TRUE
ReadyAfter == ~warned

\* Defect: the marker keeps its old assets.
MarkerKept == release[TagOf[current]].marker
FinalMarker == mirrored

\* The final marker is written unless it is already there.
FinishRelease ==
  /\ pc = "assets" /\ stale = {} /\ queue = {} /\ pc' = "visit"
  /\ release' = [release EXCEPT ![TagOf[current]].marker = FinalMarker]
  /\ ready' = IF current = source.latest THEN ReadyAfter ELSE ready
  /\ todo' = todo \ {current}
  /\ current' = "none" /\ mirrored' = NoMarker /\ taken' = {} /\ warned' = FALSE
  /\ UNCHANGED <<upstream, attachment, listings, seen, stale, queue, budget>>

EndOfRun ==
  /\ pc' = "idle" /\ source' = NoSource /\ known' = NoReleases /\ seen' = NoAttachments
  /\ todo' = {} /\ ready' = FALSE
  /\ current' = "none" /\ mirrored' = NoMarker /\ taken' = {}
  /\ stale' = {} /\ queue' = {} /\ warned' = FALSE

FinishRun ==
  /\ pc = "visit" /\ todo = {} /\ EndOfRun
  /\ UNCHANGED <<upstream, gitea, budget>>

\* create_release is refused: somebody used the tag since the listing.
CreateRefused(r) ==
  /\ Turn(r) /\ known[TagOf[r]].owner = "none" /\ release[TagOf[r]].owner # "none"
  /\ EndOfRun
  /\ UNCHANGED <<upstream, gitea, budget>>

\* Between two turns a listing, a creation or an update of a release fails, the sync is
\* cancelled, or the process dies.
Abort ==
  /\ pc = "visit" /\ Suffer("abort") /\ EndOfRun
  /\ UNCHANGED <<upstream, gitea>>

\* The same inside a turn: what was uploaded since its start is in no marker.
CutShort ==
  /\ pc = "assets" /\ Suffer("cut") /\ EndOfRun
  /\ UNCHANGED <<upstream, gitea>>

\* The PATCH of the final marker is answered with an error, or the marker is over Gitea's limit:
\* GiteaError ends the run after the uploads, and they are in no marker either.  (A PATCH that was
\* applied and whose answer is lost is FinishRelease, then Abort.)
MarkerRefused ==
  /\ pc = "assets" /\ stale = {} /\ queue = {} /\ Suffer("refusal") /\ EndOfRun
  /\ UNCHANGED <<upstream, gitea>>

\* The source's owner publishes or removes a release, adds, removes or replaces an asset, or
\* has another latest release; the settings change with a restart.
SourceChanges ==
  /\ Spend("change")
  /\ \/ /\ \E r \in Releases : published' \in {published \cup {r}, published \ {r}}
        /\ latest' \in Releases \cup {"none"}
        /\ UNCHANGED <<listed, mode>>
     \/ /\ \E a, b \in Assets : listed' \in {listed \cup {a}, listed \ {a}, (listed \ {a}) \cup {b}}
        /\ UNCHANGED <<published, latest, mode>>
     \/ pc = "idle" /\ mode' \in Modes /\ UNCHANGED <<published, listed, latest>>
  /\ Sane(published', listed', latest')
  /\ UNCHANGED <<gitea, pc, listings, seen, todo, ready, assetRun>>

\* A user of Gitea creates a release, adds an attachment, renames or deletes one.
UserEdits ==
  /\ Spend("edit")
  /\ \/ \E t \in Tags : /\ release[t].owner = "none"
                        /\ release' = [release EXCEPT ![t].owner = "user"]
                        /\ UNCHANGED attachment
     \/ \E i \in Ids, t \in Tags, n \in Names :
          /\ release[t].owner # "none" /\ Free(i)
          /\ attachment' = [attachment EXCEPT ![i] =
               [of |-> "user", tag |-> t, name |-> n, there |-> TRUE]]
          /\ UNCHANGED release
     \/ \E i \in Ids : /\ ~Gone(i)
                       /\ \/ attachment' = [attachment EXCEPT ![i].there = FALSE]
                          \/ \E n \in Names : attachment' = [attachment EXCEPT ![i].name = n]
                       /\ UNCHANGED release
  /\ UNCHANGED <<upstream, pc, listings, seen, todo, ready, assetRun>>

Step ==
  \/ StartRun \/ FinishRelease \/ FinishRun
  \/ \E r \in Releases : VisitForeign(r) \/ VisitRelease(r) \/ CreateRefused(r)
  \/ \E a \in Assets : \/ ForgetStale(a) \/ DeleteStale(a) \/ KeepAsset(a) \/ RefuseAsset(a)
                       \/ UploadSucceeds(a) \/ UploadFails(a) \/ UploadLost(a)

Next == Step \/ Abort \/ CutShort \/ MarkerRefused \/ SourceChanges \/ UserEdits

Spec == Init /\ [][Next]_vars

\* The scheduler starts runs for ever and every request returns; nothing else is owed.
FairSpec == Spec /\ WF_vars(Step)

-----------------------------------------------------------------------------
(* Properties.                                                             *)

GiteaRelease == [owner : Releases \cup {"none", "user"}, marker : [Assets -> Ids \cup {NoId}]]
Attachment == [of : Assets \cup {"none", "user"}, tag : Tags \cup {"none"},
               name : Names \cup {"none"}, there : BOOLEAN]

\* Every variable has its type.
TypeOK ==
  /\ published \subseteq Releases /\ listed \subseteq Assets
  /\ latest \in Releases \cup {"none"} /\ mode \in Modes
  /\ release \in [Tags -> GiteaRelease] /\ attachment \in [Ids -> Attachment]
  /\ pc \in {"idle", "visit", "assets"}
  /\ source \in [releases : SUBSET Releases, assets : SUBSET Assets, latest : Releases \cup {"none"}]
  /\ known \in [Tags -> GiteaRelease] /\ seen \in [Ids -> Attachment]
  /\ todo \subseteq Releases /\ ready \in BOOLEAN /\ current \in Releases \cup {"none"}
  /\ mirrored \in [Assets -> Ids \cup {NoId}] /\ taken \subseteq Names \cup {"none"}
  /\ stale \subseteq Assets /\ queue \subseteq Assets /\ warned \in BOOLEAN
  /\ budget \in [Chances -> Nat]

\* Records(m, r): the marker m of release r names only attachments that GitHarbor uploaded
\* for those very assets of r.
Records(m, r) == \A a \in Assets :
  m[a] # NoId => attachment[m[a]].of = a /\ ReleaseOf[a] = r

\* Ownership is never claimed of a foreign attachment, or of one that mirrors another asset:
\* what the next runs may delete or rename is GitHarbor's own, through crashes, lost answers,
\* stale listings and replaced assets.
MarkersAreHonest ==
  /\ \A t \in Tags : release[t].owner \in Releases => Records(release[t].marker, release[t].owner)
  /\ pc = "assets" => Records(mirrored, current)

\* A step of the mirror (the source and the listings stay, somebody of Gitea would spend an
\* edit) leaves a user's releases and attachments alone.  It says nothing of a release that
\* GitHarbor manages for a source release which was since published anew under another id.
ForeignUntouched == [][budget'["edit"] = budget["edit"] =>
  /\ \A t \in Tags : release[t].owner = "user" => release'[t] = release[t]
  /\ \A i \in Ids : attachment[i].of = "user" => attachment'[i] = attachment[i]]_vars

\* In LATEST mode an old asset is deleted only after the marker of the latest release records
\* every asset that release had in this run's listing: a failed upload keeps the fallback.
FallbackKept == [][\A i \in Ids :
  /\ attachment[i].there /\ ~attachment'[i].there /\ budget'["edit"] = budget["edit"]
  /\ source.latest # "none" /\ current # source.latest
  => \A a \in source.assets : ReleaseOf[a] = source.latest =>
       release[TagOf[source.latest]].marker[a] # NoId]_vars

\* A turn that warns of nothing leaves a marker with exactly the assets that should be there,
\* each with an attachment that the run has seen, whatever was replaced, renamed or removed.
QuietTurnsAreComplete == [][pc = "assets" /\ pc' = "visit" /\ ~warned =>
  LET marker == release'[TagOf[current]].marker
  IN  \A a \in Assets : /\ marker[a] # NoId <=> a \in Wanted(current)
                        /\ marker[a] # NoId => seen[marker[a]].there]_vars

\* Nobody edited in Gitea, no answer was lost, and every turn that began got to its final marker,
\* which was accepted: no crash or cancellation came in between, no PATCH of a final marker was
\* answered with an error, no marker was too long.  In each of these the code does lose
\* attachments: AssetsConverge is violated by "cut" and by "refusal".
Undisturbed ==
  /\ budget["edit"] = Budget["edit"]
  /\ budget["fault"] = Budget["fault"] \/ Faults \subseteq {"failure", "abort"}

\* While turns get to their final marker no attachment is left without a record: each that
\* GitHarbor uploaded is in the marker of its release or in the hands of the run, through failed
\* uploads and deletions, runs that end between two turns, replaced assets, changed settings
\* and releases that are held back or disappear.
NothingIsOrphaned == Undisturbed => \A i \in Ids : \A a \in Assets :
  attachment[i].of = a /\ attachment[i].there =>
    LET g == release[TagOf[ReleaseOf[a]]]
    IN  g.owner = ReleaseOf[a] /\ (g.marker[a] = i \/ (current = ReleaseOf[a] /\ mirrored[a] = i))

Recorded(a) ==
  LET g == release[TagOf[ReleaseOf[a]]]
  IN  g.owner = ReleaseOf[a] /\ g.marker[a] # NoId /\ ~Gone(g.marker[a])

Eligible(a) ==
  /\ a \in listed \ Unfit /\ ReleaseOf[a] \in published
  /\ mode = "all" \/ (mode = "latest" /\ latest = ReleaseOf[a])

\* Once the source and the settings rest and faults stop, every eligible asset is in Gitea and
\* recorded, whatever was replaced, half removed or skipped before.
AssetsConverge == <>[](\A a \in Assets : Eligible(a) => Recorded(a))

\* In LATEST mode, and once the latest release is complete, the others lose their assets.
OldAssetsGo == <>[](mode = "latest" /\ (\A a \in listed : ReleaseOf[a] = latest => a \notin Unfit)
  => \A a \in Assets : ReleaseOf[a] \in published \ {latest} => ~Recorded(a))
=============================================================================
