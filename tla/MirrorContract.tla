--------------------------- MODULE MirrorContract ---------------------------
(***************************************************************************)
(* What the Git mirror promises, without its cache, commands, retries and  *)
(* reserved names: a run undertakes what the source offers at one instant, *)
(* and from then on only delivers that, LFS objects first.  It may stop at *)
(* any point with a part delivered.  GitMirror implements this             *)
(* specification: see Contract there.                                      *)
(***************************************************************************)
CONSTANTS
  Names, Commits, NoRef, Large,   \* refs, commits, and the commits that need an LFS object
  LfsEnabled,
  WikiHead, DestHead,             \* default branches of a wiki at the source and in Gitea
  Nothing                         \* no undertaking

VARIABLES
  kind,             \* "repository" or "wiki"
  offer,            \* the refs the source has to be mirrored now
  undertaken,       \* the offer that the run in progress has read, or Nothing
  dest, destLfs     \* the refs and LFS objects of the destination

vars == <<kind, offer, undertaken, dest, destLfs>>

Offers == [Names -> Commits \cup {NoRef}]
Empty == [n \in Names |-> NoRef]

Init ==
  /\ kind \in {"repository", "wiki"}
  /\ offer = Empty /\ undertaken = Nothing
  /\ dest = Empty /\ destLfs = {}

\* A ref becomes what the undertaking says of it, NoRef included.  The default branch of a wiki
\* may have another name in Gitea.
Due(n) == IF kind = "wiki" /\ n = DestHead THEN undertaken[WikiHead] ELSE undertaken[n]

HasLfs == kind = "repository" /\ LfsEnabled
LfsObjects == {undertaken[n] : n \in Names} \cap Large

Undertake ==
  /\ undertaken = Nothing /\ undertaken' = offer
  /\ UNCHANGED <<kind, offer, dest, destLfs>>

\* Any step of a run may be its last one.
MayEnd == undertaken' \in {undertaken, Nothing} /\ UNCHANGED <<kind, offer>>

UploadLfs ==
  /\ undertaken # Nothing /\ HasLfs
  /\ destLfs \subseteq destLfs' /\ destLfs' \subseteq destLfs \cup LfsObjects
  /\ MayEnd /\ UNCHANGED dest

\* A push delivers some of what is due and leaves the other refs alone.  That it delivers all of
\* it in the end is a matter of liveness, and of the detailed specification.
Deliver ==
  /\ undertaken # Nothing /\ (HasLfs => LfsObjects \subseteq destLfs)
  /\ dest' \in Offers /\ \A n \in Names : dest'[n] \in {dest[n], Due(n)}
  /\ MayEnd /\ UNCHANGED destLfs

GiveUp == undertaken' = Nothing /\ UNCHANGED <<kind, offer, dest, destLfs>>

\* The source changes whenever it likes, the offer also with the settings.
OfferChanges == offer' \in Offers /\ UNCHANGED <<kind, undertaken, dest, destLfs>>

\* Somebody creates the destination anew between two runs.
Recreate ==
  /\ undertaken = Nothing /\ dest' = Empty /\ destLfs' = {}
  /\ UNCHANGED <<kind, offer, undertaken>>

Next == Undertake \/ UploadLfs \/ Deliver \/ GiveUp \/ OfferChanges \/ Recreate

Spec == Init /\ [][Next]_vars

\* No ref is ever there without the LFS object it needs.
DeliveredIsWhole == HasLfs => \A n \in Names : dest[n] \in Large => dest[n] \in destLfs
=============================================================================
