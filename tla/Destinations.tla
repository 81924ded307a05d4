----------------------------- MODULE Destinations -----------------------------
(***************************************************************************)
(* Where each source is mirrored: the names the reconciler assigns, what   *)
(* sync_repository asks for, and ensure_repository of the Gitea client,    *)
(* request by request.                                                     *)
(*                                                                         *)
(* All rows are in one namespace; those of different ones never meet.      *)
(* Transfers of different rows interleave, those of one row do not         *)
(* (SyncService!OneTransferPerRepository).                                 *)
(***************************************************************************)
EXTENDS Naturals

CONSTANTS
  Starred,               \* sources named owner--name, with a fallback of their own
  Fixed,                 \* owned and external sources, which have one name
  Clean,                 \* names made from an owner and a name
  Budget                 \* bounds: faults, changes at the sources, edits in Gitea

Sources == Starred \cup Fixed
Names == Clean \cup (Clean \X Starred)
NoName == <<>>
Owners == Sources \cup {"nobody", "user"}
Chances == {"fault", "change", "edit"}

ASSUME NamesAssumption ==
  /\ Starred \cap Fixed = {} /\ Clean \cap (Clean \X Starred) = {}
  /\ NoName \notin Names /\ {"nobody", "user"} \cap Sources = {}
ASSUME BoundsAssumption == Budget \in [Chances -> Nat]

VARIABLES
  listed, upstream,      \* what the providers list, and the clean name of each source
  row,                   \* destination_name of each row of the database
  repo,                  \* Gitea: whose marker the repository with a name carries
  pc, name, fallback,    \* each transfer: its next request, name and fallback_name
  budget

transfers == <<pc, name, fallback>>
vars == <<listed, upstream, row, repo, transfers, budget>>

Known(r) == row[r] # NoName
Preferred(r) == upstream[r]
\* Defect: the parts of the name in the wrong order.
CollisionSwapped(r) == <<r, upstream[r]>>
Collision(r) == <<upstream[r], r>>
Used(n) == \E r \in Sources : row[r] = n

Init ==
  /\ listed \in SUBSET Sources /\ upstream \in [Sources -> Clean]
  /\ row = [r \in Sources |-> NoName]
  /\ repo = [n \in Names |-> "nobody"]
  /\ pc = [r \in Sources |-> "idle"]
  /\ name = row /\ fallback = row
  /\ budget = Budget

Spend(chance) == budget[chance] > 0 /\ budget' = [budget EXCEPT ![chance] = @ - 1]

-----------------------------------------------------------------------------
(* The reconciler names the rows of new sources.                           *)

New(kind) == {r \in kind \cap listed : ~Known(r)}

\* Of the new stars that prefer one name, the first gets it if no row uses it.
ReconcileStarred ==
  /\ \E first \in SUBSET {r \in New(Starred) : ~Used(Preferred(r))} :
       /\ \A r, q \in first : Preferred(r) = Preferred(q) => r = q
       /\ \A r \in New(Starred) : ~Used(Preferred(r)) => \E q \in first : Preferred(q) = Preferred(r)
       /\ row' = [r \in Sources |-> IF r \in first THEN Preferred(r)
                                    ELSE IF r \in New(Starred) THEN Collision(r) ELSE row[r]]
  /\ UNCHANGED <<listed, upstream, repo, transfers, budget>>

\* The others have no second name: one that is used fails the whole listing.
ReconcileFixed ==
  /\ \A r \in New(Fixed) :
       ~Used(Preferred(r)) /\ \A q \in New(Fixed) : Preferred(q) = Preferred(r) => q = r
  /\ row' = [r \in Sources |-> IF r \in New(Fixed) THEN Preferred(r) ELSE row[r]]
  /\ UNCHANGED <<listed, upstream, repo, transfers, budget>>

-----------------------------------------------------------------------------
(* A transfer looks for its destination.                                   *)

Goto(r, request) == pc' = [pc EXCEPT ![r] = request]
End(r) ==
  /\ Goto(r, "idle")
  /\ name' = [name EXCEPT ![r] = NoName] /\ fallback' = [fallback EXCEPT ![r] = NoName]

\* Defect: the name in the database is all that is ever tried.
KeepsAlways(r) == TRUE
\* A destination is kept over renames of its source; otherwise the clean name is tried first.
Keeps(r) == r \in Fixed \/ row[r] \notin {Preferred(r), Collision(r)}

Begin(r) ==
  /\ pc[r] = "idle" /\ Known(r)
  /\ Goto(r, "request")
  /\ name' = [name EXCEPT ![r] = IF Keeps(r) THEN row[r] ELSE Preferred(r)]
  /\ fallback' = [fallback EXCEPT ![r] = IF Keeps(r) THEN NoName ELSE Collision(r)]
  /\ UNCHANGED <<listed, upstream, row, repo, budget>>

\* Defects: any managed repository will do; any repository will do.
CarriesAnyMarker(n, r) == repo[n] \in Sources
CarriesNothing(n, r) == repo[n] # "nobody"
CarriesMarker(n, r) == repo[n] = r

\* Defect: a missing repository is created before its fallback is looked for.
LooksFurtherNever(r) == FALSE
LooksFurther(r) == fallback[r] # NoName

\* GET of the name.  A repository of this source has its description refreshed.
Request(r) ==
  /\ pc[r] = "request"
  /\ \/ CarriesMarker(name[r], r) /\ Goto(r, "record") /\ UNCHANGED <<name, fallback>>
     \/ /\ repo[name[r]] = "nobody"
        /\ Goto(r, IF LooksFurther(r) THEN "rename?" ELSE "create")
        /\ UNCHANGED <<name, fallback>>
     \/ /\ repo[name[r]] # "nobody" /\ ~CarriesMarker(name[r], r)
        /\ IF fallback[r] = NoName THEN End(r)
           ELSE /\ Goto(r, "other") /\ name' = [name EXCEPT ![r] = fallback[r]]
                /\ UNCHANGED fallback
  /\ UNCHANGED <<listed, upstream, row, repo, budget>>

\* GET of the fallback, for a name that is free: rename it, or there is none.
RequestOld(r) ==
  /\ pc[r] = "rename?"
  /\ \/ repo[fallback[r]] = "nobody" /\ Goto(r, "create") /\ UNCHANGED <<name, fallback>>
     \/ CarriesMarker(fallback[r], r) /\ Goto(r, "rename") /\ UNCHANGED <<name, fallback>>
     \/ repo[fallback[r]] # "nobody" /\ ~CarriesMarker(fallback[r], r) /\ End(r)
  /\ UNCHANGED <<listed, upstream, row, repo, budget>>

\* GET of the fallback, for a name that somebody else has.
RequestOther(r) ==
  /\ pc[r] = "other"
  /\ \/ repo[name[r]] = "nobody" /\ Goto(r, "create") /\ UNCHANGED <<name, fallback>>
     \/ CarriesMarker(name[r], r) /\ Goto(r, "record") /\ UNCHANGED <<name, fallback>>
     \/ repo[name[r]] # "nobody" /\ ~CarriesMarker(name[r], r) /\ End(r)
  /\ UNCHANGED <<listed, upstream, row, repo, budget>>

\* POST of a repository, refused if the name is taken by now.
Created(r) == repo[name[r]] = "nobody" /\ repo' = [repo EXCEPT ![name[r]] = r]
Create(r) ==
  /\ pc[r] = "create"
  /\ \/ Created(r) /\ Goto(r, "record") /\ UNCHANGED <<name, fallback>>
     \/ repo[name[r]] # "nobody" /\ End(r) /\ UNCHANGED repo
  /\ UNCHANGED <<listed, upstream, row, budget>>

\* PATCH of the name and the description, hence of the marker.
Renamed(r) ==
  /\ repo[name[r]] = "nobody" /\ repo[fallback[r]] # "nobody"
  /\ repo' = [repo EXCEPT ![fallback[r]] = "nobody", ![name[r]] = r]
Rename(r) ==
  /\ pc[r] = "rename"
  /\ \/ Renamed(r) /\ Goto(r, "record") /\ UNCHANGED <<name, fallback>>
     \/ /\ repo[name[r]] # "nobody" \/ repo[fallback[r]] = "nobody"
        /\ End(r) /\ UNCHANGED repo
  /\ UNCHANGED <<listed, upstream, row, budget>>

\* The database accepts a destination for one row only.
Record(r) ==
  /\ pc[r] = "record"
  /\ \/ /\ \A q \in Sources \ {r} : row[q] # name[r]
        /\ row' = [row EXCEPT ![r] = name[r]]
        /\ Goto(r, "push") /\ UNCHANGED <<name, fallback>>
     \/ (\E q \in Sources \ {r} : row[q] = name[r]) /\ End(r) /\ UNCHANGED row
  /\ UNCHANGED <<listed, upstream, repo, budget>>

\* Everything that is written to the destination.
Push(r) == pc[r] = "push" /\ End(r) /\ UNCHANGED <<listed, upstream, row, repo, budget>>

\* A request fails, with or without its effect, or the sync is cancelled or dies.
Interrupt(r) ==
  /\ pc[r] # "idle" /\ Spend("fault")
  /\ \/ pc[r] = "create" /\ Created(r)
     \/ pc[r] = "rename" /\ Renamed(r)
     \/ UNCHANGED repo
  /\ End(r) /\ UNCHANGED <<listed, upstream, row>>

-----------------------------------------------------------------------------
(* The world.                                                              *)

\* Repositories a transfer has verified and is about to use.
InHand == {name[r] : r \in {q \in Sources : pc[q] \in {"record", "push"}}}
     \cup {fallback[r] : r \in {q \in Sources : pc[q] = "rename"}}

\* A user creates or deletes a repository or removes its marker, or an administrator purges
\* the organization while nothing is synchronized.
UserEdits ==
  /\ Spend("edit")
  /\ \/ \E n \in Names \ InHand, owner \in {"nobody", "user"} :
          repo' = [repo EXCEPT ![n] = owner]
     \/ (\A r \in Sources : pc[r] = "idle") /\ repo' = [n \in Names |-> "nobody"]
  /\ UNCHANGED <<listed, upstream, row, transfers>>

\* A source is renamed or transferred, appears or disappears.
SourceChanges ==
  /\ Spend("change")
  /\ \/ \E r \in Sources, n \in Clean : upstream' = [upstream EXCEPT ![r] = n] /\ UNCHANGED listed
     \/ \E r \in Sources : listed' = (listed \ {r}) \cup ({r} \ listed) /\ UNCHANGED upstream
  /\ UNCHANGED <<row, repo, transfers>>

-----------------------------------------------------------------------------
Work(r) == Request(r) \/ RequestOld(r) \/ RequestOther(r) \/ Create(r) \/ Rename(r) \/ Record(r) \/ Push(r)

Next ==
  \/ ReconcileStarred \/ ReconcileFixed \/ UserEdits \/ SourceChanges
  \/ \E r \in Sources : Begin(r) \/ Work(r) \/ Interrupt(r)

Spec == Init /\ [][Next]_vars

\* Global runs go on for ever: they list, and transfer every row that is listed.
Fairness ==
  /\ WF_vars(ReconcileStarred) /\ WF_vars(ReconcileFixed)
  /\ \A r \in Sources : WF_vars(Work(r)) /\ WF_vars(r \in listed /\ Begin(r))
FairSpec == Spec /\ Fairness

-----------------------------------------------------------------------------
(* Properties.                                                             *)

\* Every variable has its type.
TypeOK ==
  /\ listed \subseteq Sources /\ upstream \in [Sources -> Clean]
  /\ row \in [Sources -> Names \cup {NoName}] /\ repo \in [Names -> Owners]
  /\ pc \in [Sources -> {"idle", "request", "rename?", "other", "create", "rename", "record", "push"}]
  /\ name \in [Sources -> Names \cup {NoName}] /\ fallback \in [Sources -> Names \cup {NoName}]
  /\ budget \in [Chances -> Nat]

\* A transfer writes only to a repository that carries the marker of its source and that the
\* database has recorded for it and for no other, whoever renames and creates beside it.
PushesGoHome == \A r \in Sources : pc[r] = "push" =>
  /\ repo[name[r]] = r
  /\ row[r] = name[r] /\ \A q \in Sources \ {r} : row[q] # name[r]

\* No step of the mirror takes a repository from its owner or replaces one: a repository of a
\* user stays as it is, and a source's is at most renamed by its own transfer.
NobodyIsRobbed == [][budget'["edit"] = budget["edit"] => \A n \in Names :
  repo[n] # "nobody" /\ repo'[n] # repo[n] =>
    repo[n] \in Sources /\ repo'[n] = "nobody" /\ \E m \in Names : repo'[m] = repo[n]]_vars

\* While nothing changes at the sources (none is renamed, transferred, added or removed) no source
\* has two repositories: lost answers, crashes, collisions and edits never make the mirror start
\* a second one.
OneRepositoryEach == budget["change"] = Budget["change"] =>
  \A r \in Sources : \A m, n \in Names : repo[m] = r /\ repo[n] = r => m = n

Settled(r) == Known(r) => repo[row[r]] = r

\* No row is left without transfers, and nothing of a user is where a fallback should be.
Clear == \A r \in Sources : Known(r) =>
  /\ r \in listed
  /\ r \in Fixed => Settled(r)
  /\ r \in Starred => row[r] \in {Preferred(r), Collision(r)} /\ repo[Collision(r)] # "user"

\* However the names of stars collide with each other, with foreign repositories and with what
\* interrupted transfers left, all find a destination if all rows are synchronized.
StarsFindHomes == <>[]Clear => \A r \in Starred : <>[]Settled(r)
===============================================================================
