-------------------------- MODULE DestinationsProofs --------------------------
(***************************************************************************)
(* Proofs about Destinations, for any sources, names, faults and edits.    *)
(***************************************************************************)
EXTENDS Destinations, TLAPS

\* The names of a source are names.
LEMMA NamesAreNames ==
  ASSUME TypeOK, NEW r \in Sources
  PROVE  Preferred(r) \in Clean /\ Preferred(r) \in Names /\ (r \in Starred => Collision(r) \in Names)
BY DEF TypeOK, Preferred, Collision, Names

\* A fallback exists for stars only.
LEMMA KeepsOrStar ==
  ASSUME NEW r \in Sources PROVE Keeps(r) \/ r \in Starred
BY DEF Keeps, Sources

\* A transfer works on a name, and on a fallback where it needs one.
Working ==
  /\ \A r \in Sources : pc[r] # "idle" => name[r] \in Names
  /\ \A r \in Sources : pc[r] \in {"rename?", "rename"} => fallback[r] \in Names

Typed == TypeOK /\ Working

\* The end of a transfer keeps types.
LEMMA EndIsTyped ==
  ASSUME Typed, NEW r \in Sources, End(r)
  PROVE  /\ pc' \in [Sources -> {"idle", "request", "rename?", "other", "create", "rename", "record", "push"}]
         /\ name' \in [Sources -> Names \cup {NoName}] /\ fallback' \in [Sources -> Names \cup {NoName}]
         /\ Working'
<1> USE DEF Typed, TypeOK, Working, End, Goto
<1>1. pc' \in [Sources -> {"idle", "request", "rename?", "other", "create", "rename", "record", "push"}]
  OBVIOUS
<1>2. name' \in [Sources -> Names \cup {NoName}] /\ fallback' \in [Sources -> Names \cup {NoName}]
  OBVIOUS
<1>3. Working'
  OBVIOUS
<1>4. QED
  BY <1>1, <1>2, <1>3

\* So does a move to another request.
LEMMA GotoIsTyped ==
  ASSUME Typed, NEW r \in Sources, pc[r] # "idle",
         NEW request \in {"request", "rename?", "other", "create", "rename", "record", "push"},
         Goto(r, request), UNCHANGED <<name, fallback>>,
         request \in {"rename?", "rename"} => fallback[r] \in Names
  PROVE  /\ pc' \in [Sources -> {"idle", "request", "rename?", "other", "create", "rename", "record", "push"}]
         /\ name' \in [Sources -> Names \cup {NoName}] /\ fallback' \in [Sources -> Names \cup {NoName}]
         /\ Working'
BY DEF Typed, TypeOK, Working, Goto

\* What creating and renaming do to the repositories keeps their types.
LEMMA ReposAreTyped ==
  ASSUME Typed, NEW r \in Sources, pc[r] # "idle"
  PROVE  /\ Created(r) => repo' \in [Names -> Owners]
         /\ pc[r] = "rename" /\ Renamed(r) => repo' \in [Names -> Owners]
<1>1. name[r] \in Names /\ (pc[r] = "rename" => fallback[r] \in Names)
  BY DEF Typed, Working
<1>2. QED
  BY <1>1 DEF Typed, TypeOK, Created, Renamed, Owners

\* Every action keeps the types.
LEMMA TypesLast == Typed /\ [Next]_vars => Typed'
<1> SUFFICES ASSUME Typed, [Next]_vars PROVE Typed'
  OBVIOUS
<1> DEFINE Moved == /\ pc' \in [Sources -> {"idle", "request", "rename?", "other", "create",
                                            "rename", "record", "push"}]
                    /\ name' \in [Sources -> Names \cup {NoName}]
                    /\ fallback' \in [Sources -> Names \cup {NoName}]
                    /\ Working'
           Rest == /\ listed' \subseteq Sources /\ upstream' \in [Sources -> Clean]
                   /\ row' \in [Sources -> Names \cup {NoName}] /\ repo' \in [Names -> Owners]
                   /\ budget' \in [Chances -> Nat]
<1>1. Moved /\ Rest => Typed'
  BY DEF Typed, TypeOK
<1>2. ASSUME UNCHANGED transfers PROVE Moved
  BY <1>2 DEF transfers, Typed, TypeOK, Working
<1>3. ASSUME NEW chance \in Chances, Spend(chance) PROVE budget' \in [Chances -> Nat]
  BY <1>3 DEF Spend, Typed, TypeOK
<1>4. ASSUME NEW r \in Sources, End(r) PROVE Moved
  BY <1>4, EndIsTyped
<1>5. CASE UNCHANGED vars
  BY <1>1, <1>2, <1>5 DEF vars, Typed, TypeOK
<1>6. CASE ReconcileStarred
  <2>1. \A r \in New(Starred) : Preferred(r) \in Names /\ Collision(r) \in Names
    BY NamesAreNames DEF New, Typed, Sources
  <2>2. PICK first \in SUBSET New(Starred) :
          row' = [r \in Sources |-> IF r \in first THEN Preferred(r)
                                    ELSE IF r \in New(Starred) THEN Collision(r) ELSE row[r]]
    BY <1>6 DEF ReconcileStarred
  <2>3. row' \in [Sources -> Names \cup {NoName}]
    BY <2>1, <2>2 DEF Typed, TypeOK
  <2>4. QED
    BY <1>1, <1>2, <1>6, <2>3 DEF ReconcileStarred, Typed, TypeOK
<1>7. CASE ReconcileFixed
  <2>1. \A r \in New(Fixed) : Preferred(r) \in Names
    BY NamesAreNames DEF New, Typed, Sources
  <2>2. row' \in [Sources -> Names \cup {NoName}]
    BY <1>7, <2>1 DEF ReconcileFixed, Typed, TypeOK
  <2>3. QED
    BY <1>1, <1>2, <1>7, <2>2 DEF ReconcileFixed, Typed, TypeOK
<1>8. CASE UserEdits
  <2>1. repo' \in [Names -> Owners]
    BY <1>8 DEF UserEdits, Owners, Typed, TypeOK
  <2>2. budget' \in [Chances -> Nat]
    BY <1>3, <1>8 DEF UserEdits, Chances
  <2>3. QED
    BY <1>1, <1>2, <1>8, <2>1, <2>2 DEF UserEdits, Typed, TypeOK
<1>9. CASE SourceChanges
  <2>1. listed' \subseteq Sources /\ upstream' \in [Sources -> Clean]
    BY <1>9 DEF SourceChanges, Typed, TypeOK
  <2>2. budget' \in [Chances -> Nat]
    BY <1>3, <1>9 DEF SourceChanges, Chances
  <2>3. QED
    BY <1>1, <1>2, <1>9, <2>1, <2>2 DEF SourceChanges, Typed, TypeOK
<1>10. ASSUME NEW r \in Sources, Begin(r) PROVE Typed'
  <2>1. IF Keeps(r) THEN row[r] \in Names ELSE Preferred(r) \in Names /\ Collision(r) \in Names
    BY <1>10, NamesAreNames, KeepsOrStar DEF Begin, Known, Typed, TypeOK
  <2>2. Moved
    BY <1>10, <2>1 DEF Begin, Goto, Typed, TypeOK, Working
  <2>3. QED
    BY <1>1, <1>10, <2>2 DEF Begin, Typed, TypeOK
<1>11. ASSUME NEW r \in Sources, Request(r) PROVE Typed'
  <2>1. pc[r] # "idle"
    BY <1>11 DEF Request
  <2>2. ASSUME Goto(r, "record"), UNCHANGED <<name, fallback>> PROVE Moved
    BY <2>1, <2>2, GotoIsTyped
  <2>3. ASSUME Goto(r, "create"), UNCHANGED <<name, fallback>> PROVE Moved
    BY <2>1, <2>3, GotoIsTyped
  <2>4. ASSUME Goto(r, "rename?"), fallback[r] # NoName, UNCHANGED <<name, fallback>> PROVE Moved
    <3>1. fallback[r] \in Names
      BY <2>4 DEF Typed, TypeOK
    <3>2. QED
      BY <2>1, <2>4, <3>1, GotoIsTyped
  <2>5. ASSUME Goto(r, "other"), name' = [name EXCEPT ![r] = fallback[r]], UNCHANGED fallback,
               fallback[r] # NoName
        PROVE  Moved
    <3>1. fallback[r] \in Names
      BY <2>5 DEF Typed, TypeOK
    <3>2. QED
      BY <2>5, <3>1 DEF Goto, Typed, TypeOK, Working
  <2>6. Moved
    BY <1>4, <1>11, <2>2, <2>3, <2>4, <2>5 DEF Request, LooksFurther
  <2>7. QED
    BY <1>1, <1>11, <2>6 DEF Request, Typed, TypeOK
<1>12. ASSUME NEW r \in Sources, RequestOld(r) PROVE Typed'
  <2>1. fallback[r] \in Names
    BY <1>12 DEF RequestOld, Typed, Working
  <2>2. Moved
    BY <1>4, <1>12, <2>1, GotoIsTyped DEF RequestOld
  <2>3. QED
    BY <1>1, <1>12, <2>2 DEF RequestOld, Typed, TypeOK
<1>13. ASSUME NEW r \in Sources, RequestOther(r) PROVE Typed'
  <2>1. Moved
    BY <1>4, <1>13, GotoIsTyped DEF RequestOther
  <2>2. QED
    BY <1>1, <1>13, <2>1 DEF RequestOther, Typed, TypeOK
<1>14. ASSUME NEW r \in Sources, Create(r) PROVE Typed'
  <2>1. Moved
    BY <1>4, <1>14, GotoIsTyped DEF Create
  <2>2. repo' \in [Names -> Owners]
    BY <1>14, ReposAreTyped DEF Create, Typed, TypeOK
  <2>3. QED
    BY <1>1, <1>14, <2>1, <2>2 DEF Create, Typed, TypeOK
<1>15. ASSUME NEW r \in Sources, Rename(r) PROVE Typed'
  <2>1. Moved
    BY <1>4, <1>15, GotoIsTyped DEF Rename
  <2>2. repo' \in [Names -> Owners]
    BY <1>15, ReposAreTyped DEF Rename, Typed, TypeOK
  <2>3. QED
    BY <1>1, <1>15, <2>1, <2>2 DEF Rename, Typed, TypeOK
<1>16. ASSUME NEW r \in Sources, Record(r) PROVE Typed'
  <2>1. Moved
    BY <1>4, <1>16, GotoIsTyped DEF Record
  <2>2. row' \in [Sources -> Names \cup {NoName}]
    BY <1>16 DEF Record, Typed, TypeOK, Working
  <2>3. QED
    BY <1>1, <1>16, <2>1, <2>2 DEF Record, Typed, TypeOK
<1>17. ASSUME NEW r \in Sources, Push(r) PROVE Typed'
  BY <1>1, <1>4, <1>17 DEF Push, Typed, TypeOK
<1>18. ASSUME NEW r \in Sources, Interrupt(r) PROVE Typed'
  <2>1. repo' \in [Names -> Owners]
    BY <1>18, ReposAreTyped DEF Interrupt, Typed, TypeOK
  <2>2. budget' \in [Chances -> Nat]
    BY <1>3, <1>18 DEF Interrupt, Chances
  <2>3. QED
    BY <1>1, <1>4, <1>18, <2>1, <2>2 DEF Interrupt, Typed, TypeOK
<1>19. QED
  BY <1>5, <1>6, <1>7, <1>8, <1>9, <1>10, <1>11, <1>12, <1>13, <1>14, <1>15, <1>16, <1>17, <1>18
     DEF Next, Work

\* The initial state is typed.
LEMMA TypesStart == Init => Typed
BY BoundsAssumption DEF Init, Typed, TypeOK, Working, Owners

\* The types of the destination search hold for any sources and names.
THEOREM TypeCorrect == Spec => []TypeOK
<1>1. Typed => TypeOK
  BY DEF Typed
<1>2. QED
  BY <1>1, TypesStart, TypesLast, PTL DEF Spec

-----------------------------------------------------------------------------
(* Every repository that is written to is one's own.                       *)

\* A pair is the collision name of its second part; nobody else goes by it.
OwnPair(n, r) == n \in Clean \X Starred => n[2] = r

\* A transfer has verified what it is about to rename, record or push to, and the rows and
\* transfers of a source use no collision name of another.
HomeInv ==
  /\ \A r \in Sources : pc[r] = "rename" => repo[fallback[r]] = r
  /\ \A r \in Sources : pc[r] \in {"record", "push"} => repo[name[r]] = r
  /\ \A r \in Sources : pc[r] = "push" => row[r] = name[r]
  /\ \A r, q \in Sources : row[r] = row[q] => r = q \/ row[r] = NoName
  /\ \A r \in Sources : OwnPair(row[r], r) /\ OwnPair(name[r], r) /\ OwnPair(fallback[r], r)

IInv == Typed /\ HomeInv

\* No name is the empty one, the collision name is the source's own, the preferred one is no pair.
LEMMA PairsAreOwn ==
  ASSUME Typed, NEW r \in Sources
  PROVE  /\ NoName \notin Names /\ OwnPair(NoName, r) /\ OwnPair(Preferred(r), r)
         /\ r \in Starred => OwnPair(Collision(r), r) /\ Collision(r) \in Clean \X Starred
<1>1. Preferred(r) \in Clean
  BY NamesAreNames DEF Typed
<1>2. Preferred(r) \notin Clean \X Starred /\ NoName \notin Clean \X Starred /\ NoName \notin Names
  BY <1>1, NamesAssumption DEF Names
<1>3. r \in Starred => Collision(r) \in Clean \X Starred /\ Collision(r)[2] = r
  BY <1>1 DEF Collision, Preferred
<1>4. QED
  BY <1>2, <1>3 DEF OwnPair

\* The part of the invariant that is about one source.
Home(r) ==
  /\ pc[r] = "rename" => repo[fallback[r]] = r
  /\ pc[r] \in {"record", "push"} => repo[name[r]] = r
  /\ pc[r] = "push" => row[r] = name[r]
  /\ OwnPair(row[r], r) /\ OwnPair(name[r], r) /\ OwnPair(fallback[r], r)

\* And the part that is about two.
Distinct == \A r, q \in Sources : row[r] = row[q] => r = q \/ row[r] = NoName

\* What a step does to the repositories of others: it leaves them where they are.
Spared(q) == \A n \in Names : repo[n] \in Sources \ {q} => repo'[n] = repo[n]

\* A transfer renames and creates only where it robs nobody.
LEMMA OthersAreSpared ==
  ASSUME IInv, NEW q \in Sources, pc[q] # "idle"
  PROVE  /\ Created(q) => Spared(q)
         /\ pc[q] = "rename" /\ Renamed(q) => Spared(q)
         /\ UNCHANGED repo => Spared(q)
<1>1. name[q] \in Names /\ (pc[q] = "rename" => fallback[q] \in Names /\ repo[fallback[q]] = q)
  BY DEF IInv, Typed, Working, HomeInv
<1>2. "nobody" \notin Sources
  BY NamesAssumption
<1>3. Created(q) => Spared(q)
  BY <1>1, <1>2 DEF Created, Spared, IInv, Typed, TypeOK
<1>4. pc[q] = "rename" /\ Renamed(q) => Spared(q)
  <2> HAVE pc[q] = "rename" /\ Renamed(q)
  <2> SUFFICES ASSUME NEW n \in Names, repo[n] \in Sources \ {q} PROVE repo'[n] = repo[n]
    BY DEF Spared
  <2>1. n # fallback[q] /\ n # name[q]
    BY <1>1, <1>2 DEF Renamed
  <2>2. QED
    BY <2>1 DEF Renamed, IInv, Typed, TypeOK
<1>5. QED
  BY <1>3, <1>4 DEF Spared

\* A step that spares a source and leaves its transfer and its row alone keeps its part.
LEMMA HomeOfOthers ==
  ASSUME IInv, NEW q, NEW r \in Sources \ {q}, Spared(q),
         pc'[r] = pc[r], name'[r] = name[r], fallback'[r] = fallback[r], row'[r] = row[r]
  PROVE  Home(r)'
<1>1. Home(r)
  BY DEF IInv, HomeInv, Home
<1>2. /\ pc[r] \in {"record", "push"} => name[r] \in Names
      /\ pc[r] = "rename" => fallback[r] \in Names
  BY DEF IInv, Typed, Working
<1>3. QED
  BY <1>1, <1>2 DEF Home, OwnPair, Spared

\* The parts make up the invariant.
LEMMA HomeParts == HomeInv <=> Distinct /\ \A r \in Sources : Home(r)
BY DEF HomeInv, Distinct, Home

\* A transfer that ends has nothing in hand.
LEMMA HomeAfterEnd ==
  ASSUME IInv, NEW r \in Sources, End(r), row'[r] = row[r]
  PROVE  Home(r)'
<1>1. pc'[r] = "idle" /\ name'[r] = NoName /\ fallback'[r] = NoName
  BY DEF End, Goto, IInv, Typed, TypeOK
<1>2. OwnPair(NoName, r) /\ OwnPair(row[r], r)
  BY PairsAreOwn DEF IInv, HomeInv
<1>3. QED
  BY <1>1, <1>2 DEF Home, OwnPair

\* The step of a transfer changes nothing of another one.
LEMMA OthersDoNotMove ==
  ASSUME IInv, NEW q \in Sources, NEW r \in Sources \ {q}, Begin(q) \/ Work(q) \/ Interrupt(q)
  PROVE  pc'[r] = pc[r] /\ name'[r] = name[r] /\ fallback'[r] = fallback[r] /\ row'[r] = row[r]
<1> USE DEF IInv, Typed, TypeOK, End, Goto
<1>1. End(q) => pc'[r] = pc[r] /\ name'[r] = name[r] /\ fallback'[r] = fallback[r]
  OBVIOUS
<1>2. \A request : Goto(q, request) => pc'[r] = pc[r]
  OBVIOUS
<1> HIDE DEF End, Goto
<1>3. CASE Begin(q)
  BY <1>2, <1>3 DEF Begin
<1>4. CASE Request(q)
  BY <1>1, <1>2, <1>4 DEF Request
<1>5. CASE RequestOld(q)
  BY <1>1, <1>2, <1>5 DEF RequestOld
<1>6. CASE RequestOther(q)
  BY <1>1, <1>2, <1>6 DEF RequestOther
<1>7. CASE Create(q)
  BY <1>1, <1>2, <1>7 DEF Create
<1>8. CASE Rename(q)
  BY <1>1, <1>2, <1>8 DEF Rename
<1>9. CASE Record(q)
  BY <1>1, <1>2, <1>9 DEF Record
<1>10. CASE Push(q)
  BY <1>1, <1>10 DEF Push
<1>11. CASE Interrupt(q)
  BY <1>1, <1>11 DEF Interrupt
<1>12. QED
  BY <1>3, <1>4, <1>5, <1>6, <1>7, <1>8, <1>9, <1>10, <1>11 DEF Work

\* And it spares the others' repositories.
LEMMA StepsSpare ==
  ASSUME IInv, NEW q \in Sources, Begin(q) \/ Work(q) \/ Interrupt(q)
  PROVE  Spared(q)
<1>1. UNCHANGED repo => Spared(q)
  BY DEF Spared
<1>2. CASE Create(q)
  BY <1>1, <1>2, OthersAreSpared DEF Create
<1>3. CASE Rename(q)
  BY <1>1, <1>3, OthersAreSpared DEF Rename
<1>4. CASE Interrupt(q)
  BY <1>1, <1>4, OthersAreSpared DEF Interrupt
<1>5. QED
  BY <1>1, <1>2, <1>3, <1>4 DEF Begin, Work, Request, RequestOld, RequestOther, Record, Push

\* The source whose transfer takes a step keeps its part.
LEMMA HomeOfMover ==
  ASSUME IInv, NEW r \in Sources, Begin(r) \/ Work(r) \/ Interrupt(r)
  PROVE  Home(r)'
<1>1. /\ Home(r) /\ (r \in Starred => OwnPair(Collision(r), r))
      /\ OwnPair(NoName, r) /\ OwnPair(Preferred(r), r)
  BY PairsAreOwn DEF IInv, HomeInv, Home
<1>2. \A request : Goto(r, request) => pc'[r] = request
  BY DEF Goto, IInv, Typed, TypeOK
<1>3. /\ pc[r] # "idle" => name[r] \in Names
      /\ pc[r] \in {"rename?", "rename"} => fallback[r] \in Names
  BY DEF IInv, Typed, Working
<1>4. ASSUME End(r), UNCHANGED row PROVE Home(r)'
  BY <1>4, HomeAfterEnd
<1>5. CASE Begin(r)
  <2>1. pc'[r] = "request" /\ row' = row
    BY <1>2, <1>5 DEF Begin
  <2>2. /\ name'[r] = (IF Keeps(r) THEN row[r] ELSE Preferred(r))
        /\ fallback'[r] = (IF Keeps(r) THEN NoName ELSE Collision(r))
    BY <1>5 DEF Begin, IInv, Typed, TypeOK
  <2>3. OwnPair(row[r], r) /\ OwnPair(name'[r], r) /\ OwnPair(fallback'[r], r)
    BY <1>1, <2>2, KeepsOrStar DEF Home
  <2>4. QED
    BY <2>1, <2>3 DEF Home, OwnPair
<1>6. ASSUME NEW request \in {"rename?", "create"}, Goto(r, request), UNCHANGED <<row, name, fallback>>
      PROVE  Home(r)'
  BY <1>1, <1>2, <1>6 DEF Home, OwnPair
<1>7. ASSUME Goto(r, "record"), repo'[name[r]] = r, UNCHANGED <<row, name, fallback>>
      PROVE  Home(r)'
  BY <1>1, <1>2, <1>7 DEF Home, OwnPair
<1>8. CASE Request(r)
  <2>1. ASSUME Goto(r, "other"), name' = [name EXCEPT ![r] = fallback[r]], UNCHANGED <<row, fallback>>
        PROVE  Home(r)'
    <3>1. name'[r] = fallback[r] /\ pc'[r] = "other" /\ fallback'[r] = fallback[r] /\ row'[r] = row[r]
      BY <1>2, <2>1 DEF IInv, Typed, TypeOK
    <3>2. QED
      BY <1>1, <3>1 DEF Home, OwnPair
  <2>2. QED
    BY <1>4, <1>6, <1>7, <1>8, <2>1 DEF Request, CarriesMarker
<1>9. CASE RequestOld(r)
  <2>1. ASSUME Goto(r, "rename"), repo'[fallback[r]] = r, UNCHANGED <<row, name, fallback>>
        PROVE  Home(r)'
    BY <1>1, <1>2, <2>1 DEF Home, OwnPair
  <2>2. QED
    BY <1>4, <1>6, <1>9, <2>1 DEF RequestOld, CarriesMarker
<1>10. CASE RequestOther(r)
  BY <1>4, <1>6, <1>7, <1>10 DEF RequestOther, CarriesMarker
<1>11. CASE Create(r)
  <2>1. Created(r) => repo'[name[r]] = r
    BY <1>3, <1>11 DEF Create, Created, IInv, Typed, TypeOK
  <2>2. QED
    BY <1>4, <1>7, <1>11, <2>1 DEF Create
<1>12. CASE Rename(r)
  <2>1. Renamed(r) => repo'[name[r]] = r
    BY <1>3, <1>12 DEF Rename, Renamed, IInv, Typed, TypeOK
  <2>2. QED
    BY <1>4, <1>7, <1>12, <2>1 DEF Rename
<1>13. CASE Record(r)
  <2>1. ASSUME row' = [row EXCEPT ![r] = name[r]], Goto(r, "push"), UNCHANGED <<repo, name, fallback>>,
               pc[r] = "record"
        PROVE  Home(r)'
    <3>1. row'[r] = name[r] /\ pc'[r] = "push"
      BY <1>2, <2>1 DEF IInv, Typed, TypeOK
    <3>2. QED
      BY <1>1, <2>1, <3>1 DEF Home, OwnPair
  <2>2. QED
    BY <1>4, <1>13, <2>1 DEF Record
<1>14. CASE Push(r)
  BY <1>4, <1>14 DEF Push
<1>15. CASE Interrupt(r)
  BY <1>4, <1>15 DEF Interrupt
<1>16. QED
  BY <1>5, <1>8, <1>9, <1>10, <1>11, <1>12, <1>13, <1>14, <1>15 DEF Work

\* No transfer makes two rows equal: what it records, no other row has.
LEMMA RowsStayDistinct ==
  ASSUME IInv, NEW q \in Sources, Begin(q) \/ Work(q) \/ Interrupt(q)
  PROVE  Distinct'
<1>1. Distinct
  BY DEF IInv, HomeInv, Distinct
<1>2. CASE UNCHANGED row
  BY <1>1, <1>2 DEF Distinct
<1>3. CASE /\ row' = [row EXCEPT ![q] = name[q]]
           /\ \A r \in Sources \ {q} : row[r] # name[q]
  <2>1. row'[q] = name[q] /\ \A r \in Sources \ {q} : row'[r] = row[r]
    BY <1>3 DEF IInv, Typed, TypeOK
  <2>2. QED
    BY <1>1, <1>3, <2>1 DEF Distinct
<1>4. QED
  BY <1>2, <1>3 DEF Begin, Work, Interrupt, Request, RequestOld, RequestOther, Create, Rename, Record, Push

\* The reconciler gives every new row a name of its own.
LEMMA NewRowsAreDistinct ==
  ASSUME IInv, ReconcileStarred \/ ReconcileFixed
  PROVE  Distinct' /\ \A r \in Sources : OwnPair(row'[r], r) /\ (row[r] # NoName => row'[r] = row[r])
<1>1. Distinct /\ \A r \in Sources : OwnPair(row[r], r)
  BY DEF IInv, HomeInv, Distinct
<1>2. CASE ReconcileStarred
  <2>1. PICK first \in SUBSET {r \in New(Starred) : ~Used(Preferred(r))} :
          /\ \A r, q \in first : Preferred(r) = Preferred(q) => r = q
          /\ row' = [r \in Sources |-> IF r \in first THEN Preferred(r)
                                    ELSE IF r \in New(Starred) THEN Collision(r) ELSE row[r]]
    BY <1>2 DEF ReconcileStarred
  <2>2. \A r \in New(Starred) : r \in Sources /\ r \in Starred /\ row[r] = NoName
    BY DEF New, Known, Sources
  <2>3. \A r \in Sources : row'[r] = IF r \in first THEN Preferred(r)
                                    ELSE IF r \in New(Starred) THEN Collision(r) ELSE row[r]
    BY <2>1
  <2>4. \A r \in Sources : row[r] # NoName => row'[r] = row[r]
    BY <2>1, <2>2, <2>3
  <2>5. \A r \in Sources : OwnPair(Preferred(r), r) /\ Preferred(r) \notin Clean \X Starred
    BY PairsAreOwn, NamesAreNames, NamesAssumption DEF IInv, Typed
  <2>6. \A r \in Starred : /\ OwnPair(Collision(r), r) /\ Collision(r) \in Clean \X Starred
                           /\ Collision(r)[2] = r
    BY PairsAreOwn DEF IInv, Sources, OwnPair
  <2>7. \A r \in Sources : OwnPair(row'[r], r)
    <3> TAKE r \in Sources
    <3>1. CASE r \in first
      BY <2>1, <2>3, <2>5, <3>1
    <3>2. CASE r \notin first /\ r \in New(Starred)
      BY <2>1, <2>2, <2>3, <2>6, <3>2
    <3>3. CASE r \notin first /\ r \notin New(Starred)
      BY <1>1, <2>3, <3>3
    <3>4. QED
      BY <3>1, <3>2, <3>3
  <2>8. Distinct'
    <3>1. SUFFICES ASSUME NEW r \in Sources, NEW q \in Sources, row'[r] = row'[q], r # q
                   PROVE  row'[r] = NoName
      BY DEF Distinct
    <3>2. \A s, t \in Sources : s \in first /\ row'[s] = row'[t] => s = t
      <4>1. SUFFICES ASSUME NEW s \in Sources, NEW t \in Sources, s \in first,
                            row'[s] = row'[t], s # t PROVE FALSE
        OBVIOUS
      <4>2. row'[s] = Preferred(s) /\ s \in New(Starred) /\ \A v \in Sources : row[v] # Preferred(s)
        BY <2>1, <2>3, <4>1 DEF Used
      <4>3. t \notin first
        BY <2>1, <2>3, <4>1, <4>2
      <4>4. t \notin New(Starred)
        <5>1. row'[s] \notin Clean \X Starred
          BY <2>5, <4>1, <4>2
        <5>2. t \in New(Starred) => row'[t] = Collision(t) /\ t \in Starred
          BY <2>2, <2>3, <4>1, <4>3
        <5>3. t \in New(Starred) => row'[t] \in Clean \X Starred
          BY <2>6, <5>2
        <5>4. QED
          BY <4>1, <5>1, <5>3
      <4>5. QED
        BY <2>3, <4>1, <4>2, <4>3, <4>4
    <3>3. r \notin first /\ q \notin first
      BY <3>1, <3>2
    <3>4. \A s, t \in Sources : s \in New(Starred) /\ s \notin first /\ t \notin first
                               /\ row'[s] = row'[t] => s = t
      <4>1. SUFFICES ASSUME NEW s \in Sources, NEW t \in Sources, s \in New(Starred), s \notin first,
                            t \notin first, row'[s] = row'[t] PROVE s = t
        OBVIOUS
      <4>2. OwnPair(row'[t], t) /\ row'[s] = Collision(s) /\ s \in Starred
        BY <2>2, <2>3, <2>7, <4>1
      <4>3. QED
        BY <2>6, <4>1, <4>2 DEF OwnPair
    <3>5. r \notin New(Starred) /\ q \notin New(Starred)
      BY <3>1, <3>3, <3>4
    <3>6. QED
      BY <1>1, <2>3, <3>1, <3>3, <3>5 DEF Distinct
  <2>9. QED
    BY <2>4, <2>7, <2>8
<1>3. CASE ReconcileFixed
  <2>1. \A r \in Sources : row'[r] = IF r \in New(Fixed) THEN Preferred(r) ELSE row[r]
    BY <1>3 DEF ReconcileFixed
  <2>2. \A r \in New(Fixed) :
                             /\ r \in Sources /\ row[r] = NoName
                             /\ \A q \in Sources : row[q] # Preferred(r)
                             /\ \A q \in New(Fixed) : Preferred(q) = Preferred(r) => q = r
    BY <1>3 DEF ReconcileFixed, New, Known, Used, Sources
  <2>3. \A r \in Sources : OwnPair(row'[r], r)
    BY <1>1, <2>1, PairsAreOwn DEF IInv
  <2>4. Distinct'
    BY <1>1, <2>1, <2>2 DEF Distinct
  <2>5. QED
    BY <2>1, <2>2, <2>3, <2>4
<1>4. QED
  BY <1>2, <1>3

\* Every step keeps the invariant.
LEMMA HomesLast == IInv /\ [Next]_vars => IInv'
<1> SUFFICES ASSUME IInv, [Next]_vars PROVE IInv'
  OBVIOUS
<1>1. SUFFICES Distinct' /\ \A r \in Sources : Home(r)'
  BY TypesLast, HomeParts DEF IInv, HomeInv, Distinct, Home
<1>2. Distinct /\ \A r \in Sources : Home(r)
  BY HomeParts DEF IInv
<1>3. CASE ReconcileStarred \/ ReconcileFixed
  <2>1. repo' = repo /\ pc' = pc /\ name' = name /\ fallback' = fallback
    BY <1>3 DEF ReconcileStarred, ReconcileFixed, transfers
  <2>2. \A r \in Sources : pc[r] = "push" => row[r] # NoName
    BY <1>2, NamesAssumption DEF Home, IInv, Typed, Working
  <2>3. QED
    BY <1>2, <1>3, <2>1, <2>2, NewRowsAreDistinct DEF Home, OwnPair
<1>4. CASE UserEdits
  <2>1. row' = row /\ pc' = pc /\ name' = name /\ fallback' = fallback
    BY <1>4 DEF UserEdits, transfers
  <2>2. \A r \in Sources :
          /\ pc[r] \in {"record", "push"} => repo'[name[r]] = repo[name[r]]
          /\ pc[r] = "rename" => repo'[fallback[r]] = repo[fallback[r]]
    <3> TAKE r \in Sources
    <3>1. /\ pc[r] \in {"record", "push"} => name[r] \in Names /\ name[r] \in InHand
          /\ pc[r] = "rename" => fallback[r] \in Names /\ fallback[r] \in InHand
      BY DEF InHand, IInv, Typed, Working
    <3>2. QED
      BY <1>4, <3>1 DEF UserEdits, IInv, Typed, TypeOK
  <2>3. QED
    BY <1>2, <2>1, <2>2 DEF Home, Distinct, OwnPair
<1>5. CASE SourceChanges \/ UNCHANGED vars
  BY <1>2, <1>5 DEF SourceChanges, vars, transfers, Home, Distinct, OwnPair
<1>6. CASE \E q \in Sources : Begin(q) \/ Work(q) \/ Interrupt(q)
  <2>1. PICK q \in Sources : Begin(q) \/ Work(q) \/ Interrupt(q)
    BY <1>6
  <2>2. \A r \in Sources \ {q} : Home(r)'
    BY <2>1, StepsSpare, OthersDoNotMove, HomeOfOthers
  <2>3. QED
    BY <2>1, <2>2, HomeOfMover, RowsStayDistinct
<1>7. QED
  BY <1>3, <1>4, <1>5, <1>6 DEF Next

\* It holds at the start.
LEMMA HomesStart == Init => IInv
<1> SUFFICES ASSUME Init PROVE IInv
  OBVIOUS
<1>1. Typed
  BY TypesStart
<1>2. QED
  BY <1>1, PairsAreOwn DEF Init, IInv, HomeInv

\* A transfer writes only to its own repository, which no other row has: however many transfers
\* create and rename beside it, lose answers or are interrupted.
THEOREM TransfersPushHome == Spec => []PushesGoHome
<1>1. IInv => PushesGoHome
  <2> SUFFICES ASSUME IInv, NEW r \in Sources, pc[r] = "push"
               PROVE  /\ repo[name[r]] = r
                      /\ row[r] = name[r] /\ \A q \in Sources \ {r} : row[q] # name[r]
    BY DEF PushesGoHome
  <2>1. repo[name[r]] = r /\ row[r] = name[r] /\ name[r] \in Names /\ NoName \notin Names
    BY NamesAssumption DEF IInv, HomeInv, Typed, Working
  <2>2. QED
    BY <2>1 DEF IInv, HomeInv
<1>2. QED
  BY <1>1, HomesStart, HomesLast, PTL DEF Spec

\* No repository is taken from its owner: what a step of a transfer changes was free, or its
\* own and lives on under the new name.
THEOREM OwnersKeepTheirs == Spec => NobodyIsRobbed
<1> DEFINE Kept == budget'["edit"] = budget["edit"] => \A n \in Names :
                     repo[n] # "nobody" /\ repo'[n] # repo[n] =>
                       repo[n] \in Sources /\ repo'[n] = "nobody" /\ \E m \in Names : repo'[m] = repo[n]
<1>1. IInv /\ [Next]_vars => [Kept]_vars
  <2> SUFFICES ASSUME IInv, [Next]_vars PROVE Kept
    OBVIOUS
  <2>1. CASE UNCHANGED repo
    BY <2>1
  <2>2. CASE UserEdits
    <3>1. budget["edit"] \in Nat /\ budget["edit"] > 0 /\ budget'["edit"] = budget["edit"] - 1
      BY <2>2 DEF UserEdits, Spend, IInv, Typed, TypeOK, Chances
    <3>2. QED
      BY <3>1
  <2>3. ASSUME NEW q \in Sources, pc[q] # "idle", Created(q) PROVE Kept
    BY <2>3 DEF Created, IInv, Typed, TypeOK, Working
  <2>4. ASSUME NEW q \in Sources, pc[q] = "rename", Renamed(q) PROVE Kept
    <3>1. /\ name[q] \in Names /\ fallback[q] \in Names /\ repo[fallback[q]] = q
          /\ repo[name[q]] = "nobody"
      BY <2>4 DEF IInv, Typed, Working, HomeInv, Renamed
    <3>2. fallback[q] # name[q]
      BY <3>1, NamesAssumption
    <3>3. /\ repo'[name[q]] = q /\ repo'[fallback[q]] = "nobody"
          /\ \A n \in Names \ {name[q], fallback[q]} : repo'[n] = repo[n]
      BY <2>4, <3>1, <3>2 DEF Renamed, IInv, Typed, TypeOK
    <3>4. QED
      BY <3>1, <3>3
  <2>5. CASE \E q \in Sources : Create(q) \/ Rename(q) \/ Interrupt(q)
    BY <2>1, <2>3, <2>4, <2>5 DEF Create, Rename, Interrupt
  <2>6. QED
    BY <2>1, <2>2, <2>5 DEF Next, Work, vars, ReconcileStarred, ReconcileFixed, SourceChanges, Begin,
                            Request, RequestOld, RequestOther, Record, Push
<1>2. QED
  BY <1>1, HomesStart, HomesLast, PTL DEF Spec, NobodyIsRobbed

-----------------------------------------------------------------------------
(* One repository for each source, while nothing changes at the sources.   *)

\* The names a source may have while nothing changes at the sources.
Places(r) == {Preferred(r)} \cup (IF r \in Starred THEN {Collision(r)} ELSE {})

\* All that is known of a source is in its places, a transfer that goes on from its first name
\* or creates has seen that nothing is in the other one, and there is one repository.
One(r) ==
  /\ row[r] \in Places(r) \cup {NoName}
  /\ \A n \in Names : repo[n] = r => n \in Places(r)
  /\ \A m, n \in Names : repo[m] = r /\ repo[n] = r => m = n
  /\ pc[r] # "idle" => name[r] \in Places(r) /\ fallback[r] = IF r \in Starred THEN Collision(r) ELSE NoName
  /\ pc[r] \in {"request", "rename?", "rename"} => name[r] = Preferred(r)
  /\ pc[r] \in {"other", "create"} => \A n \in Names \ {name[r]} : repo[n] # r

SourcesRest == budget["change"] = Budget["change"]
OneInv == budget["change"] <= Budget["change"] /\ (SourcesRest => \A r \in Sources : One(r))

\* Nobody else's step gives a source a repository.
OnlyOwn(q) == \A r \in Sources \ {q} : \A n \in Names : repo'[n] = r => repo[n] = r

\* Transfers create and rename for themselves.
LEMMA StepsGiveOwn ==
  ASSUME IInv, NEW q \in Sources, Begin(q) \/ Work(q) \/ Interrupt(q)
  PROVE  OnlyOwn(q)
<1>1. UNCHANGED repo => OnlyOwn(q)
  BY DEF OnlyOwn
<1>2. "nobody" \notin Sources
  BY NamesAssumption
<1>3. Created(q) => OnlyOwn(q)
  BY DEF Created, OnlyOwn, IInv, Typed, TypeOK
<1>4. Renamed(q) => OnlyOwn(q)
  BY <1>2 DEF Renamed, OnlyOwn, IInv, Typed, TypeOK
<1>5. QED
  BY <1>1, <1>3, <1>4
     DEF Begin, Work, Interrupt, Request, RequestOld, RequestOther, Create, Rename, Record, Push

\* A source that does not move keeps its place.
LEMMA OneOfOthers ==
  ASSUME NEW r \in Sources, One(r), UNCHANGED upstream,
         pc'[r] = pc[r], name'[r] = name[r], fallback'[r] = fallback[r], row'[r] = row[r],
         \A n \in Names : repo'[n] = r => repo[n] = r
  PROVE  One(r)'
<1>1. Places(r)' = Places(r) /\ Preferred(r)' = Preferred(r) /\ Collision(r)' = Collision(r)
  BY DEF Places, Preferred, Collision
<1>2. QED
  BY <1>1 DEF One

\* So does one that moves.
LEMMA OneOfMover ==
  ASSUME IInv, NEW r \in Sources, One(r), Begin(r) \/ Work(r) \/ Interrupt(r)
  PROVE  One(r)'
<1>1. upstream' = upstream
  BY DEF Begin, Work, Interrupt, Request, RequestOld, RequestOther, Create, Rename, Record, Push
<1>2. Places(r)' = Places(r) /\ Preferred(r)' = Preferred(r) /\ Collision(r)' = Collision(r)
  BY <1>1 DEF Places, Preferred, Collision
<1>3. /\ pc[r] # "idle" => name[r] \in Names
      /\ pc[r] \in {"rename?", "rename"} => fallback[r] \in Names
  BY DEF IInv, Typed, Working
<1>4. /\ NoName \notin Names /\ Places(r) \subseteq Names /\ "nobody" # r
      /\ (r \in Starred => Preferred(r) # Collision(r)) /\ Places(r) \subseteq {Preferred(r), Collision(r)}
  BY NamesAreNames, PairsAreOwn, NamesAssumption DEF IInv, Typed, Places
<1>5. \A request : Goto(r, request) => pc'[r] = request
  BY DEF Goto, IInv, Typed, TypeOK
<1>6. ASSUME End(r), row'[r] \in Places(r) \cup {NoName},
             \A n \in Names : repo'[n] = r => n \in Places(r),
             \A m, n \in Names : repo'[m] = r /\ repo'[n] = r => m = n
      PROVE  One(r)'
  <2>1. pc'[r] = "idle"
    BY <1>5, <1>6 DEF End
  <2>2. QED
    BY <1>2, <1>6, <2>1 DEF One
<1>7. ASSUME End(r), UNCHANGED <<row, repo>> PROVE One(r)'
  BY <1>6, <1>7 DEF One
<1>8. ASSUME UNCHANGED <<repo, name, fallback>>, row'[r] \in Places(r) \cup {NoName},
             NEW request \in {"record", "push"}, Goto(r, request), pc[r] # "idle"
      PROVE  One(r)'
  BY <1>2, <1>5, <1>8 DEF One
<1>9. ASSUME UNCHANGED <<repo, row, name, fallback>>, pc[r] # "idle", name[r] = Preferred(r),
             NEW request \in {"rename?", "rename"}, Goto(r, request)
      PROVE  One(r)'
  BY <1>2, <1>5, <1>9 DEF One
<1>10. ASSUME UNCHANGED <<repo, row, name, fallback>>, pc[r] # "idle", Goto(r, "create"),
              \A n \in Names \ {name[r]} : repo[n] # r
       PROVE  One(r)'
  BY <1>2, <1>5, <1>10 DEF One
<1>11. ASSUME pc[r] = "create", Created(r)
       PROVE  /\ \A n \in Names : repo'[n] = r => n \in Places(r)
              /\ \A m, n \in Names : repo'[m] = r /\ repo'[n] = r => m = n
  <2>1. \A n \in Names : repo'[n] = r => n = name[r]
    BY <1>3, <1>11 DEF One, Created, IInv, Typed, TypeOK
  <2>2. QED
    BY <1>11, <2>1 DEF One
<1>12. ASSUME pc[r] = "rename", Renamed(r)
       PROVE  /\ \A n \in Names : repo'[n] = r => n \in Places(r)
              /\ \A m, n \in Names : repo'[m] = r /\ repo'[n] = r => m = n
  <2>1. name[r] \in Places(r) /\ repo[fallback[r]] = r
    BY <1>12 DEF One, IInv, HomeInv
  <2>2. \A n \in Names : repo'[n] = r => n = name[r]
    <3>1. \A n \in Names : repo[n] = r => n = fallback[r]
      BY <1>3, <1>12, <2>1 DEF One
    <3>2. QED
      BY <1>3, <1>4, <1>12, <3>1 DEF Renamed, IInv, Typed, TypeOK
  <2>3. QED
    BY <2>1, <2>2
<1>13. CASE Begin(r)
  <2>1. /\ pc'[r] = "request" /\ row' = row /\ repo' = repo
        /\ name'[r] = (IF Keeps(r) THEN row[r] ELSE Preferred(r))
        /\ fallback'[r] = (IF Keeps(r) THEN NoName ELSE Collision(r))
    BY <1>5, <1>13 DEF Begin, IInv, Typed, TypeOK
  <2>2. row[r] \in Places(r)
    BY <1>13 DEF Begin, Known, One
  <2>3. /\ Keeps(r) <=> r \notin Starred
        /\ r \notin Starred => Places(r) = {Preferred(r)}
    BY <2>2, NamesAssumption DEF Keeps, Places, Sources
  <2>4. name'[r] = Preferred(r) /\ fallback'[r] = IF r \in Starred THEN Collision(r) ELSE NoName
    BY <2>1, <2>2, <2>3
  <2>5. QED
    BY <1>2, <2>1, <2>2, <2>4 DEF One, Places
<1>14. CASE Request(r)
  <2>1. pc[r] = "request" /\ name[r] = Preferred(r)
        /\ fallback[r] = IF r \in Starred THEN Collision(r) ELSE NoName
    BY <1>14 DEF Request, One
  <2>2. ASSUME Goto(r, "create"), fallback[r] = NoName, UNCHANGED <<row, repo, name, fallback>>
        PROVE  One(r)'
    <3>1. r \notin Starred
      BY <1>4, <2>1, <2>2, NamesAreNames DEF IInv, Typed
    <3>2. \A n \in Names \ {name[r]} : repo[n] # r
      BY <2>1, <3>1 DEF One, Places
    <3>3. QED
      BY <1>10, <2>1, <2>2, <3>2
  <2>3. ASSUME Goto(r, "other"), name' = [name EXCEPT ![r] = fallback[r]], UNCHANGED <<row, repo, fallback>>,
               fallback[r] # NoName, repo[name[r]] # r
        PROVE  One(r)'
    <3>1. r \in Starred /\ name'[r] = Collision(r) /\ pc'[r] = "other"
      BY <1>5, <2>1, <2>3 DEF IInv, Typed, TypeOK
    <3>2. \A n \in Names \ {Collision(r)} : repo[n] # r
      BY <1>4, <2>1, <2>3, <3>1 DEF One
    <3>3. QED
      BY <1>2, <2>1, <2>3, <3>1, <3>2 DEF One, Places
  <2>4. ASSUME Goto(r, "record"), UNCHANGED <<row, repo, name, fallback>> PROVE One(r)'
    BY <1>8, <2>1, <2>4 DEF One
  <2>5. ASSUME Goto(r, "rename?"), UNCHANGED <<row, repo, name, fallback>> PROVE One(r)'
    BY <1>9, <2>1, <2>5
  <2>6. QED
    BY <1>7, <1>14, <2>2, <2>3, <2>4, <2>5 DEF Request, CarriesMarker, LooksFurther
<1>15. CASE RequestOld(r)
  <2>1. pc[r] = "rename?" /\ name[r] = Preferred(r) /\ fallback[r] \in Names /\ fallback[r] = Collision(r)
    BY <1>3, <1>4, <1>15 DEF RequestOld, One
  <2>2. ASSUME Goto(r, "create"), repo[fallback[r]] = "nobody", UNCHANGED <<row, repo, name, fallback>>
        PROVE  One(r)'
    <3>1. \A n \in Names \ {name[r]} : repo[n] # r
      BY <1>4, <2>1, <2>2 DEF One
    <3>2. QED
      BY <1>10, <2>1, <2>2, <3>1
  <2>3. ASSUME Goto(r, "rename"), UNCHANGED <<row, repo, name, fallback>> PROVE One(r)'
    BY <1>9, <2>1, <2>3
  <2>4. QED
    BY <1>7, <1>15, <2>2, <2>3 DEF RequestOld
<1>16. CASE RequestOther(r)
  <2>1. pc[r] = "other" /\ \A n \in Names \ {name[r]} : repo[n] # r
    BY <1>16 DEF RequestOther, One
  <2>2. ASSUME Goto(r, "create"), UNCHANGED <<row, repo, name, fallback>> PROVE One(r)'
    BY <1>10, <2>1, <2>2
  <2>3. ASSUME Goto(r, "record"), UNCHANGED <<row, repo, name, fallback>> PROVE One(r)'
    BY <1>8, <2>1, <2>3 DEF One
  <2>4. QED
    BY <1>7, <1>16, <2>2, <2>3 DEF RequestOther
<1>17. ASSUME pc[r] \in {"create", "rename"}, Goto(r, "record"), UNCHANGED <<row, name, fallback>>,
              \A n \in Names : repo'[n] = r => n \in Places(r),
              \A m, n \in Names : repo'[m] = r /\ repo'[n] = r => m = n
       PROVE  One(r)'
  BY <1>2, <1>5, <1>17 DEF One
<1>18. CASE Create(r)
  <2>1. pc[r] = "create" /\ row' = row
    BY <1>18 DEF Create
  <2>2. CASE Created(r) /\ Goto(r, "record") /\ UNCHANGED <<name, fallback>>
    BY <1>11, <1>17, <2>1, <2>2
  <2>3. CASE End(r) /\ UNCHANGED repo
    BY <1>7, <2>1, <2>3
  <2>4. QED
    BY <1>18, <2>2, <2>3 DEF Create
<1>19. CASE Rename(r)
  <2>1. pc[r] = "rename" /\ row' = row
    BY <1>19 DEF Rename
  <2>2. CASE Renamed(r) /\ Goto(r, "record") /\ UNCHANGED <<name, fallback>>
    BY <1>12, <1>17, <2>1, <2>2
  <2>3. CASE End(r) /\ UNCHANGED repo
    BY <1>7, <2>1, <2>3
  <2>4. QED
    BY <1>19, <2>2, <2>3 DEF Rename
<1>20. CASE Record(r)
  <2>1. pc[r] = "record" /\ name[r] \in Places(r)
    BY <1>20 DEF Record, One
  <2>2. CASE row' = [row EXCEPT ![r] = name[r]] /\ Goto(r, "push") /\ UNCHANGED <<name, fallback>>
    <3>1. row'[r] = name[r] /\ repo' = repo
      BY <1>20, <2>2 DEF Record, IInv, Typed, TypeOK
    <3>2. QED
      BY <1>8, <2>1, <2>2, <3>1
  <2>3. CASE End(r) /\ UNCHANGED row
    BY <1>7, <1>20, <2>3 DEF Record
  <2>4. QED
    BY <1>20, <2>2, <2>3 DEF Record
<1>21. CASE Push(r)
  BY <1>7, <1>21 DEF Push
<1>22. CASE Interrupt(r)
  <2>1. End(r) /\ row' = row
    BY <1>22 DEF Interrupt
  <2>2. CASE UNCHANGED repo
    BY <1>7, <2>1, <2>2
  <2>3. CASE pc[r] = "create" /\ Created(r)
    BY <1>6, <1>11, <2>1, <2>3 DEF One
  <2>4. CASE pc[r] = "rename" /\ Renamed(r)
    BY <1>6, <1>12, <2>1, <2>4 DEF One
  <2>5. QED
    BY <1>22, <2>2, <2>3, <2>4 DEF Interrupt
<1>23. QED
  BY <1>13, <1>14, <1>15, <1>16, <1>18, <1>19, <1>20, <1>21, <1>22 DEF Work

\* The budget for changes only shrinks, and with it unspent nothing changed at the sources.
LEMMA OneLasts == IInv /\ OneInv /\ [Next]_vars => OneInv'
<1> SUFFICES ASSUME IInv, OneInv, [Next]_vars PROVE OneInv'
  OBVIOUS
<1>1. budget["change"] \in Nat /\ Budget["change"] \in Nat /\ budget["change"] <= Budget["change"]
  BY BoundsAssumption DEF OneInv, IInv, Typed, TypeOK, Chances
<1>2. CASE SourceChanges
  <2>1. budget'["change"] = budget["change"] - 1
    BY <1>2 DEF SourceChanges, Spend, IInv, Typed, TypeOK, Chances
  <2>2. QED
    BY <1>1, <2>1 DEF OneInv, SourcesRest
<1>3. ASSUME budget'["change"] = budget["change"], \A r \in Sources : One(r) => One(r)' PROVE OneInv'
  BY <1>3 DEF OneInv, SourcesRest
<1>4. CASE UserEdits
  <2>1. budget'["change"] = budget["change"]
    BY <1>4 DEF UserEdits, Spend, IInv, Typed, TypeOK, Chances
  <2>2. \A n \in Names : repo'[n] \in Sources => repo'[n] = repo[n]
    BY <1>4, NamesAssumption DEF UserEdits, IInv, Typed, TypeOK
  <2>3. UNCHANGED <<upstream, row, pc, name, fallback>>
    BY <1>4 DEF UserEdits, transfers
  <2>4. QED
    BY <1>3, <2>1, <2>2, <2>3, OneOfOthers
<1>5. CASE UNCHANGED vars
  BY <1>3, <1>5, OneOfOthers DEF vars, transfers
<1>6. CASE ReconcileStarred \/ ReconcileFixed
  <2>1. UNCHANGED <<upstream, repo, pc, name, fallback, budget>>
    BY <1>6 DEF ReconcileStarred, ReconcileFixed, transfers
  <2>2. ASSUME NEW r \in Sources, One(r) PROVE One(r)'
    <3>1. row'[r] \in Places(r) \cup {NoName}
      <4>1. CASE ReconcileStarred
        <5>1. PICK first \in SUBSET New(Starred) :
                row' = [s \in Sources |-> IF s \in first THEN Preferred(s)
                                          ELSE IF s \in New(Starred) THEN Collision(s) ELSE row[s]]
          BY <4>1 DEF ReconcileStarred
        <5>2. QED
          BY <2>2, <5>1 DEF One, Places, New
      <4>2. CASE ReconcileFixed
        BY <2>2, <4>2 DEF ReconcileFixed, One, Places
      <4>3. QED
        BY <1>6, <4>1, <4>2
    <3>2. Places(r)' = Places(r) /\ Preferred(r)' = Preferred(r) /\ Collision(r)' = Collision(r)
      BY <2>1 DEF Places, Preferred, Collision
    <3>3. QED
      BY <2>1, <2>2, <3>1, <3>2 DEF One
  <2>3. QED
    BY <1>3, <2>1, <2>2
<1>7. CASE \E q \in Sources : Begin(q) \/ Work(q) \/ Interrupt(q)
  <2>1. PICK q \in Sources : Begin(q) \/ Work(q) \/ Interrupt(q)
    BY <1>7
  <2>2. budget'["change"] = budget["change"]
    BY <2>1 DEF Begin, Work, Interrupt, Request, RequestOld, RequestOther, Create, Rename, Record, Push,
                Spend, IInv, Typed, TypeOK, Chances
  <2>3. upstream' = upstream
    BY <2>1 DEF Begin, Work, Interrupt, Request, RequestOld, RequestOther, Create, Rename, Record, Push
  <2>4. ASSUME NEW r \in Sources \ {q}, One(r) PROVE One(r)'
    BY <2>1, <2>3, <2>4, OthersDoNotMove, StepsGiveOwn, OneOfOthers DEF OnlyOwn
  <2>5. One(q) => One(q)'
    BY <2>1, OneOfMover
  <2>6. QED
    BY <1>3, <2>2, <2>4, <2>5
<1>8. QED
  BY <1>2, <1>4, <1>5, <1>6, <1>7 DEF Next

\* While nothing changes at the sources none has two repositories: what a lost answer or a crash
\* left is found again, under the clean name or the fallback, before another one is created.
THEOREM NoSecondRepository == Spec => []OneRepositoryEach
<1>1. Init => OneInv
  <2> SUFFICES ASSUME Init PROVE OneInv
    OBVIOUS
  <2>1. Budget["change"] \in Nat /\ "nobody" \notin Sources
    BY BoundsAssumption, NamesAssumption DEF Chances
  <2>2. QED
    BY <2>1 DEF Init, OneInv, One
<1>2. OneInv => OneRepositoryEach
  BY DEF OneInv, SourcesRest, One, OneRepositoryEach
<1>3. QED
  BY <1>1, <1>2, OneLasts, HomesStart, HomesLast, PTL DEF Spec
===============================================================================
