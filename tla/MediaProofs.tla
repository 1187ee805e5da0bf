----------------------------- MODULE MediaProofs -----------------------------
(***************************************************************************)
(* Proofs about Media: every row has its object, the slot shows what its   *)
(* row says, a tab shows the rows as stored but for deletes under way, and *)
(* a delete keeps the order of the rest, for any number of tabs, editors,  *)
(* keys and faults.                                                        *)
(***************************************************************************)
EXTENDS Media, FiniteSetTheorems, NaturalsInduction, WellFoundedInduction, TLAPS

TabFields == {"pc", "shown", "photo", "at", "order"}

TabShape == DOMAIN tab = Tabs /\ \A t \in Tabs : DOMAIN tab[t] = TabFields

Only(t, pc, photo) ==
    /\ TabShape'
    /\ tab'[t].pc = pc /\ tab'[t].photo = photo
    /\ \A u \in Tabs \ {t} : tab'[u] = tab[u]

\* Goto moves one tab and keeps its photo.
LEMMA GotoTab ==
    ASSUME NEW t \in Tabs, NEW pc, TabShape, Goto(t, pc)
    PROVE  Only(t, pc, tab[t].photo)
  BY DEF Goto, TabShape, TabFields, Only

\* A request that is over holds nothing.
LEMMA AnsweredTab ==
    ASSUME NEW t \in Tabs, TabShape, Answered(t)
    PROVE  Only(t, "idle", NoPhoto)
  BY DEF Answered, TabShape, TabFields, Only, TabIdle

\* A tab about to refresh holds nothing.
LEMMA ReloadTab ==
    ASSUME NEW t \in Tabs, TabShape, Reload(t)
    PROVE  Only(t, "refresh", NoPhoto)
  BY DEF Reload, TabShape, TabFields, Only, TabIdle

\* An upload whose row is written holds nothing.
LEMMA InsertedTab ==
    ASSUME NEW t \in Tabs, TabShape,
           tab' = [tab EXCEPT ![t] = [TabIdle EXCEPT !.shown = tab[t].shown, !.pc = "uploaded"]]
    PROVE  Only(t, "uploaded", NoPhoto)
  BY DEF TabShape, TabFields, Only, TabIdle

\* The count of the table is all an upload gains.
LEMMA CountedTab ==
    ASSUME NEW t \in Tabs, NEW count, TabShape,
           tab' = [tab EXCEPT ![t].pc = "upload", ![t].at = count]
    PROVE  Only(t, "upload", tab[t].photo)
  BY DEF TabShape, TabFields, Only

\* A refresh ends idle or with the next file.
LEMMA RefreshedTab ==
    ASSUME NEW t \in Tabs, TabShape, NEW s,
           \/ tab' = [tab EXCEPT ![t] = [TabIdle EXCEPT !.shown = s]]
           \/ tab' = [tab EXCEPT ![t] = [TabIdle EXCEPT !.shown = s, !.pc = "add"]]
    PROVE  \E pc \in {"idle", "add"} : Only(t, pc, NoPhoto)
  BY DEF TabShape, TabFields, Only, TabIdle

-----------------------------------------------------------------------------
(* The inductive invariant of the photos *)

Holding == {"insert", "compensate", "removeObject"}

Deleting == {"take", "renumber"}

\* Photos and times, without the sequences.
Shape ==
    /\ TabShape
    /\ DOMAIN rows = Photos
    /\ object \in [Keys -> {Absent} \union Nat]
    /\ clock \in Nat
    /\ cleaner \in [pc: {"idle", "list", "remove"}, known: SUBSET Keys, at: Nat,
                    orphans: SUBSET (Keys \ Nested)]
    /\ issued \subseteq Photos
    /\ RowKeys \subseteq issued
    /\ \A k \in Photos : Stored(k) => k \in issued
    /\ cleaner.pc = "remove" => cleaner.orphans \subseteq issued

\* What a request holds, it was issued, and nobody else holds it.
Held ==
    \A t \in Tabs :
        /\ tab[t].pc \in Holding \union Deleting => tab[t].photo \in issued
        /\ tab[t].pc = "insert" =>
            /\ tab[t].photo \notin RowKeys
            /\ Stored(tab[t].photo)
            /\ clock - object[tab[t].photo] < MinAge
            /\ \A u \in Tabs \ {t} :
                tab[u].pc \in Holding \union Deleting => tab[u].photo # tab[t].photo
        /\ tab[t].pc \in {"compensate", "removeObject"} =>
            tab[t].photo \notin RowKeys \ replyLost

\* What a run of the command will take for an orphan is none, now or later.
Spared ==
    /\ cleaner.pc = "list" =>
        /\ cleaner.at <= clock
        /\ \A k \in RowKeys \ (cleaner.known \union replyLost) : cleaner.at - object[k] < MinAge
    /\ cleaner.pc = "remove" =>
        /\ cleaner.orphans \intersect (RowKeys \ replyLost) = {}
        /\ \A t \in Tabs : tab[t].pc = "insert" => tab[t].photo \notin cleaner.orphans

PhotosInv == Shape /\ Held /\ Spared /\ RowsHaveObjects

USE DEF Photos

\* No row, no object and no request: the first state is in order.
LEMMA InitPhotosInv == Init => PhotosInv
  BY MediaAssumption
  DEF Init, PhotosInit, BucketInit, PhotosInv, Shape, TabShape, TabFields, TabIdle, Held, Spared,
      RowsHaveObjects, RowKeys, CleanerIdle, Holding, Deleting, NoRow, Stored, Absent

\* A step that lets go of everything, whatever rows it deletes.
LEMMA LetGoInv ==
    ASSUME NEW t \in Tabs, NEW pc, NEW photo, PhotosInv, Only(t, pc, photo),
           pc \notin Holding \union Deleting,
           DOMAIN rows' = Photos, RowKeys' \subseteq RowKeys,
           UNCHANGED <<issued, replyLost, object, cleaner, clock>>
    PROVE  PhotosInv'
<1>1. Shape'
  BY DEF PhotosInv, Shape, Only, Stored
<1>2. \A u \in Tabs : tab'[u].pc \in Holding \union Deleting => tab'[u] = tab[u]
  BY DEF Only
<1>3. Held'
  BY <1>1, <1>2 DEF PhotosInv, Held, Holding, Deleting, Stored
<1>4. Spared'
  BY <1>1, <1>2 DEF PhotosInv, Spared, Holding
<1>5. RowsHaveObjects'
  BY DEF PhotosInv, RowsHaveObjects, Stored
<1> QED
  BY <1>1, <1>3, <1>4, <1>5 DEF PhotosInv

\* A fresh key is in no other hand and younger than MinAge.
LEMMA AddUploadInv ==
    ASSUME NEW t \in Tabs, PhotosInv, AddUpload(t)
    PROVE  PhotosInv'
<1>1. PICK k \in Photos \ issued :
        /\ issued' = issued \union {k}
        /\ \/ Store(k) /\ NoFault /\ tab' = [tab EXCEPT ![t].pc = "insert", ![t].photo = k]
           \/ Store(k) /\ Fault /\ Answered(t)
           \/ UNCHANGED object /\ Fault /\ Answered(t)
  BY DEF AddUpload
<1>2. Only(t, "insert", k) \/ Only(t, "idle", NoPhoto)
  BY <1>1, AnsweredTab DEF PhotosInv, Shape, TabShape, TabFields, Only
<1>3. UNCHANGED <<rows, replyLost, cleaner, clock>> /\ RowKeys' = RowKeys
  BY DEF AddUpload, RowKeys
<1>4. /\ object' \in [Keys -> {Absent} \union Nat]
      /\ \A j \in Keys \ {k} : object'[j] = object[j]
      /\ tab'[t].pc = "insert" => object'[k] = clock
  BY <1>1, AnsweredTab DEF Store, PhotosInv, Shape, Absent, Only
<1>5. Shape'
  BY <1>1, <1>2, <1>3, <1>4 DEF PhotosInv, Shape, Only, Stored
<1>6. Held'
  BY <1>1, <1>2, <1>3, <1>4, <1>5, MediaAssumption
  DEF PhotosInv, Shape, Held, Holding, Deleting, Stored, Only, Absent
<1>7. Spared'
  BY <1>1, <1>2, <1>3, <1>4, <1>5 DEF PhotosInv, Shape, Held, Holding, Spared, Only
<1>8. RowsHaveObjects'
  BY <1>1, <1>3, <1>4 DEF PhotosInv, Shape, RowsHaveObjects, Stored
<1> QED
  BY <1>5, <1>6, <1>7, <1>8 DEF PhotosInv

\* The row is written while its object is there and nobody is about to take it.
LEMMA AddInsertInv ==
    ASSUME NEW t \in Tabs, PhotosInv, AddInsert(t) \/ AddInsertReplyLost(t)
    PROVE  PhotosInv'
<1>1. RowKeys' \subseteq RowKeys \union {tab[t].photo} /\ DOMAIN rows' = Photos
  BY DEF AddInsert, AddInsertReplyLost, InsertRow, RowKeys, PhotosInv, Shape
<1>2. \/ Only(t, "uploaded", NoPhoto) /\ UNCHANGED replyLost
      \/ Only(t, "compensate", tab[t].photo) /\ replyLost' = replyLost \union {tab[t].photo}
  <2>1. CASE AddInsert(t)
    BY <2>1, InsertedTab DEF AddInsert, PhotosInv, Shape
  <2>2. CASE AddInsertReplyLost(t)
    BY <2>2 DEF AddInsertReplyLost, PhotosInv, Shape, TabShape, TabFields, Only
  <2> QED
    BY <2>1, <2>2
<1>3. UNCHANGED <<issued, object, cleaner, clock>> /\ tab[t].pc = "insert"
  BY DEF AddInsert, AddInsertReplyLost, bucketVars
<1>4. Shape'
  BY <1>1, <1>2, <1>3 DEF PhotosInv, Shape, Held, Holding, Only, Stored
<1>5. Held'
  BY <1>1, <1>2, <1>3 DEF PhotosInv, Held, Holding, Deleting, Stored, Only
<1>6. Spared'
  <2>1. ASSUME cleaner.pc = "list" PROVE Spared'
    BY <1>1, <1>2, <1>3, <2>1, MediaAssumption
    DEF PhotosInv, Shape, Spared, Held, Holding, Stored, Only, Absent
  <2>2. ASSUME cleaner.pc # "list" PROVE Spared'
    BY <1>1, <1>2, <1>3, <2>2 DEF PhotosInv, Spared, Only
  <2> QED
    BY <2>1, <2>2
<1>7. RowsHaveObjects'
  BY <1>1, <1>2, <1>3 DEF PhotosInv, RowsHaveObjects, Held, Stored, Holding
<1> QED
  BY <1>4, <1>5, <1>6, <1>7 DEF PhotosInv

\* A step that goes on holding a photo, and changes neither rows nor objects.
LEMMA HoldInv ==
    ASSUME NEW t \in Tabs, NEW pc, NEW photo, PhotosInv, Only(t, pc, photo),
           \/ pc \in Deleting /\ photo \in RowKeys
           \/ pc = "compensate" /\ tab[t].pc = "insert" /\ photo = tab[t].photo,
           UNCHANGED <<rows, issued, replyLost, object, cleaner, clock>>
    PROVE  PhotosInv'
<1>1. RowKeys' = RowKeys
  BY DEF RowKeys
<1>2. Shape'
  BY <1>1 DEF PhotosInv, Shape, Only, Stored
<1>3. Held'
  BY <1>1, <1>2 DEF PhotosInv, Shape, Held, Holding, Deleting, Stored, Only
<1>4. Spared'
  BY <1>1 DEF PhotosInv, Spared, Deleting, Only
<1>5. RowsHaveObjects'
  BY <1>1 DEF PhotosInv, RowsHaveObjects, Stored
<1> QED
  BY <1>2, <1>3, <1>4, <1>5 DEF PhotosInv

\* Numbering photos again keeps exactly the rows that stay.
LEMMA RenumberedKeys ==
    ASSUME NEW order, NEW gone, ToSet(order) \subseteq RowKeys, DOMAIN rows = Photos,
           rows' = Renumbered(order, gone)
    PROVE  DOMAIN rows' = Photos /\ RowKeys' \subseteq RowKeys \ {gone}
  BY DEF Renumbered, RowKeys

\* The photo a delete takes has no row before its object goes.
LEMMA DeleteCommitInv ==
    ASSUME NEW t \in Tabs, PhotosInv, DeleteCommit(t)
    PROVE  PhotosInv'
<1>1. DOMAIN rows' = Photos /\ RowKeys' \subseteq RowKeys \ {tab[t].photo}
  <2>1. ToSet(tab[t].order) \subseteq RowKeys
    BY DEF DeleteCommit
  <2> QED
    BY <2>1, RenumberedKeys DEF DeleteCommit, PhotosInv, Shape
<1>2. UNCHANGED <<issued, replyLost, object, cleaner, clock>>
  BY DEF DeleteCommit
<1>3. CASE Reload(t)
  <2>1. Only(t, "refresh", NoPhoto)
    BY <1>3, ReloadTab DEF PhotosInv, Shape
  <2> QED
    BY <1>1, <1>2, <2>1, LetGoInv DEF Holding, Deleting
<1>4. CASE tab' = [tab EXCEPT ![t].pc = "removeObject", ![t].order = <<>>]
  <2>1. Only(t, "removeObject", tab[t].photo)
    BY <1>4 DEF PhotosInv, Shape, TabShape, TabFields, Only
  <2>2. tab[t].photo \in RowKeys
    BY DEF DeleteCommit
  <2>3. Shape'
    BY <1>1, <1>2, <2>1 DEF PhotosInv, Shape, Only, Stored
  <2>4. Held'
    BY <1>1, <1>2, <2>1, <2>2 DEF PhotosInv, Shape, Held, Holding, Deleting, Stored, Only
  <2>5. Spared'
    BY <1>1, <1>2, <2>1 DEF PhotosInv, Spared, Only
  <2>6. RowsHaveObjects'
    BY <1>1, <1>2 DEF PhotosInv, RowsHaveObjects, Stored
  <2> QED
    BY <2>3, <2>4, <2>5, <2>6 DEF PhotosInv
<1> QED
  BY <1>3, <1>4 DEF DeleteCommit

\* A compensation and the end of a delete take an object no row has.
LEMMA ObjectGoesInv ==
    ASSUME NEW t \in Tabs, PhotosInv, AddCompensate(t) \/ DeleteObject(t)
    PROVE  PhotosInv'
<1>1. PICK pc \in {"idle", "refresh"} : Only(t, pc, NoPhoto)
  <2>1. CASE AddCompensate(t)
    BY <2>1, AnsweredTab DEF AddCompensate, PhotosInv, Shape
  <2>2. CASE DeleteObject(t)
    BY <2>2, ReloadTab DEF DeleteObject, PhotosInv, Shape
  <2> QED
    BY <2>1, <2>2
<1>2. /\ UNCHANGED <<rows, issued, replyLost, cleaner, clock>>
      /\ RemoveObjects({tab[t].photo})
      /\ tab[t].pc \in {"compensate", "removeObject"}
  BY DEF AddCompensate, DeleteObject
<1>3. RowKeys' = RowKeys
  BY <1>2 DEF RowKeys
<1>4. /\ object' \in [Keys -> {Absent} \union Nat]
      /\ \A k \in Keys \ {tab[t].photo} : object'[k] = object[k]
      /\ \A k \in Keys : object'[k] \in {Absent, object[k]}
  BY <1>2 DEF RemoveObjects, DropObjects, PhotosInv, Shape
<1>5. Shape'
  BY <1>1, <1>2, <1>3, <1>4 DEF PhotosInv, Shape, Only, Stored
<1>6. \A u \in Tabs : tab'[u].pc \in Holding \union Deleting => tab'[u] = tab[u] /\ u # t
  BY <1>1 DEF Only, Holding, Deleting
<1>7. \A u \in Tabs : tab'[u].pc = "insert" =>
        tab[u].photo # tab[t].photo /\ tab[u].photo \in Keys
  BY <1>2, <1>6 DEF PhotosInv, Shape, Held, Holding
<1>8. Held'
  BY <1>2, <1>3, <1>4, <1>6, <1>7 DEF PhotosInv, Held, Holding, Deleting, Stored
<1>9. Spared'
  BY <1>2, <1>3, <1>4, <1>5, <1>6
  DEF PhotosInv, Shape, Held, Spared, Holding, RowKeys
<1>10. RowsHaveObjects'
  BY <1>2, <1>3, <1>4 DEF PhotosInv, RowsHaveObjects, Held, Stored, RowKeys
<1> QED
  BY <1>5, <1>8, <1>9, <1>10 DEF PhotosInv

\* Refusals, refreshes, aborted transactions, crashes and a committed reorder.
LEMMA QuietInv ==
    ASSUME NEW t \in Tabs, PhotosInv,
           \/ RouteRefuses(t) \/ AddBegin(t) \/ AddCount(t)
           \/ DeleteAborts(t) \/ ReorderBegin(t) \/ ReorderCommit(t) \/ ReorderAborts(t)
           \/ Refresh(t) \/ Abandon(t)
    PROVE  PhotosInv'
<1> DEFINE Lets == {"idle", "add", "count", "upload", "refresh", "reorder"}
<1>1. TabShape
  BY DEF PhotosInv, Shape
<1>2. /\ UNCHANGED <<issued, replyLost, object, cleaner, clock>>
      /\ DOMAIN rows' = Photos /\ RowKeys' \subseteq RowKeys
  <2>1. CASE ReorderCommit(t)
    <3>1. ToSet(tab[t].order) \subseteq RowKeys
      BY <2>1 DEF ReorderCommit
    <3> QED
      BY <2>1, <3>1, RenumberedKeys DEF ReorderCommit, PhotosInv, Shape
  <2>2. CASE UNCHANGED <<rows, issued, replyLost, object, cleaner, clock>>
    BY <2>2 DEF PhotosInv, Shape, RowKeys
  <2> QED
    BY <2>1, <2>2
    DEF RouteRefuses, AddBegin, AddCount, DeleteAborts, ReorderBegin, ReorderAborts, ReorderFails,
        Refresh, Abandon, bucketVars
<1>3. \E pc \in Lets : \E photo : Only(t, pc, photo)
  <2>1. CASE RouteRefuses(t) \/ Abandon(t)
    BY <1>1, <2>1, AnsweredTab DEF RouteRefuses, Abandon
  <2>2. CASE AddBegin(t)
    BY <1>1, <2>2, AnsweredTab, GotoTab DEF AddBegin
  <2>3. CASE AddCount(t)
    <3>1. \/ Answered(t)
          \/ tab' = [tab EXCEPT ![t].pc = "upload", ![t].at = Cardinality(RowKeys)]
      BY <2>3 DEF AddCount
    <3> QED
      BY <1>1, <3>1, AnsweredTab, CountedTab
  <2>4. CASE DeleteAborts(t) \/ ReorderAborts(t)
    BY <1>1, <2>4, ReloadTab DEF DeleteAborts, ReorderAborts
  <2>5. CASE ReorderBegin(t)
    <3>1. PICK next :
            tab' = [tab EXCEPT ![t] =
                IF editable /\ ToSet(next) = RowKeys
                THEN [TabIdle EXCEPT !.pc = "reorder", !.shown = next, !.order = next]
                ELSE [TabIdle EXCEPT !.pc = "refresh", !.shown = next]]
      BY <2>5 DEF ReorderBegin
    <3> QED
      BY <1>1, <3>1 DEF TabShape, TabFields, Only, TabIdle
  <2>6. CASE ReorderCommit(t)
    BY <1>1, <2>6, AnsweredTab, ReloadTab DEF ReorderCommit
  <2>7. CASE Refresh(t)
    BY <1>1, <2>7, RefreshedTab DEF Refresh
  <2> QED
    BY <2>1, <2>2, <2>3, <2>4, <2>5, <2>6, <2>7
<1> QED
  BY <1>2, <1>3, LetGoInv DEF Holding, Deleting

\* Every step of a tab keeps the invariant of the photos.
LEMMA TabStepInv ==
    ASSUME NEW t \in Tabs, PhotosInv, TabStep(t)
    PROVE  PhotosInv'
<1>1. TabShape
  BY DEF PhotosInv, Shape
<1>2. CASE AddInsertFails(t)
  <2>1. Only(t, "compensate", tab[t].photo)
    BY <1>1, <1>2 DEF AddInsertFails, TabShape, TabFields, Only
  <2> QED
    BY <1>2, <2>1, HoldInv DEF AddInsertFails
<1>3. CASE DeleteBegin(t)
  <2>1. PICK k : \/ k \in RowKeys /\ tab' = [tab EXCEPT ![t].pc = "take", ![t].photo = k]
                 \/ Reload(t)
    BY <1>3 DEF DeleteBegin
  <2>2. \/ k \in RowKeys /\ Only(t, "take", k)
        \/ Only(t, "refresh", NoPhoto)
    BY <1>1, <2>1, ReloadTab DEF TabShape, TabFields, Only
  <2>3. UNCHANGED <<rows, issued, replyLost, object, cleaner, clock>>
    BY <1>3 DEF DeleteBegin, bucketVars
  <2>4. DOMAIN rows' = Photos /\ RowKeys' = RowKeys
    BY <2>3 DEF PhotosInv, Shape, RowKeys
  <2> QED
    BY <2>2, <2>3, <2>4, HoldInv, LetGoInv DEF Holding, Deleting
<1>4. CASE DeleteRead(t)
  <2>1. \/ tab[t].photo \in RowKeys /\ Only(t, "renumber", tab[t].photo)
        \/ Only(t, "refresh", NoPhoto)
    BY <1>1, <1>4, ReloadTab DEF DeleteRead, TabShape, TabFields, Only
  <2>2. UNCHANGED <<rows, issued, replyLost, object, cleaner, clock>>
    BY <1>4 DEF DeleteRead, bucketVars
  <2>3. DOMAIN rows' = Photos /\ RowKeys' = RowKeys
    BY <2>2 DEF PhotosInv, Shape, RowKeys
  <2> QED
    BY <2>1, <2>2, <2>3, HoldInv, LetGoInv DEF Holding, Deleting
<1> QED
  BY <1>2, <1>3, <1>4, AddUploadInv, AddInsertInv, DeleteCommitInv, ObjectGoesInv, QuietInv
  DEF TabStep, UploadStep, DeleteStep, ReorderStep

\* The command, the clock, the editors and a change of status leave the tabs alone.
LEMMA CleanerInv ==
    ASSUME PhotosInv, CleanerStep, UNCHANGED photoVars
    PROVE  PhotosInv'
<1>1. RowKeys' = RowKeys /\ UNCHANGED <<rows, issued, tab, replyLost, clock>>
  BY DEF photoVars, RowKeys, CleanerStep, ReconcileBegin, ReconcileList, ReconcileRemove
<1>2. CASE ReconcileBegin(RowKeys)
  <2>1. /\ cleaner' = [CleanerIdle EXCEPT !.pc = "list", !.known = RowKeys, !.at = clock]
        /\ UNCHANGED object
    BY <1>2 DEF ReconcileBegin
  <2>2. Shape'
    BY <1>1, <2>1 DEF PhotosInv, Shape, TabShape, Stored, CleanerIdle
  <2> QED
    BY <1>1, <2>1, <2>2
    DEF PhotosInv, Shape, Held, Spared, RowsHaveObjects, Stored, CleanerIdle
<1>3. CASE ReconcileList
  <2>1. UNCHANGED object
    BY <1>3 DEF ReconcileList
  <2>2. Held' /\ RowsHaveObjects'
    BY <1>1, <2>1 DEF PhotosInv, Held, RowsHaveObjects, Stored
  <2>3. CASE cleaner' = CleanerIdle
    <3>1. Shape'
      BY <1>1, <2>1, <2>3 DEF PhotosInv, Shape, TabShape, Stored, CleanerIdle
    <3>2. Spared'
      BY <2>3 DEF Spared, CleanerIdle
    <3> QED
      BY <2>2, <3>1, <3>2 DEF PhotosInv
  <2>4. CASE /\ cleaner.pc = "list"
             /\ cleaner' = [cleaner EXCEPT !.pc = "remove", !.orphans = OrphanObjects]
    <3>1. OrphanObjects \subseteq Keys \ Nested /\ OrphanObjects \subseteq issued
      BY DEF OrphanObjects, Listed, PhotosInv, Shape
    <3>2. /\ cleaner'.pc = "remove" /\ cleaner'.orphans = OrphanObjects
          /\ cleaner' \in [pc: {"idle", "list", "remove"}, known: SUBSET Keys, at: Nat,
                           orphans: SUBSET (Keys \ Nested)]
      BY <2>4, <3>1 DEF PhotosInv, Shape
    <3>3. Shape'
      BY <1>1, <2>1, <3>1, <3>2 DEF PhotosInv, Shape, TabShape, Stored
    <3>4. cleaner.at \in Nat /\ cleaner.at <= clock /\ clock \in Nat
      BY <2>4 DEF PhotosInv, Shape, Spared
    <3>5. OrphanObjects \intersect (RowKeys \ replyLost) = {}
      <4>1. SUFFICES ASSUME NEW k \in OrphanObjects, k \in RowKeys \ replyLost
                     PROVE  FALSE
        OBVIOUS
      <4>2. k \notin cleaner.known /\ cleaner.at - object[k] >= MinAge
        BY DEF OrphanObjects
      <4>3. cleaner.at - object[k] < MinAge
        BY <2>4, <4>1, <4>2 DEF PhotosInv, Spared
      <4>4. object[k] \in Int
        BY <3>1 DEF PhotosInv, Shape, Absent
      <4> QED
        BY <3>4, <4>2, <4>3, <4>4, MediaAssumption
    <3>6. ASSUME NEW t \in Tabs, tab[t].pc = "insert"
          PROVE  tab[t].photo \notin OrphanObjects
      <4>1. clock - object[tab[t].photo] < MinAge /\ tab[t].photo \in Photos
        BY <3>6 DEF PhotosInv, Shape, Held, Holding
      <4>2. object[tab[t].photo] \in Int
        BY <4>1 DEF PhotosInv, Shape, Absent
      <4> QED
        BY <3>4, <4>1, <4>2, MediaAssumption DEF OrphanObjects
    <3>7. Spared'
      BY <1>1, <3>2, <3>5, <3>6 DEF Spared
    <3> QED
      BY <2>2, <3>3, <3>7 DEF PhotosInv
  <2> QED
    BY <1>3, <2>3, <2>4 DEF ReconcileList
<1>4. CASE ReconcileRemove
  <2>1. /\ cleaner.pc = "remove" /\ cleaner' = CleanerIdle
        /\ object' \in [Keys -> {Absent} \union Nat]
        /\ \A k \in Keys :
            object'[k] = object[k] \/ (k \in cleaner.orphans /\ object'[k] = Absent)
    BY <1>4 DEF ReconcileRemove, RemoveObjects, DropObjects, PhotosInv, Shape
  <2>2. Shape'
    BY <1>1, <2>1 DEF PhotosInv, Shape, TabShape, Stored, CleanerIdle
  <2>3. Held'
    BY <1>1, <2>1 DEF PhotosInv, Shape, Held, Spared, Stored, Holding
  <2>4. Spared' /\ RowsHaveObjects'
    BY <1>1, <2>1 DEF PhotosInv, Shape, Spared, RowsHaveObjects, Stored, CleanerIdle, RowKeys
  <2> QED
    BY <2>2, <2>3, <2>4 DEF PhotosInv
<1> QED
  BY <1>2, <1>3, <1>4 DEF CleanerStep

\* Time passes only while uploads in flight stay younger than MinAge.
LEMMA ClockInv ==
    ASSUME PhotosInv, ClockTick(InFlight), UNCHANGED photoVars
    PROVE  PhotosInv'
<1>1. RowKeys' = RowKeys /\ UNCHANGED <<rows, issued, tab, replyLost, object, cleaner>>
  BY DEF photoVars, RowKeys, ClockTick
<1>2. /\ clock' = clock + 1
      /\ \A t \in Tabs : tab[t].pc = "insert" =>
            (Stored(tab[t].photo) => clock + 1 - object[tab[t].photo] < MinAge)
  BY DEF ClockTick, InFlight
<1>3. Shape'
  BY <1>1, <1>2 DEF PhotosInv, Shape, TabShape, Stored
<1>4. Held'
  <2>1. ASSUME NEW t \in Tabs, tab[t].pc = "insert"
        PROVE  clock' - object[tab[t].photo] < MinAge
    <3>1. Stored(tab[t].photo) /\ tab[t].photo \in Keys
      BY <2>1 DEF PhotosInv, Shape, Held, Holding
    <3>2. object[tab[t].photo] \in Int /\ clock \in Nat
      BY <3>1 DEF PhotosInv, Shape, Absent
    <3> QED
      BY <1>2, <2>1, <3>1, <3>2, MediaAssumption
  <2>2. Held
    BY DEF PhotosInv
  <2> QED
    BY <1>1, <2>1, <2>2 DEF Held, Stored
<1>5. Spared'
  <2>1. cleaner.pc = "list" => cleaner.at <= clock'
    BY <1>2 DEF PhotosInv, Shape, Spared
  <2> QED
    BY <1>1, <2>1 DEF PhotosInv, Spared
<1>6. RowsHaveObjects'
  BY <1>1 DEF PhotosInv, RowsHaveObjects, Stored
<1> QED
  BY <1>3, <1>4, <1>5, <1>6 DEF PhotosInv

\* Objects of other folders do not matter to the photos.
LEMMA OtherObjectsInv ==
    ASSUME PhotosInv, UNCHANGED <<rows, issued, tab, replyLost, cleaner, clock>>,
           object' \in [Keys -> {Absent} \union Nat],
           \A k \in Photos : object'[k] = object[k]
    PROVE  PhotosInv'
<1>1. RowKeys' = RowKeys
  BY DEF RowKeys
<1>2. Shape'
  BY <1>1 DEF PhotosInv, Shape, TabShape, Stored
<1>3. Held'
  BY <1>1 DEF PhotosInv, Shape, Held, Stored, Holding
<1>4. Spared' /\ RowsHaveObjects'
  BY <1>1 DEF PhotosInv, Shape, Spared, RowsHaveObjects, Stored, RowKeys
<1> QED
  BY <1>2, <1>3, <1>4 DEF PhotosInv

-----------------------------------------------------------------------------
(* The inductive invariant of the slot *)

Pending == {"readOld", "upsert"}

SlotShape ==
    /\ slot \in [key: slotIssued \union {NoKey}, alt: Editors \union {NoKey}]
    /\ slotIssued \subseteq Nested
    /\ editor \in [Editors -> [pc: {"idle", "readOld", "upsert", "compensate", "removeOld"},
                               key: slotIssued \union {NoKey}, old: slotIssued \union {NoKey}]]
    /\ \A e \in Editors : editor[e].pc # "idle" => editor[e].key \in slotIssued

\* A key on its way into the row is in no other hand, and what is taken away
\* after the row moved on does not come back.
SlotHeld ==
    \A e \in Editors :
        /\ editor[e].pc \in Pending =>
            /\ Stored(editor[e].key)
            /\ editor[e].key # slot.key
            /\ editor[e].key # editor[e].old
            /\ \A f \in Editors \ {e} :
                editor[f].pc # "idle" => editor[e].key \notin {editor[f].key, editor[f].old}
        /\ editor[e].pc = "compensate" => editor[e].key \in slotReplyLost \/ editor[e].key # slot.key
        /\ editor[e].pc = "removeOld" => editor[e].old # slot.key

SlotInv == SlotShape /\ SlotHeld /\ SlotHasObject

\* The slot without a row is in order.
LEMMA InitSlotInv == Init => SlotInv
  BY MediaAssumption
  DEF Init, HomepageInit, SlotInv, SlotShape, SlotHeld, SlotHasObject, NoOverride, EditorIdle,
      Pending, NoKey, NoPhoto

NoKeyIsNoKey == NoKey \notin Nested

\* No key reads as the absent one.
LEMMA NoneIsNoKey == NoKeyIsNoKey
  BY MediaAssumption DEF NoKeyIsNoKey, NoKey, NoPhoto

\* The photos, the command and the clock leave the objects of the slot alone.
LEMMA OthersSlotInv ==
    ASSUME SlotInv, UNCHANGED homepageVars, \A k \in Nested : object'[k] = object[k]
    PROVE  SlotInv'
<1>1. UNCHANGED <<slot, slotIssued, editor, slotReplyLost>>
  BY DEF homepageVars
<1>2. SlotShape'
  BY <1>1 DEF SlotInv, SlotShape
<1>3. SlotHeld'
  BY <1>1 DEF SlotInv, SlotShape, SlotHeld, Stored, Pending
<1>4. SlotHasObject'
  BY <1>1 DEF SlotInv, SlotHasObject, ResolvedOverride, Stored
<1> QED
  BY <1>2, <1>3, <1>4 DEF SlotInv

\* A new key is in no hand but this editor's.
LEMMA ReplaceUploadInv ==
    ASSUME NEW e \in Editors, SlotInv, Shape, ReplaceUpload(e)
    PROVE  SlotInv'
<1>1. PICK k \in Nested \ slotIssued :
        /\ slotIssued' = slotIssued \union {k}
        /\ \/ Store(k) /\ editor' = [editor EXCEPT ![e].pc = "readOld", ![e].key = k]
           \/ Store(k) /\ Saved(e)
           \/ UNCHANGED object /\ Saved(e)
  BY DEF ReplaceUpload
<1>2. UNCHANGED <<slot, slotReplyLost>> /\ editor[e].pc = "idle"
  BY DEF ReplaceUpload, CanSave
<1>3. /\ \A j \in Keys \ {k} : object'[j] = object[j]
      /\ Store(k) => object'[k] \in Nat
  BY <1>1, MediaAssumption DEF Store, Shape
<1>4. CASE editor' = [editor EXCEPT ![e].pc = "readOld", ![e].key = k] /\ Store(k)
  <2>1. /\ editor'[e].pc = "readOld" /\ editor'[e].key = k /\ editor'[e].old = editor[e].old
        /\ \A f \in Editors \ {e} : editor'[f] = editor[f]
    BY <1>4 DEF SlotInv, SlotShape
  <2>2. SlotShape'
    BY <1>1, <1>2, <1>4, <2>1 DEF SlotInv, SlotShape
  <2>3. SlotHeld'
    BY <1>1, <1>2, <1>3, <1>4, <2>1, NoneIsNoKey, MediaAssumption
    DEF SlotInv, SlotShape, SlotHeld, Stored, Pending, Absent, NoKeyIsNoKey
  <2>4. SlotHasObject'
    BY <1>1, <1>2, <1>3, MediaAssumption
    DEF SlotInv, SlotShape, SlotHasObject, ResolvedOverride, Stored
  <2> QED
    BY <2>2, <2>3, <2>4 DEF SlotInv
<1>5. CASE Saved(e)
  <2>1. /\ editor'[e] = EditorIdle
        /\ \A f \in Editors \ {e} : editor'[f] = editor[f]
    BY <1>5 DEF SlotInv, SlotShape, Saved
  <2>2. SlotShape'
    BY <1>1, <1>2, <1>5, <2>1 DEF SlotInv, SlotShape, Saved, EditorIdle
  <2>3. SlotHeld'
    BY <1>1, <1>2, <1>3, <2>1, NoneIsNoKey, MediaAssumption
    DEF SlotInv, SlotShape, SlotHeld, Stored, Pending, Absent, NoKeyIsNoKey, EditorIdle
  <2>4. SlotHasObject'
    BY <1>1, <1>2, <1>3, MediaAssumption
    DEF SlotInv, SlotShape, SlotHasObject, ResolvedOverride, Stored
  <2> QED
    BY <2>2, <2>3, <2>4 DEF SlotInv
<1> QED
  BY <1>1, <1>4, <1>5

\* The old key is the one shown, so nobody has it on its way in.
LEMMA ReplaceReadOldInv ==
    ASSUME NEW e \in Editors, SlotInv, ReplaceReadOld(e)
    PROVE  SlotInv'
<1>1. /\ editor[e].pc = "readOld"
      /\ editor' = [editor EXCEPT ![e].pc = "upsert", ![e].old = slot.key]
      /\ UNCHANGED <<slot, slotIssued, slotReplyLost, object>>
  BY DEF ReplaceReadOld, bucketVars
<1>2. /\ editor'[e].pc = "upsert" /\ editor'[e].key = editor[e].key /\ editor'[e].old = slot.key
      /\ \A f \in Editors \ {e} : editor'[f] = editor[f]
  BY <1>1 DEF SlotInv, SlotShape
<1>3. SlotShape'
  BY <1>1, <1>2 DEF SlotInv, SlotShape
<1>4. SlotHeld'
  BY <1>1, <1>2 DEF SlotInv, SlotShape, SlotHeld, Stored, Pending
<1>5. SlotHasObject'
  BY <1>1 DEF SlotInv, SlotHasObject, ResolvedOverride, Stored
<1> QED
  BY <1>3, <1>4, <1>5 DEF SlotInv

\* The row moves on to an object that is there; the old key never comes back.
LEMMA ReplaceUpsertInv ==
    ASSUME NEW e \in Editors, SlotInv, ReplaceUpsert(e) \/ ReplaceReplyLost(e)
    PROVE  SlotInv'
<1>1. /\ editor[e].pc = "upsert"
      /\ slot' = [key |-> editor[e].key, alt |-> e]
      /\ UNCHANGED <<slotIssued, object>>
      /\ \/ EditorAt(e, "removeOld") /\ UNCHANGED slotReplyLost
         \/ EditorAt(e, "compensate") /\ slotReplyLost' = slotReplyLost \union {editor[e].key}
  BY DEF ReplaceUpsert, ReplaceReplyLost, bucketVars
<1>2. /\ editor'[e].key = editor[e].key /\ editor'[e].old = editor[e].old
      /\ \A f \in Editors \ {e} : editor'[f] = editor[f]
      /\ \/ editor'[e].pc = "removeOld" /\ UNCHANGED slotReplyLost
         \/ editor'[e].pc = "compensate" /\ slotReplyLost' = slotReplyLost \union {editor[e].key}
  BY <1>1 DEF SlotInv, SlotShape, EditorAt
<1>3. slot'.key = editor[e].key /\ editor[e].key \in slotIssued
  BY <1>1 DEF SlotInv, SlotShape
<1>4. SlotShape'
  BY <1>1, <1>2, <1>3 DEF SlotInv, SlotShape, EditorAt
<1>5. SlotHeld'
  BY <1>1, <1>2, <1>3 DEF SlotInv, SlotShape, SlotHeld, Stored, Pending
<1>6. SlotHasObject'
  BY <1>1, <1>2, <1>3, NoneIsNoKey
  DEF SlotInv, SlotShape, SlotHeld, SlotHasObject, ResolvedOverride, Stored, Pending, NoOverride,
      NoKeyIsNoKey
<1> QED
  BY <1>4, <1>5, <1>6 DEF SlotInv

\* A failed upsert leaves the row on another key.
LEMMA ReplaceUpsertFailsInv ==
    ASSUME NEW e \in Editors, SlotInv, ReplaceUpsertFails(e)
    PROVE  SlotInv'
<1>1. /\ editor[e].pc = "upsert" /\ EditorAt(e, "compensate")
      /\ UNCHANGED <<slot, slotIssued, slotReplyLost, object>>
  BY DEF ReplaceUpsertFails
<1>2. /\ editor'[e].pc = "compensate"
      /\ editor'[e].key = editor[e].key /\ editor'[e].old = editor[e].old
      /\ \A f \in Editors \ {e} : editor'[f] = editor[f]
  BY <1>1 DEF SlotInv, SlotShape, EditorAt
<1>3. SlotShape'
  BY <1>1, <1>2 DEF SlotInv, SlotShape, EditorAt
<1>4. SlotHeld'
  BY <1>1, <1>2 DEF SlotInv, SlotShape, SlotHeld, Stored, Pending
<1>5. SlotHasObject'
  BY <1>1 DEF SlotInv, SlotHasObject, ResolvedOverride, Stored
<1> QED
  BY <1>3, <1>4, <1>5 DEF SlotInv

\* What an editor removes is neither shown nor on its way into the row.
LEMMA ReplaceEndsInv ==
    ASSUME NEW e \in Editors, SlotInv, Shape,
           ReplaceCompensate(e) \/ ReplaceRemoveOld(e) \/ ReplaceCrash(e)
    PROVE  SlotInv'
<1>1. Saved(e) /\ UNCHANGED <<slot, slotIssued, slotReplyLost>>
  BY DEF ReplaceCompensate, ReplaceRemoveOld, ReplaceCrash
<1>2. /\ editor'[e] = EditorIdle
      /\ \A f \in Editors \ {e} : editor'[f] = editor[f]
  BY <1>1 DEF SlotInv, SlotShape, Saved
<1>3. PICK gone :
        /\ \A k \in Keys : k # gone => object'[k] = object[k]
        /\ \/ editor[e].pc = "compensate" /\ gone = editor[e].key
           \/ editor[e].pc = "removeOld" /\ gone = editor[e].old
           \/ UNCHANGED object
  <2>1. CASE ReplaceCompensate(e)
    <3>1. \A k \in Keys : k # editor[e].key => object'[k] = object[k]
      BY <2>1 DEF ReplaceCompensate, RemoveObjects, DropObjects
    <3> QED
      BY <2>1, <3>1 DEF ReplaceCompensate
  <2>2. CASE ReplaceRemoveOld(e)
    <3>1. \A k \in Keys : k # editor[e].old => object'[k] = object[k]
      BY <2>2 DEF ReplaceRemoveOld, RemoveObjects, DropObjects
    <3> QED
      BY <2>2, <3>1 DEF ReplaceRemoveOld
  <2>3. CASE ReplaceCrash(e)
    BY <2>3 DEF ReplaceCrash
  <2> QED
    BY <2>1, <2>2, <2>3
<1>4. SlotShape'
  BY <1>1, <1>2 DEF SlotInv, SlotShape, Saved, EditorIdle
<1>5. slotIssued \subseteq Keys
  BY MediaAssumption DEF SlotInv, SlotShape
<1>6. \A f \in Editors \ {e} : editor[f].pc \in Pending => Stored(editor[f].key)'
  <2>1. ASSUME NEW f \in Editors \ {e}, editor[f].pc \in Pending
        PROVE  /\ editor[f].key \in slotIssued /\ Stored(editor[f].key)
               /\ editor[e].pc # "idle" => editor[f].key \notin {editor[e].key, editor[e].old}
    BY <2>1 DEF SlotInv, SlotShape, SlotHeld, Pending
  <2> QED
    BY <1>2, <1>3, <1>5, <2>1 DEF Stored
<1>7. SlotHeld'
  BY <1>1, <1>2, <1>6 DEF SlotInv, SlotHeld, Pending, EditorIdle, Stored
<1>8. SlotHasObject'
  <2>1. slot.key \in Nested \ slotReplyLost => slot.key # gone \/ UNCHANGED object
    BY <1>3 DEF SlotInv, SlotHeld
  <2> QED
    BY <1>1, <1>3, <2>1, MediaAssumption DEF SlotInv, SlotHasObject, ResolvedOverride, Stored
<1> QED
  BY <1>4, <1>7, <1>8 DEF SlotInv

\* Another text keeps the key.
LEMMA UpdateAltInv ==
    ASSUME NEW e \in Editors, SlotInv, UpdateAlt(e)
    PROVE  SlotInv'
<1>1. /\ slot' = [slot EXCEPT !.alt = e] /\ slot # NoOverride
      /\ UNCHANGED <<slotIssued, editor, slotReplyLost, object>>
  BY DEF UpdateAlt, bucketVars
<1>2. slot'.key = slot.key
  BY <1>1 DEF SlotInv, SlotShape
<1>3. SlotShape'
  BY <1>1, <1>2 DEF SlotInv, SlotShape
<1>4. SlotHeld'
  BY <1>1, <1>2 DEF SlotInv, SlotShape, SlotHeld, Stored, Pending
<1>5. SlotHasObject'
  <2>1. slot.key \in Nested => slot' # NoOverride
    BY <1>2, NoneIsNoKey DEF NoOverride, NoKeyIsNoKey
  <2>2. slot.key \in Nested => slot # NoOverride
    BY NoneIsNoKey DEF NoOverride, NoKeyIsNoKey
  <2> QED
    BY <1>1, <1>2, <2>1, <2>2 DEF SlotInv, SlotHasObject, ResolvedOverride, Stored
<1> QED
  BY <1>3, <1>4, <1>5 DEF SlotInv

\* What an editor stores or takes away is a folder deeper than the photos.
LEMMA EditorsSparePhotos ==
    ASSUME NEW e \in Editors, PhotosInv, SlotInv, EditorStep(e), UNCHANGED photoVars
    PROVE  PhotosInv'
<1>1. UNCHANGED <<rows, issued, tab, replyLost, cleaner, clock>>
  BY DEF photoVars, bucketVars, EditorStep, ReplaceUpload, ReplaceReadOld, ReplaceUpsert,
         ReplaceUpsertFails, ReplaceReplyLost, ReplaceCompensate, ReplaceRemoveOld, UpdateAlt,
         ReplaceCrash
<1>2. object \in [Keys -> {Absent} \union Nat] /\ clock \in Nat
  BY DEF PhotosInv, Shape
<1>3. editor[e].key \in Nested \union {NoKey} /\ editor[e].old \in Nested \union {NoKey}
  BY DEF SlotInv, SlotShape
<1>4. NoKey \notin Photos
  BY MediaAssumption DEF Photos, NoKey, NoPhoto
<1>5. /\ object' \in [Keys -> {Absent} \union Nat]
      /\ \A k \in Photos : object'[k] = object[k]
  <2>1. CASE ReplaceUpload(e)
    <3>1. PICK k \in Nested : Store(k) \/ UNCHANGED object
      BY <2>1 DEF ReplaceUpload
    <3> QED
      BY <1>2, <3>1, MediaAssumption DEF Store, Photos
  <2>2. CASE ReplaceCompensate(e)
    BY <1>2, <1>3, <1>4, <2>2 DEF ReplaceCompensate, RemoveObjects, DropObjects, Photos
  <2>3. CASE ReplaceRemoveOld(e)
    BY <1>2, <1>3, <1>4, <2>3 DEF ReplaceRemoveOld, RemoveObjects, DropObjects, Photos
  <2>4. CASE ~(ReplaceUpload(e) \/ ReplaceCompensate(e) \/ ReplaceRemoveOld(e))
    <3>1. UNCHANGED object
      BY <2>4 DEF EditorStep, ReplaceReadOld, ReplaceUpsert, ReplaceUpsertFails,
                  ReplaceReplyLost, UpdateAlt, ReplaceCrash, bucketVars
    <3> QED
      BY <1>2, <3>1
  <2> QED
    BY <2>1, <2>2, <2>3, <2>4
<1> QED
  BY <1>1, <1>5, OtherObjectsInv

\* A tab stores and takes away photos only.
LEMMA TabsSpareSlot ==
    ASSUME NEW t \in Tabs, PhotosInv, TabStep(t)
    PROVE  \A k \in Nested : object'[k] = object[k]
<1>1. Nested \subseteq Keys /\ object \in [Keys -> {Absent} \union Nat]
  BY MediaAssumption DEF PhotosInv, Shape
<1>2. \A S \in SUBSET Photos : RemoveObjects(S) => \A k \in Nested : object'[k] = object[k]
  BY <1>1 DEF RemoveObjects, DropObjects, Photos
<1>3. CASE AddUpload(t)
  <2>1. PICK k \in Photos : Store(k) \/ UNCHANGED object
    BY <1>3 DEF AddUpload
  <2> QED
    BY <1>1, <2>1 DEF Store, Photos
<1>4. CASE AddCompensate(t)
  <2>1. tab[t].photo \in Photos
    BY <1>4 DEF AddCompensate, PhotosInv, Shape, Held, Holding
  <2> QED
    BY <1>2, <1>4, <2>1 DEF AddCompensate
<1>5. CASE DeleteObject(t)
  <2>1. tab[t].photo \in Photos
    BY <1>5 DEF DeleteObject, PhotosInv, Shape, Held, Holding
  <2> QED
    BY <1>2, <1>5, <2>1 DEF DeleteObject
<1>6. CASE ~(AddUpload(t) \/ AddCompensate(t) \/ DeleteObject(t))
  <2>1. UNCHANGED object
    BY <1>6 DEF TabStep, UploadStep, DeleteStep, ReorderStep, RouteRefuses, AddBegin, AddCount,
                AddInsert, AddInsertFails, AddInsertReplyLost, DeleteBegin, DeleteRead,
                DeleteCommit, DeleteAborts, ReorderBegin, ReorderCommit, ReorderAborts, Refresh,
                Abandon, bucketVars
  <2> QED
    BY <2>1
<1> QED
  BY <1>3, <1>4, <1>5, <1>6

\* The command lists the root folders only.
LEMMA CleanerSparesSlot ==
    ASSUME PhotosInv, CleanerStep
    PROVE  \A k \in Nested : object'[k] = object[k]
<1>1. Nested \subseteq Keys /\ object \in [Keys -> {Absent} \union Nat]
  BY MediaAssumption DEF PhotosInv, Shape
<1>2. cleaner.orphans \subseteq Photos
  BY DEF PhotosInv, Shape, Photos
<1> QED
  BY <1>1, <1>2 DEF CleanerStep, ReconcileBegin, ReconcileList, ReconcileRemove, RemoveObjects,
                    DropObjects, Photos

\* Every step of an editor keeps the invariant of the slot.
LEMMA EditorInv ==
    ASSUME NEW e \in Editors, PhotosInv, SlotInv, EditorStep(e)
    PROVE  SlotInv'
<1>1. Shape
  BY DEF PhotosInv
<1> QED
  BY <1>1, ReplaceUploadInv, ReplaceReadOldInv, ReplaceUpsertInv, ReplaceUpsertFailsInv,
     ReplaceEndsInv, UpdateAltInv DEF EditorStep

\* Both invariants hold after every step.
LEMMA NextInv ==
    ASSUME PhotosInv, SlotInv, [Next]_vars
    PROVE  PhotosInv' /\ SlotInv'
<1>1. ASSUME NEW t \in Tabs, TabStep(t), UNCHANGED homepageVars
      PROVE  PhotosInv' /\ SlotInv'
  BY <1>1, TabStepInv, TabsSpareSlot, OthersSlotInv
<1>2. ASSUME StatusChanges, UNCHANGED homepageVars
      PROVE  PhotosInv' /\ SlotInv'
  <2>1. UNCHANGED <<rows, issued, tab, replyLost, object, cleaner, clock>>
    BY <1>2 DEF StatusChanges, bucketVars
  <2>2. object' \in [Keys -> {Absent} \union Nat]
    BY <2>1 DEF PhotosInv, Shape
  <2> QED
    BY <1>2, <2>1, <2>2, OtherObjectsInv, OthersSlotInv
<1>3. ASSUME NEW e \in Editors, EditorStep(e), UNCHANGED photoVars
      PROVE  PhotosInv' /\ SlotInv'
  BY <1>3, EditorInv, EditorsSparePhotos
<1>4. ASSUME CleanerStep, UNCHANGED <<photoVars, homepageVars>>
      PROVE  PhotosInv' /\ SlotInv'
  BY <1>4, CleanerInv, CleanerSparesSlot, OthersSlotInv
<1>5. ASSUME ClockTick(InFlight), UNCHANGED <<photoVars, homepageVars>>
      PROVE  PhotosInv' /\ SlotInv'
  <2>1. UNCHANGED object
    BY <1>5 DEF ClockTick
  <2> QED
    BY <1>5, <2>1, ClockInv, OthersSlotInv
<1>6. ASSUME UNCHANGED vars
      PROVE  PhotosInv' /\ SlotInv'
  <2>1. UNCHANGED <<rows, issued, tab, replyLost, object, cleaner, clock>> /\ UNCHANGED homepageVars
    BY <1>6 DEF vars, photoVars, bucketVars
  <2>2. object' \in [Keys -> {Absent} \union Nat]
    BY <2>1 DEF PhotosInv, Shape
  <2> QED
    BY <2>1, <2>2, OtherObjectsInv, OthersSlotInv
<1> QED
  BY <1>1, <1>2, <1>3, <1>4, <1>5, <1>6 DEF Next

\* addListingImage, deleteListingImage, reorderListingImages and the reconcile
\* command, in every interleaving and with every call failing: a row keeps its
\* object unless the commit of its insert was reported as a failure.
THEOREM PhotosSafe == Spec => []RowsHaveObjects
<1>1. Init => PhotosInv /\ SlotInv
  BY InitPhotosInv, InitSlotInv
<1>2. PhotosInv /\ SlotInv /\ [Next]_vars => (PhotosInv /\ SlotInv)'
  BY NextInv
<1>3. PhotosInv => RowsHaveObjects
  BY DEF PhotosInv
<1> QED
  BY <1>1, <1>2, <1>3, PTL DEF Spec

\* replaceHomepageImage: whatever replacements overlap, the key of the row signs,
\* unless the commit of its upsert was reported as a failure.
THEOREM SlotSafe == Spec => []SlotHasObject
<1>1. Init => PhotosInv /\ SlotInv
  BY InitPhotosInv, InitSlotInv
<1>2. PhotosInv /\ SlotInv /\ [Next]_vars => (PhotosInv /\ SlotInv)'
  BY NextInv
<1>3. SlotInv => SlotHasObject
  BY DEF SlotInv
<1> QED
  BY <1>1, <1>2, <1>3, PTL DEF Spec

-----------------------------------------------------------------------------
(* The limit of photos *)

Uploading == {t \in Tabs : tab[t].pc \in {"upload", "insert"}}

\* A step of a request adds no row and no upload, or starts an upload below the limit,
\* or turns its upload into a row.
LEMMA UploadOrLess ==
    ASSUME NEW t \in Tabs, PhotosInv, TabStep(t)
    PROVE  \/ RowKeys' \subseteq RowKeys /\ Uploading' \subseteq Uploading
           \/ RowKeys' = RowKeys /\ Cardinality(RowKeys) < MaxImages
           \/ /\ t \in Uploading /\ Uploading' \subseteq Uploading \ {t}
              /\ \E k : RowKeys' \subseteq RowKeys \union {k}
<1>1. TabShape /\ DOMAIN rows = Photos
  BY DEF PhotosInv, Shape
<1>2. ASSUME NEW pc, NEW photo, Only(t, pc, photo), pc \notin {"upload", "insert"} \/ t \in Uploading
      PROVE  Uploading' \subseteq Uploading
  BY <1>2 DEF Only, Uploading
<1>3. CASE AddCount(t)
  <2>1. RowKeys' = RowKeys
    BY <1>3 DEF AddCount, RowKeys
  <2>2. CASE Answered(t)
    BY <1>1, <1>2, <2>1, <2>2, AnsweredTab
  <2>3. CASE Cardinality(RowKeys) < MaxImages
    BY <2>1, <2>3
  <2> QED
    BY <1>3, <2>2, <2>3 DEF AddCount
<1>4. CASE AddUpload(t)
  <2>1. RowKeys' = RowKeys /\ t \in Uploading
    BY <1>4 DEF AddUpload, RowKeys, Uploading
  <2>2. PICK k \in Photos : \/ tab' = [tab EXCEPT ![t].pc = "insert", ![t].photo = k]
                            \/ Answered(t)
    BY <1>4 DEF AddUpload
  <2>3. Only(t, "insert", k) \/ Only(t, "idle", NoPhoto)
    BY <1>1, <2>2, AnsweredTab DEF TabShape, TabFields, Only
  <2> QED
    BY <1>2, <2>1, <2>3
<1>5. CASE AddInsert(t) \/ AddInsertReplyLost(t)
  <2>1. RowKeys' \subseteq RowKeys \union {tab[t].photo} /\ t \in Uploading
    BY <1>1, <1>5 DEF AddInsert, AddInsertReplyLost, InsertRow, RowKeys, Uploading
  <2>2. Only(t, "uploaded", NoPhoto) \/ Only(t, "compensate", tab[t].photo)
    <3>1. CASE AddInsert(t)
      BY <1>1, <3>1, InsertedTab DEF AddInsert
    <3>2. CASE AddInsertReplyLost(t)
      BY <1>1, <3>2 DEF AddInsertReplyLost, TabShape, TabFields, Only
    <3> QED
      BY <1>5, <3>1, <3>2
  <2>3. Uploading' \subseteq Uploading \ {t}
    BY <2>2 DEF Only, Uploading
  <2> QED
    BY <2>1, <2>3
<1>6. CASE DeleteCommit(t) \/ ReorderCommit(t)
  <2>1. RowKeys' \subseteq RowKeys
    <3>1. ToSet(tab[t].order) \subseteq RowKeys
      BY <1>6 DEF DeleteCommit, ReorderCommit
    <3> QED
      BY <1>1, <1>6, <3>1, RenumberedKeys DEF DeleteCommit, ReorderCommit
  <2>2. \/ Only(t, "removeObject", tab[t].photo)
        \/ \E pc \in {"idle", "refresh"} : Only(t, pc, NoPhoto)
    <3>1. \/ tab' = [tab EXCEPT ![t].pc = "removeObject", ![t].order = <<>>]
          \/ Reload(t) \/ Answered(t)
      BY <1>6 DEF DeleteCommit, ReorderCommit
    <3> QED
      BY <1>1, <3>1, ReloadTab, AnsweredTab DEF TabShape, TabFields, Only
  <2> QED
    BY <1>2, <2>1, <2>2
<1>7. CASE ~(AddCount(t) \/ AddUpload(t) \/ AddInsert(t) \/ AddInsertReplyLost(t)
             \/ DeleteCommit(t) \/ ReorderCommit(t))
  <2>1. RowKeys' = RowKeys
    BY <1>7 DEF RowKeys, TabStep, UploadStep, DeleteStep, ReorderStep, RouteRefuses, AddBegin,
       AddInsertFails, AddCompensate, DeleteBegin, DeleteRead, DeleteAborts, DeleteObject,
       ReorderBegin, ReorderAborts, Refresh, Abandon
  <2>2. \E pc, photo : Only(t, pc, photo) /\ pc \notin {"upload", "insert"}
    <3>1. CASE RouteRefuses(t) \/ Abandon(t) \/ AddCompensate(t)
      BY <1>1, <3>1, AnsweredTab DEF RouteRefuses, Abandon, AddCompensate
    <3>2. CASE AddBegin(t)
      BY <1>1, <3>2, AnsweredTab, GotoTab DEF AddBegin
    <3>3. CASE AddInsertFails(t)
      <4>1. Only(t, "compensate", tab[t].photo)
        BY <1>1, <3>3 DEF AddInsertFails, TabShape, TabFields, Only
      <4> QED
        BY <4>1
    <3>4. CASE DeleteBegin(t)
      <4>1. PICK k : tab' = [tab EXCEPT ![t].pc = "take", ![t].photo = k] \/ Reload(t)
        BY <3>4 DEF DeleteBegin
      <4>2. Only(t, "take", k) \/ Only(t, "refresh", NoPhoto)
        BY <1>1, <4>1, ReloadTab DEF TabShape, TabFields, Only
      <4> QED
        BY <4>2
    <3>5. CASE DeleteRead(t)
      <4>1. Only(t, "renumber", tab[t].photo) \/ Only(t, "refresh", NoPhoto)
        BY <1>1, <3>5, ReloadTab DEF DeleteRead, TabShape, TabFields, Only
      <4> QED
        BY <4>1
    <3>6. CASE DeleteAborts(t) \/ DeleteObject(t) \/ ReorderAborts(t)
      BY <1>1, <3>6, ReloadTab DEF DeleteAborts, DeleteObject, ReorderAborts
    <3>7. CASE ReorderBegin(t)
      <4>1. PICK next :
              tab' = [tab EXCEPT ![t] =
                  IF editable /\ ToSet(next) = RowKeys
                  THEN [TabIdle EXCEPT !.pc = "reorder", !.shown = next, !.order = next]
                  ELSE [TabIdle EXCEPT !.pc = "refresh", !.shown = next]]
        BY <3>7 DEF ReorderBegin
      <4>2. Only(t, "reorder", NoPhoto) \/ Only(t, "refresh", NoPhoto)
        BY <1>1, <4>1 DEF TabShape, TabFields, Only, TabIdle
      <4> QED
        BY <4>2
    <3>8. CASE Refresh(t)
      BY <1>1, <3>8, RefreshedTab DEF Refresh
    <3> QED
      BY <1>7, <3>1, <3>2, <3>3, <3>4, <3>5, <3>6, <3>7, <3>8 DEF TabStep, UploadStep, DeleteStep,
         ReorderStep
  <2> QED
    BY <1>2, <2>1, <2>2
<1> QED
  BY <1>3, <1>4, <1>5, <1>6, <1>7

\* What is counted is finite, and there is no more than one upload of each tab.
LEMMA Counted ==
    ASSUME NEW R \in SUBSET Photos, NEW U \in SUBSET Tabs
    PROVE  /\ IsFiniteSet(R) /\ Cardinality(R) \in Nat
           /\ IsFiniteSet(U) /\ Cardinality(U) \in Nat
           /\ Cardinality(Tabs) \in Nat /\ Cardinality(U) <= Cardinality(Tabs)
<1>1. IsFiniteSet(Photos) /\ IsFiniteSet(Tabs)
  BY PhotosAssumption
<1>2. IsFiniteSet(R) /\ IsFiniteSet(U) /\ Cardinality(U) <= Cardinality(Tabs)
  BY <1>1, FS_Subset
<1> QED
  BY <1>1, <1>2, FS_CardinalityType

\* The bound, of any rows and any uploads.
Within(R, U) == Cardinality(R) + Cardinality(U) <= MaxImages + Cardinality(Tabs) - 1

\* How the rows R and the uploads U become Q and V.
Becomes(R, U, Q, V) ==
    \/ Q \subseteq R /\ V \subseteq U
    \/ Q = R /\ Cardinality(R) < MaxImages
    \/ \E t \in U : V \subseteq U \ {t} /\ \E k : Q \subseteq R \union {k}

\* It is inductive as it stands.
LEMMA WithinStep ==
    ASSUME NEW R \in SUBSET Photos, NEW U \in SUBSET Tabs, NEW Q \in SUBSET Photos, NEW V \in SUBSET Tabs,
           Within(R, U), Becomes(R, U, Q, V)
    PROVE  Within(Q, V)
<1>1. /\ IsFiniteSet(R) /\ IsFiniteSet(U) /\ IsFiniteSet(Q) /\ IsFiniteSet(V)
      /\ Cardinality(R) \in Nat /\ Cardinality(U) \in Nat /\ Cardinality(Q) \in Nat /\ Cardinality(V) \in Nat
      /\ Cardinality(Tabs) \in Nat /\ Cardinality(V) <= Cardinality(Tabs) /\ MaxImages \in Nat
  BY Counted, PhotosAssumption
<1>2. CASE Q \subseteq R /\ V \subseteq U
  <2>1. Cardinality(Q) <= Cardinality(R) /\ Cardinality(V) <= Cardinality(U)
    BY <1>1, <1>2, FS_Subset
  <2> QED
    BY <1>1, <2>1 DEF Within
<1>3. CASE Q = R /\ Cardinality(R) < MaxImages
  BY <1>1, <1>3 DEF Within
<1>4. ASSUME NEW t \in U, NEW k, V \subseteq U \ {t}, Q \subseteq R \union {k}
      PROVE  Within(Q, V)
  <2>1. IsFiniteSet(U \ {t}) /\ Cardinality(U \ {t}) = Cardinality(U) - 1
    BY <1>1, FS_RemoveElement
  <2>2. IsFiniteSet(R \union {k}) /\ Cardinality(R \union {k}) <= Cardinality(R) + 1
    <3>1. /\ IsFiniteSet(R \union {k})
          /\ Cardinality(R \union {k}) = IF k \in R THEN Cardinality(R) ELSE Cardinality(R) + 1
      BY <1>1, FS_AddElement
    <3> QED
      BY <1>1, <3>1
  <2>3. Cardinality(V) <= Cardinality(U \ {t})
    BY <1>4, <2>1, FS_Subset
  <2>4. Cardinality(Q) <= Cardinality(R \union {k})
    BY <1>4, <2>2, FS_Subset
  <2>5. Cardinality(R \union {k}) \in Nat
    BY <2>2, FS_CardinalityType
  <2> QED
    BY <1>1, <2>1, <2>2, <2>3, <2>4, <2>5 DEF Within
<1> QED
  BY <1>2, <1>3, <1>4 DEF Becomes

\* However many tabs upload at once, the limit is exceeded by one for each other one at most.
THEOREM LimitIsNearlyKept == Spec => []OvershootIsBounded
<1> DEFINE I == PhotosInv /\ SlotInv /\ Within(RowKeys, Uploading)
<1>1. Init => I
  <2> SUFFICES ASSUME Init PROVE I
    OBVIOUS
  <2>1. RowKeys = {} /\ Uploading = {}
    BY DEF Init, PhotosInit, RowKeys, Uploading, TabIdle
  <2>2. Within({}, {})
    BY Counted, PhotosAssumption, FS_EmptySet DEF Within
  <2> QED
    BY <2>1, <2>2, InitPhotosInv, InitSlotInv
<1>2. I /\ [Next]_vars => I'
  <2> SUFFICES ASSUME I, [Next]_vars PROVE Within(RowKeys', Uploading')
    BY NextInv
  <2>1. /\ RowKeys \in SUBSET Photos /\ RowKeys' \in SUBSET Photos
        /\ Uploading \in SUBSET Tabs /\ Uploading' \in SUBSET Tabs
    BY DEF RowKeys, Uploading
  <2>2. CASE \E t \in Tabs : TabStep(t)
    <3>1. PICK t \in Tabs : TabStep(t)
      BY <2>2
    <3>2. \/ RowKeys' \subseteq RowKeys /\ Uploading' \subseteq Uploading
          \/ RowKeys' = RowKeys /\ Cardinality(RowKeys) < MaxImages
          \/ /\ t \in Uploading /\ Uploading' \subseteq Uploading \ {t}
             /\ \E k : RowKeys' \subseteq RowKeys \union {k}
      BY <3>1, UploadOrLess
    <3> HIDE DEF I
    <3>3. Within(RowKeys, Uploading)
      BY DEF I
    <3>4. Becomes(RowKeys, Uploading, RowKeys', Uploading')
      BY <3>2 DEF Becomes
    <3> QED
      BY <2>1, <3>3, <3>4, WithinStep
  <2>3. CASE UNCHANGED <<rows, tab>>
    BY <2>3 DEF RowKeys, Uploading
  <2> QED
    BY <2>2, <2>3 DEF Next, StatusChanges, photoVars, vars
<1>3. I => OvershootIsBounded
  BY DEF Within, Uploading, OvershootIsBounded
<1> QED
  BY <1>1, <1>2, <1>3, PTL DEF Spec

-----------------------------------------------------------------------------
(* The order of the photos *)

HIDE DEF Photos

\* Rows that position and createdAt order strictly.
Sortable(table, photos) ==
    /\ IsFiniteSet(photos)
    /\ \A k \in photos : table[k].position \in Int /\ table[k].created \in Int
    /\ \A a, b \in photos : table[a].created = table[b].created => a = b

Ahead(table, photos, k) == {x \in photos : Before(table[x], table[k])}

\* It is a strict total order.
LEMMA PhotosAreOrdered ==
    ASSUME NEW table, NEW photos, Sortable(table, photos)
    PROVE  /\ \A a \in photos : ~Before(table[a], table[a])
           /\ \A a, b \in photos : Before(table[a], table[b]) => ~Before(table[b], table[a])
           /\ \A a, b, c \in photos :
                Before(table[a], table[b]) /\ Before(table[b], table[c]) => Before(table[a], table[c])
           /\ \A a, b \in photos : a # b => Before(table[a], table[b]) \/ Before(table[b], table[a])
  BY DEF Sortable, Before

\* A photo that is before another has fewer ahead of it.
LEMMA FewerAhead ==
    ASSUME NEW table, NEW photos, Sortable(table, photos), NEW a \in photos, NEW b \in photos,
           Before(table[a], table[b])
    PROVE  Cardinality(Ahead(table, photos, a)) < Cardinality(Ahead(table, photos, b))
<1>1. Ahead(table, photos, a) \subseteq Ahead(table, photos, b) /\ Ahead(table, photos, b) \subseteq photos
  BY PhotosAreOrdered DEF Ahead
<1>2. a \in Ahead(table, photos, b) /\ a \notin Ahead(table, photos, a)
  BY PhotosAreOrdered DEF Ahead
<1>3. IsFiniteSet(Ahead(table, photos, b)) /\ IsFiniteSet(Ahead(table, photos, a))
  BY <1>1, FS_Subset DEF Sortable
<1>4. /\ Cardinality(Ahead(table, photos, a)) <= Cardinality(Ahead(table, photos, b))
      /\ Cardinality(Ahead(table, photos, b)) = Cardinality(Ahead(table, photos, a))
           => Ahead(table, photos, a) = Ahead(table, photos, b)
  BY <1>1, <1>3, FS_Subset
<1>5. Cardinality(Ahead(table, photos, a)) \in Nat /\ Cardinality(Ahead(table, photos, b)) \in Nat
  BY <1>3, FS_CardinalityType
<1> QED
  BY <1>2, <1>4, <1>5

\* Of n photos each number from 0 to n - 1 is that of the photos ahead of one.
LEMMA AheadIsBijection ==
    ASSUME NEW table, NEW photos, Sortable(table, photos)
    PROVE  LET f == [k \in photos |-> Cardinality(Ahead(table, photos, k))]
               n == Cardinality(photos)
           IN  /\ n \in Nat
               /\ f \in [photos -> 0..(n - 1)]
               /\ \A a, b \in photos : f[a] = f[b] => a = b
               /\ \A i \in 0..(n - 1) : \E k \in photos : f[k] = i
<1> DEFINE n == Cardinality(photos)
           f == [k \in photos |-> Cardinality(Ahead(table, photos, k))]
<1>1. n \in Nat /\ IsFiniteSet(photos)
  BY FS_CardinalityType DEF Sortable
<1>2. ASSUME NEW k \in photos
      PROVE  Cardinality(Ahead(table, photos, k)) \in 0..(n - 1)
  <2>1. Ahead(table, photos, k) \subseteq photos /\ k \notin Ahead(table, photos, k)
    BY PhotosAreOrdered DEF Ahead
  <2>2. /\ IsFiniteSet(Ahead(table, photos, k)) /\ Cardinality(Ahead(table, photos, k)) <= n
        /\ Cardinality(photos) = Cardinality(Ahead(table, photos, k)) => photos = Ahead(table, photos, k)
    BY <1>1, <2>1, FS_Subset
  <2>3. Cardinality(Ahead(table, photos, k)) \in Nat
    BY <2>2, FS_CardinalityType
  <2> QED
    BY <1>1, <2>1, <2>2, <2>3
<1>3. f \in [photos -> 0..(n - 1)]
  BY <1>2
<1>4. \A a, b \in photos : f[a] = f[b] => a = b
  <2> SUFFICES ASSUME NEW a \in photos, NEW b \in photos, f[a] = f[b], a # b PROVE FALSE
    OBVIOUS
  <2>1. Before(table[a], table[b]) \/ Before(table[b], table[a])
    BY PhotosAreOrdered
  <2>2. Cardinality(Ahead(table, photos, a)) \in Nat /\ Cardinality(Ahead(table, photos, b)) \in Nat
    BY <1>1, <1>2
  <2>3. Cardinality(Ahead(table, photos, a)) = Cardinality(Ahead(table, photos, b))
    OBVIOUS
  <2> QED
    BY <2>1, <2>2, <2>3, FewerAhead
<1> HIDE DEF f
<1>5. f \in Injection(photos, 0..(n - 1))
  BY <1>3, <1>4 DEF Injection, IsInjective
<1>6. IsFiniteSet(0..(n - 1)) /\ Cardinality(0..(n - 1)) = n
  BY <1>1, FS_Interval
<1>7. f \in Surjection(photos, 0..(n - 1))
  BY <1>1, <1>5, <1>6, FS_Injection
<1>8. \A i \in 0..(n - 1) : \E k \in photos : f[k] = i
  BY <1>7 DEF Surjection
<1> QED
  BY <1>1, <1>3, <1>4, <1>8 DEF f

\* The i-th photo is the one with i - 1 ahead of it.
LEMMA IthPhoto ==
    ASSUME NEW table, NEW photos, Sortable(table, photos), NEW i \in 1..Cardinality(photos)
    PROVE  /\ ByPosition(table, photos)[i] \in photos
           /\ Cardinality(Ahead(table, photos, ByPosition(table, photos)[i])) = i - 1
           /\ \A k \in photos : Cardinality(Ahead(table, photos, k)) = i - 1
                => k = ByPosition(table, photos)[i]
<1> DEFINE n == Cardinality(photos)
           f == [k \in photos |-> Cardinality(Ahead(table, photos, k))]
<1>1. /\ n \in Nat
      /\ \A a, b \in photos : f[a] = f[b] => a = b
      /\ \A j \in 0..(n - 1) : \E k \in photos : f[k] = j
  BY AheadIsBijection
<1>2. i - 1 \in 0..(n - 1)
  BY <1>1
<1>3. \E k \in photos : Cardinality({x \in photos : Before(table[x], table[k])}) = i - 1
  BY <1>1, <1>2 DEF Ahead
<1>4. ByPosition(table, photos)[i]
        = CHOOSE k \in photos : Cardinality({x \in photos : Before(table[x], table[k])}) = i - 1
  BY DEF ByPosition
<1>5. /\ ByPosition(table, photos)[i] \in photos
      /\ Cardinality({x \in photos : Before(table[x], table[ByPosition(table, photos)[i]])}) = i - 1
  BY <1>3, <1>4
<1> QED
  BY <1>1, <1>5 DEF Ahead

\* The sorted photos: each once, in order.
LEMMA ByPositionSorts ==
    ASSUME NEW table, NEW photos, Sortable(table, photos)
    PROVE  /\ Cardinality(photos) \in Nat
           /\ ByPosition(table, photos) \in [1..Cardinality(photos) -> photos]
           /\ ToSet(ByPosition(table, photos)) = photos
           /\ \A i, j \in 1..Cardinality(photos) :
                i < j <=> Before(table[ByPosition(table, photos)[i]], table[ByPosition(table, photos)[j]])
<1> DEFINE n == Cardinality(photos)
           s == ByPosition(table, photos)
<1>1. n \in Nat /\ IsFiniteSet(photos)
  BY FS_CardinalityType DEF Sortable
<1>2. \A i \in 1..n : s[i] \in photos /\ Cardinality(Ahead(table, photos, s[i])) = i - 1
  BY IthPhoto
<1>3. s \in [1..n -> photos]
  BY <1>2 DEF ByPosition
<1>4. ASSUME NEW k \in photos PROVE \E i \in 1..n : s[i] = k
  <2> DEFINE c == Cardinality(Ahead(table, photos, k))
  <2>1. c \in 0..(n - 1)
    BY AheadIsBijection
  <2> HIDE DEF c
  <2>2. c + 1 \in 1..n /\ (c + 1) - 1 = c
    BY <1>1, <2>1
  <2>3. k = s[c + 1]
    BY <2>2, IthPhoto DEF c
  <2> QED
    BY <2>2, <2>3
<1>5. ASSUME NEW i \in 1..n, NEW j \in 1..n
      PROVE  i < j <=> Before(table[s[i]], table[s[j]])
  <2> DEFINE a == s[i]
             b == s[j]
  <2>1. /\ a \in photos /\ b \in photos
        /\ Cardinality(Ahead(table, photos, a)) = i - 1
        /\ Cardinality(Ahead(table, photos, b)) = j - 1
    BY <1>2
  <2>2. i \in Int /\ j \in Int
    BY <1>1
  <2> HIDE DEF a, b
  <2>3. Before(table[a], table[b]) => i - 1 < j - 1
    BY <2>1, FewerAhead
  <2>4. Before(table[b], table[a]) => j - 1 < i - 1
    BY <2>1, FewerAhead
  <2>5. a # b => Before(table[a], table[b]) \/ Before(table[b], table[a])
    BY <2>1, PhotosAreOrdered
  <2>6. i < j => Before(table[a], table[b])
    BY <2>1, <2>2, <2>4, <2>5
  <2>7. Before(table[a], table[b]) => i < j
    BY <2>2, <2>3
  <2> QED
    BY <2>6, <2>7 DEF a, b
<1>6. ToSet(s) = photos
  BY <1>3, <1>4 DEF ToSet
<1> QED
  BY <1>1, <1>3, <1>5, <1>6

\* A sequence of the photos, each once and in order, is the sorted one.
LEMMA SortedOnlyOnce ==
    ASSUME NEW table, NEW photos, Sortable(table, photos), NEW n \in Nat, NEW s \in [1..n -> photos],
           ToSet(s) = photos, \A i, j \in 1..n : i < j => Before(table[s[i]], table[s[j]])
    PROVE  s = ByPosition(table, photos)
<1>1. \A i, j \in 1..n : s[i] = s[j] => i = j
  <2> SUFFICES ASSUME NEW i \in 1..n, NEW j \in 1..n, s[i] = s[j], i # j PROVE FALSE
    OBVIOUS
  <2>1. i < j \/ j < i
    OBVIOUS
  <2>2. Before(table[s[i]], table[s[i]])
    BY <2>1
  <2> QED
    BY <2>2, PhotosAreOrdered
<1>2. s \in Bijection(1..n, photos)
  BY <1>1 DEF Bijection, Injection, Surjection, IsInjective, ToSet
<1>3. IsFiniteSet(1..n) /\ Cardinality(1..n) = n
  BY FS_Interval
<1>4. n = Cardinality(photos)
  BY <1>2, <1>3, FS_Bijection DEF ExistsBijection
<1>5. ASSUME NEW i \in 1..n
      PROVE  Cardinality(Ahead(table, photos, s[i])) = i - 1
  <2> DEFINE g == [j \in 1..(i - 1) |-> s[j]]
             A == Ahead(table, photos, s[i])
  <2>1. ASSUME NEW j \in 1..n PROVE Before(table[s[j]], table[s[i]]) <=> j \in 1..(i - 1)
    <3>1. j < i => Before(table[s[j]], table[s[i]])
      OBVIOUS
    <3>2. i < j => ~Before(table[s[j]], table[s[i]])
      BY PhotosAreOrdered
    <3>3. i = j => ~Before(table[s[j]], table[s[i]])
      BY PhotosAreOrdered
    <3> QED
      BY <3>1, <3>2, <3>3
  <2>2. \A j \in 1..(i - 1) : j \in 1..n
    OBVIOUS
  <2>3. A = {s[j] : j \in 1..(i - 1)}
    <3>1. \A k \in photos : \E j \in 1..n : k = s[j]
      BY DEF ToSet
    <3> QED
      BY <2>1, <2>2, <3>1 DEF Ahead
  <2> HIDE DEF A
  <2>4. g \in Bijection(1..(i - 1), A)
    <3>1. \A j \in 1..(i - 1) : g[j] = s[j] /\ g[j] \in A
      BY <2>3
    <3>2. \A j, k \in 1..(i - 1) : g[j] = g[k] => j = k
      BY <1>1, <2>2, <3>1
    <3>3. \A k \in A : \E j \in 1..(i - 1) : g[j] = k
      BY <2>3, <3>1
    <3>4. g \in [1..(i - 1) -> A]
      BY <3>1
    <3> HIDE DEF g
    <3> QED
      BY <3>2, <3>3, <3>4 DEF Bijection, Injection, Surjection, IsInjective
  <2>5. IsFiniteSet(1..(i - 1)) /\ Cardinality(1..(i - 1)) = i - 1
    BY FS_Interval
  <2> QED
    BY <2>4, <2>5, FS_Bijection DEF A, ExistsBijection
<1>6. \A i \in 1..n : s[i] = ByPosition(table, photos)[i]
  BY <1>4, <1>5, IthPhoto
<1> QED
  BY <1>4, <1>6, ByPositionSorts

-----------------------------------------------------------------------------
(* The rows *)

KeysOf(table) == {k \in Photos : table[k] # NoRow}

\* Rows as they are written, no two with the same createdAt.
GoodTable(table) ==
    /\ table \in [Photos -> ImageRow \union {NoRow}]
    /\ \A a, b \in KeysOf(table) : table[a].created = table[b].created => a = b

\* An injective sequence of photos is one that a tab may show.
LEMMA IsAnOrder ==
    ASSUME NEW n \in Nat, NEW s \in [1..n -> Photos], \A i, j \in 1..n : s[i] = s[j] => i = j
    PROVE  s \in Orders
<1>1. IsFiniteSet(Photos)
  BY PhotosAssumption DEF Photos
<1>2. s \in Injection(1..n, Photos)
  BY DEF Injection, IsInjective
<1>3. IsFiniteSet(1..n) /\ Cardinality(1..n) = n
  BY FS_Interval
<1>4. n <= Cardinality(Photos) /\ Cardinality(Photos) \in Nat
  BY <1>1, <1>2, <1>3, FS_Injection, FS_CardinalityType
<1>5. n \in 0..Cardinality(Photos)
  BY <1>4
<1>6. IsInjective(s)
  BY DEF IsInjective
<1> QED
  BY <1>5, <1>6 DEF Orders

\* What a tab shows is an injective sequence of photos.
LEMMA OrderIs ==
    ASSUME NEW s \in Orders
    PROVE  /\ Len(s) \in Nat
           /\ s \in [1..Len(s) -> Photos]
           /\ \A i, j \in 1..Len(s) : s[i] = s[j] => i = j
           /\ ToSet(s) = {s[i] : i \in 1..Len(s)}
<1>1. PICK n \in 0..Cardinality(Photos) : s \in [1..n -> Photos] /\ IsInjective(s)
  BY DEF Orders
<1>2. n \in Nat /\ s \in Seq(Photos) /\ Len(s) = n
  BY <1>1
<1> QED
  BY <1>1, <1>2 DEF IsInjective, ToSet

\* No photo is an order too.
LEMMA EmptyOrder == <<>> \in Orders
<1>1. <<>> \in [1..0 -> Photos] /\ \A i, j \in 1..0 : <<>>[i] = <<>>[j] => i = j
  OBVIOUS
<1> QED
  BY <1>1, IsAnOrder

\* Any photos that have rows can be sorted.
LEMMA TableSorts ==
    ASSUME NEW table, GoodTable(table), NEW photos, photos \subseteq KeysOf(table)
    PROVE  /\ Sortable(table, photos)
           /\ ByPosition(table, photos) \in Orders
           /\ ToSet(ByPosition(table, photos)) = photos
<1>1. Sortable(table, photos)
  <2>1. IsFiniteSet(photos)
    BY PhotosAssumption, FS_Subset DEF KeysOf, Photos
  <2>2. \A k \in photos : table[k] \in ImageRow
    BY DEF GoodTable, KeysOf
  <2> QED
    BY <2>1, <2>2 DEF GoodTable, Sortable, ImageRow
<1>2. /\ Cardinality(photos) \in Nat
      /\ ByPosition(table, photos) \in [1..Cardinality(photos) -> photos]
      /\ ToSet(ByPosition(table, photos)) = photos
      /\ \A i, j \in 1..Cardinality(photos) :
           i < j <=> Before(table[ByPosition(table, photos)[i]], table[ByPosition(table, photos)[j]])
  BY <1>1, ByPositionSorts
<1> DEFINE s == ByPosition(table, photos)
           n == Cardinality(photos)
<1> HIDE DEF s, n
<1>3. n \in Nat /\ s \in [1..n -> photos]
      /\ \A i, j \in 1..n : i < j <=> Before(table[s[i]], table[s[j]])
  BY <1>2 DEF s, n
<1>4. \A i, j \in 1..n : s[i] = s[j] => i = j
  <2> SUFFICES ASSUME NEW i \in 1..n, NEW j \in 1..n, s[i] = s[j], i # j PROVE FALSE
    OBVIOUS
  <2>1. i < j \/ j < i
    BY <1>3
  <2>2. Before(table[s[i]], table[s[i]])
    BY <1>3, <2>1
  <2> QED
    BY <1>1, <1>3, <2>2, PhotosAreOrdered
<1>5. s \in [1..n -> Photos]
  BY <1>3 DEF KeysOf
<1>6. s \in Orders
  BY <1>3, <1>4, <1>5, IsAnOrder
<1> QED
  BY <1>1, <1>2, <1>6 DEF s

\* Finitely many times have a latest.
LEMMA LatestExists ==
    ASSUME NEW S \in SUBSET Nat, IsFiniteSet(S), S # {}
    PROVE  \E c \in S : \A d \in S : d <= c
<1> DEFINE after == [c \in S |-> {d \in S : c < d}]
           less == {ss \in Nat \X Nat : ss[1] < ss[2]}
           counts == {Cardinality(after[c]) : c \in S}
<1>1. \A c \in S : after[c] \subseteq S /\ IsFiniteSet(after[c]) /\ Cardinality(after[c]) \in Nat
  <2>1. \A c \in S : after[c] \subseteq S
    OBVIOUS
  <2> QED
    BY <2>1, FS_Subset, FS_CardinalityType
<1>2. IsWellFoundedOn(less, Nat)
  BY NatLessThanWellFounded DEF OpToRel
<1>3. counts # {} /\ counts \subseteq Nat
  BY <1>1
<1> HIDE DEF counts, less
<1>4. PICK m \in counts : \A y \in counts : <<y, m>> \notin less
  BY <1>2, <1>3, WFMin
<1>5. PICK c \in S : m = Cardinality(after[c])
  BY <1>4 DEF counts
<1>6. ASSUME NEW d \in S, ~(d <= c) PROVE FALSE
  <2>1. c < d /\ c \in Nat /\ d \in Nat
    BY <1>6
  <2>2. after[d] \subseteq after[c] /\ d \in after[c] /\ d \notin after[d]
    <3>1. after[c] = {x \in S : c < x} /\ after[d] = {x \in S : d < x}
      OBVIOUS
    <3>2. \A x \in S : d < x => c < x
      BY <2>1
    <3>3. ~(d < d)
      BY <2>1
    <3> HIDE DEF after
    <3>4. d \in after[c] /\ d \notin after[d]
      BY <2>1, <3>1, <3>3
    <3>5. after[d] \subseteq after[c]
      BY <3>1, <3>2, Zenon
    <3> QED
      BY <3>4, <3>5
  <2> HIDE DEF after
  <2>3. Cardinality(after[d]) < Cardinality(after[c])
    BY <1>1, <2>2, FS_Subset
  <2>4. Cardinality(after[d]) \in counts
    BY DEF counts
  <2> QED
    BY <1>1, <1>4, <1>5, <2>3, <2>4 DEF less
<1> QED
  BY <1>6

Inserted(table, k, at) ==
    LET last == {table[x].created : x \in Photos}
    IN  [table EXCEPT ![k] = [position |-> at, created |-> 1 + CHOOSE c \in last : \A d \in last : d <= c]]

\* A new row is the youngest.
LEMMA InsertedTable ==
    ASSUME NEW table, GoodTable(table), NEW k \in Photos, NEW at \in Nat
    PROVE  /\ GoodTable(Inserted(table, k, at))
           /\ KeysOf(Inserted(table, k, at)) = KeysOf(table) \union {k}
           /\ \A x \in Photos \ {k} : Inserted(table, k, at)[x] = table[x]
<1> DEFINE last == {table[x].created : x \in Photos}
           latest == CHOOSE c \in last : \A d \in last : d <= c
           new == Inserted(table, k, at)
<1>1. \A x \in Photos : table[x] \in ImageRow \union {NoRow}
  BY DEF GoodTable
<1>2. \A x \in Photos : table[x].created \in Nat
  BY <1>1 DEF ImageRow, NoRow
<1>3. last \in SUBSET Nat /\ last # {}
  BY <1>2
<1>4. IsFiniteSet(last)
  <2> DEFINE f == [x \in Photos |-> table[x].created]
  <2>1. f \in Surjection(Photos, last)
    BY DEF Surjection
  <2> QED
    BY <2>1, PhotosAssumption, FS_Surjection DEF Photos
<1> HIDE DEF last
<1>5. latest \in last /\ \A d \in last : d <= latest
  <2>1. \E c \in last : \A d \in last : d <= c
    BY <1>3, <1>4, LatestExists
  <2> QED
    BY <2>1
<1>6. new = [table EXCEPT ![k] = [position |-> at, created |-> 1 + latest]]
  BY DEF Inserted, last
<1> HIDE DEF latest, new
<1>7. latest \in Nat /\ \A x \in Photos : table[x].created <= latest
  BY <1>3, <1>5 DEF last
<1>8. DOMAIN table = Photos
  BY DEF GoodTable
<1>9. /\ new[k] = [position |-> at, created |-> 1 + latest]
      /\ \A x \in Photos \ {k} : new[x] = table[x]
      /\ DOMAIN new = Photos
      /\ new = [x \in Photos |-> new[x]]
  BY <1>6, <1>8 DEF GoodTable
<1>10. 1 + latest \in Nat \ {0}
  BY <1>7
<1>11. new[k] \in ImageRow /\ new[k] # NoRow /\ new[k].created = 1 + latest
  BY <1>9, <1>10 DEF ImageRow, NoRow
<1>12. new \in [Photos -> ImageRow \union {NoRow}]
  BY <1>1, <1>9, <1>11
<1>13. KeysOf(new) = KeysOf(table) \union {k}
  BY <1>9, <1>11 DEF KeysOf
<1>14. \A x \in Photos \ {k} : new[x].created <= latest /\ new[x].created \in Nat
  BY <1>2, <1>7, <1>9
<1>15. ASSUME NEW a \in KeysOf(new), NEW b \in KeysOf(new), new[a].created = new[b].created
       PROVE  a = b
  <2>1. a \in Photos /\ b \in Photos
    BY DEF KeysOf
  <2>2. CASE a # k /\ b # k
    BY <1>9, <1>13, <1>15, <2>1, <2>2 DEF GoodTable
  <2>3. CASE a = k /\ b # k
    BY <1>7, <1>11, <1>14, <1>15, <2>1, <2>3
  <2>4. CASE a # k /\ b = k
    BY <1>7, <1>11, <1>14, <1>15, <2>1, <2>4
  <2> QED
    BY <2>2, <2>3, <2>4
<1>16. GoodTable(new)
  BY <1>12, <1>15 DEF GoodTable
<1> QED
  BY <1>9, <1>13, <1>16 DEF new

Numbered(table, order, gone) ==
    [k \in Photos |->
        IF k = gone THEN NoRow
        ELSE IF k \in ToSet(order)
             THEN [table[k] EXCEPT !.position = CHOOSE i \in 0..Len(order) - 1 : order[i + 1] = k]
             ELSE table[k]]

\* Numbering photos again changes their positions, to those of the order.
LEMMA NumberedTable ==
    ASSUME NEW table, GoodTable(table), NEW order \in Orders, ToSet(order) \subseteq KeysOf(table),
           NEW gone
    PROVE  /\ GoodTable(Numbered(table, order, gone))
           /\ KeysOf(Numbered(table, order, gone)) = KeysOf(table) \ {gone}
           /\ \A i \in 1..Len(order) : order[i] # gone =>
                Numbered(table, order, gone)[order[i]].position = i - 1
<1> DEFINE new == Numbered(table, order, gone)
           n == Len(order)
<1>1. /\ n \in Nat /\ order \in [1..n -> Photos]
      /\ \A i, j \in 1..n : order[i] = order[j] => i = j
      /\ ToSet(order) = {order[i] : i \in 1..n}
  BY OrderIs
<1>2. \A x \in Photos : table[x] \in ImageRow \union {NoRow}
  BY DEF GoodTable
<1>3. ASSUME NEW i \in 1..n, order[i] # gone
      PROVE  /\ new[order[i]].position = i - 1
             /\ new[order[i]] \in ImageRow
             /\ new[order[i]].created = table[order[i]].created
  <2> DEFINE k == order[i]
             p == CHOOSE j \in 0..n - 1 : order[j + 1] = k
  <2>1. k \in Photos /\ k \in ToSet(order) /\ table[k] \in ImageRow
    BY <1>1, <1>2 DEF KeysOf
  <2>2. i - 1 \in 0..n - 1 /\ order[(i - 1) + 1] = k
    BY <1>1
  <2>3. p \in 0..n - 1 /\ order[p + 1] = k
    BY <2>2
  <2> HIDE DEF p
  <2>4. p + 1 = i
    BY <1>1, <2>3
  <2>5. new[k] = [table[k] EXCEPT !.position = p]
    BY <1>3, <2>1 DEF Numbered, p
  <2>6. p = i - 1 /\ p \in Nat
    BY <1>1, <2>3, <2>4
  <2> HIDE DEF new, k
  <2> QED
    BY <2>1, <2>5, <2>6 DEF ImageRow, k
<1>4. ASSUME NEW x \in Photos, x \notin ToSet(order), x # gone PROVE new[x] = table[x]
  BY <1>4 DEF Numbered
<1>5. gone \in Photos => new[gone] = NoRow
  BY DEF Numbered
<1>6. DOMAIN new = Photos /\ new = [x \in Photos |-> new[x]]
  BY DEF Numbered
<1> HIDE DEF new
<1>7. \A x \in ToSet(order) : \E i \in 1..n : x = order[i]
  BY <1>1
<1>8. \A x \in Photos : new[x] \in ImageRow \union {NoRow}
  BY <1>2, <1>3, <1>4, <1>5, <1>7
<1>9. NoRow \notin ImageRow
  BY DEF NoRow, ImageRow
<1>10. KeysOf(new) = KeysOf(table) \ {gone}
  <2>1. ASSUME NEW x \in Photos PROVE new[x] # NoRow <=> table[x] # NoRow /\ x # gone
    <3>1. CASE x = gone
      BY <1>5, <3>1
    <3>2. CASE x # gone /\ x \in ToSet(order)
      <4>1. table[x] # NoRow
        BY <3>2 DEF KeysOf
      <4> QED
        BY <1>3, <1>7, <1>9, <3>2, <4>1
    <3>3. CASE x # gone /\ x \notin ToSet(order)
      BY <1>4, <3>3
    <3> QED
      BY <3>1, <3>2, <3>3
  <2> QED
    BY <2>1 DEF KeysOf
<1>11. \A x \in KeysOf(new) : new[x].created = table[x].created
  BY <1>3, <1>4, <1>7, <1>10 DEF KeysOf
<1>12. GoodTable(new)
  BY <1>6, <1>8, <1>10, <1>11 DEF GoodTable
<1> QED
  BY <1>3, <1>10, <1>12 DEF new

-----------------------------------------------------------------------------
(* What a step makes of a tab *)

Steps == {"idle", "refresh"} \union UploadSteps \union DeleteSteps \union {"reorder"}

\* One tab changes.
OnlyTab(t, pc, photo, shown, order) ==
    /\ tab' \in [Tabs -> Tab]
    /\ tab'[t].pc = pc /\ tab'[t].photo = photo /\ tab'[t].shown = shown /\ tab'[t].order = order
    /\ \A u \in Tabs \ {t} : tab'[u] = tab[u]

\* The rows and what is known of them stay.
SameRows == rows' = rows /\ issued' = issued /\ overtaken' = overtaken

\* While the request of a tab reads or uploads, what it shows is not touched.
Calm == {"idle", "add", "count", "upload", "insert", "compensate", "take", "renumber"}

\* The tab goes on showing what it shows.
GoesOn(t) ==
    \E pc \in Calm \ {"renumber", "insert"} : \E photo, order :
        OnlyTab(t, pc, photo, tab[t].shown, order) /\ tab[t].pc \in Calm /\ SameRows

Uploads(t) ==
    \E k \in Photos \ issued :
        /\ OnlyTab(t, "insert", k, tab[t].shown, tab[t].order)
        /\ tab[t].pc = "upload"
        /\ issued' = issued \union {k} /\ rows' = rows /\ overtaken' = overtaken

UploadFails(t) ==
    \E k \in Photos \ issued :
        /\ OnlyTab(t, "idle", NoPhoto, tab[t].shown, <<>>)
        /\ tab[t].pc = "upload"
        /\ issued' = issued \union {k} /\ rows' = rows /\ overtaken' = overtaken

WillRefresh(t) == SameRows /\ \E shown : OnlyTab(t, "refresh", NoPhoto, shown, <<>>)

IsAbandoned(t) ==
    /\ OnlyTab(t, "idle", NoPhoto, tab[t].shown, <<>>)
    /\ rows' = rows /\ issued' = issued /\ overtaken' = overtaken \union {t}

IsRefreshed(t) ==
    /\ \E pc \in {"idle", "add"} : OnlyTab(t, pc, NoPhoto, Gallery, <<>>)
    /\ rows' = rows /\ issued' = issued /\ overtaken' = overtaken \ {t}

ReadsRest(t) ==
    /\ OnlyTab(t, "renumber", tab[t].photo, tab[t].shown, ByPosition(rows, RowKeys \ {tab[t].photo}))
    /\ tab[t].pc = "take" /\ tab[t].photo \in RowKeys /\ SameRows

Inserts(t) ==
    /\ tab[t].pc = "insert"
    /\ rows' = Inserted(rows, tab[t].photo, tab[t].at)
    /\ issued' = issued
    /\ \/ /\ OnlyTab(t, "uploaded", NoPhoto, tab[t].shown, <<>>)
          /\ overtaken' = overtaken \union (Tabs \ {t})
       \/ /\ OnlyTab(t, "compensate", tab[t].photo, tab[t].shown, tab[t].order)
          /\ overtaken' = Tabs

Deletes(t) ==
    /\ tab[t].pc = "renumber"
    /\ {tab[t].photo} \union ToSet(tab[t].order) \subseteq RowKeys
    /\ rows' = Numbered(rows, tab[t].order, tab[t].photo)
    /\ issued' = issued /\ overtaken' = overtaken \union (Tabs \ {t})
    /\ \E pc \in {"removeObject", "refresh"} : \E photo : OnlyTab(t, pc, photo, tab[t].shown, <<>>)

Swaps(t) ==
    /\ SameRows
    /\ \E next : OnlyTab(t, "reorder", NoPhoto, next, next) /\ ToSet(next) = RowKeys

Reorders(t) ==
    /\ tab[t].pc = "reorder"
    /\ ToSet(tab[t].order) \subseteq RowKeys
    /\ \A u \in Tabs : tab[u].pc # "renumber"
    /\ rows' = Numbered(rows, tab[t].order, NoPhoto)
    /\ issued' = issued /\ overtaken' = overtaken \union (Tabs \ {t})
    /\ \E pc \in {"idle", "refresh"} : OnlyTab(t, pc, NoPhoto, tab[t].shown, <<>>)

Moves(t) ==
    \/ GoesOn(t) \/ Uploads(t) \/ UploadFails(t) \/ WillRefresh(t) \/ IsAbandoned(t) \/ IsRefreshed(t)
    \/ ReadsRest(t) \/ Inserts(t) \/ Deletes(t) \/ Swaps(t) \/ Reorders(t)

\* A tab moves to a step and keeps the rest.
LEMMA GotoMoves ==
    ASSUME NEW t \in Tabs, NEW pc \in Steps, tab \in [Tabs -> Tab], Goto(t, pc)
    PROVE  OnlyTab(t, pc, tab[t].photo, tab[t].shown, tab[t].order)
  BY DEF Goto, OnlyTab, Tab, Steps

\* A tab without a request.
LEMMA IdleTab ==
    TabIdle \in Tab /\ TabIdle.pc = "idle" /\ TabIdle.photo = NoPhoto /\ TabIdle.order = <<>>
  BY EmptyOrder DEF TabIdle, Tab

\* A tab whose request is replaced.
LEMMA NewRequest ==
    ASSUME NEW t \in Tabs, NEW w \in Tab, tab \in [Tabs -> Tab], tab' = [tab EXCEPT ![t] = w]
    PROVE  OnlyTab(t, w.pc, w.photo, w.shown, w.order)
<1>1. tab' \in [Tabs -> Tab] /\ tab'[t] = w /\ \A u \in Tabs \ {t} : tab'[u] = tab[u]
  OBVIOUS
<1> QED
  BY <1>1 DEF OnlyTab

\* A request is over, or begins anew, with what is shown.
LEMMA RestMoves ==
    ASSUME NEW t \in Tabs, NEW pc \in Steps, NEW shown \in Orders, tab \in [Tabs -> Tab]
    PROVE  /\ tab' = [tab EXCEPT ![t] = [TabIdle EXCEPT !.shown = shown]]
                => OnlyTab(t, "idle", NoPhoto, shown, <<>>)
           /\ tab' = [tab EXCEPT ![t] = [TabIdle EXCEPT !.shown = shown, !.pc = pc]]
                => OnlyTab(t, pc, NoPhoto, shown, <<>>)
           /\ tab' = [tab EXCEPT ![t] = [TabIdle EXCEPT !.pc = pc, !.shown = shown]]
                => OnlyTab(t, pc, NoPhoto, shown, <<>>)
           /\ tab' = [tab EXCEPT ![t] = [TabIdle EXCEPT !.pc = pc, !.shown = shown, !.order = shown]]
                => OnlyTab(t, pc, NoPhoto, shown, shown)
<1> DEFINE a == [TabIdle EXCEPT !.shown = shown]
           b == [TabIdle EXCEPT !.shown = shown, !.pc = pc]
           c == [TabIdle EXCEPT !.pc = pc, !.shown = shown, !.order = shown]
           d == [TabIdle EXCEPT !.pc = pc, !.shown = shown]
<1>1. a \in Tab /\ a.pc = "idle" /\ a.shown = shown /\ a.photo = NoPhoto /\ a.order = <<>>
  BY IdleTab DEF Tab, Steps
<1>2. b \in Tab /\ b.pc = pc /\ b.shown = shown /\ b.photo = NoPhoto /\ b.order = <<>>
  BY IdleTab DEF Tab, Steps
<1>3. c \in Tab /\ c.pc = pc /\ c.shown = shown /\ c.photo = NoPhoto /\ c.order = shown
  BY IdleTab DEF Tab, Steps
<1>7. d \in Tab /\ d.pc = pc /\ d.shown = shown /\ d.photo = NoPhoto /\ d.order = <<>>
  BY IdleTab DEF Tab, Steps
<1> HIDE DEF a, b, c, d
<1>4. tab' = [tab EXCEPT ![t] = a] => OnlyTab(t, "idle", NoPhoto, shown, <<>>)
  <2> SUFFICES ASSUME tab' = [tab EXCEPT ![t] = a] PROVE OnlyTab(t, "idle", NoPhoto, shown, <<>>)
    OBVIOUS
  <2>1. OnlyTab(t, a.pc, a.photo, a.shown, a.order)
    BY <1>1, NewRequest
  <2> QED
    BY <1>1, <2>1
<1>5. tab' = [tab EXCEPT ![t] = b] => OnlyTab(t, pc, NoPhoto, shown, <<>>)
  <2> SUFFICES ASSUME tab' = [tab EXCEPT ![t] = b] PROVE OnlyTab(t, pc, NoPhoto, shown, <<>>)
    OBVIOUS
  <2>1. OnlyTab(t, b.pc, b.photo, b.shown, b.order)
    BY <1>2, NewRequest
  <2> QED
    BY <1>2, <2>1
<1>6. tab' = [tab EXCEPT ![t] = c] => OnlyTab(t, pc, NoPhoto, shown, shown)
  <2> SUFFICES ASSUME tab' = [tab EXCEPT ![t] = c] PROVE OnlyTab(t, pc, NoPhoto, shown, shown)
    OBVIOUS
  <2>1. OnlyTab(t, c.pc, c.photo, c.shown, c.order)
    BY <1>3, NewRequest
  <2> QED
    BY <1>3, <2>1
<1>8. tab' = [tab EXCEPT ![t] = d] => OnlyTab(t, pc, NoPhoto, shown, <<>>)
  <2> SUFFICES ASSUME tab' = [tab EXCEPT ![t] = d] PROVE OnlyTab(t, pc, NoPhoto, shown, <<>>)
    OBVIOUS
  <2>1. OnlyTab(t, d.pc, d.photo, d.shown, d.order)
    BY <1>7, NewRequest
  <2> QED
    BY <1>7, <2>1
<1> QED
  BY <1>4, <1>5, <1>6, <1>8 DEF a, b, c, d

\* Answered and Reload are of that kind.
LEMMA AnswerMoves ==
    ASSUME NEW t \in Tabs, tab \in [Tabs -> Tab]
    PROVE  /\ Answered(t) => OnlyTab(t, "idle", NoPhoto, tab[t].shown, <<>>)
           /\ Reload(t) => OnlyTab(t, "refresh", NoPhoto, tab[t].shown, <<>>)
<1>1. tab[t].shown \in Orders
  BY DEF Tab
<1>2. PICK shown \in Orders : shown = tab[t].shown
  BY <1>1
<1>3. "refresh" \in Steps
  BY DEF Steps
<1>4. /\ Answered(t) => tab' = [tab EXCEPT ![t] = [TabIdle EXCEPT !.shown = shown]]
      /\ Reload(t) => tab' = [tab EXCEPT ![t] = [TabIdle EXCEPT !.shown = shown, !.pc = "refresh"]]
  BY <1>2 DEF Answered, Reload
<1>5. Answered(t) => OnlyTab(t, "idle", NoPhoto, shown, <<>>)
  BY <1>3, <1>4, RestMoves
<1>6. Reload(t) => OnlyTab(t, "refresh", NoPhoto, shown, <<>>)
  BY <1>3, <1>4, RestMoves
<1> QED
  BY <1>2, <1>5, <1>6

\* What an upload makes of its tab.
LEMMA UploadMoves ==
    ASSUME PhotosInv, GoodTable(rows), tab \in [Tabs -> Tab], NEW t \in Tabs, UploadStep(t)
    PROVE  Moves(t)
<1>1. CASE RouteRefuses(t)
  <2>1. tab[t].pc \in Calm
    BY <1>1 DEF RouteRefuses, MaySelect, Calm
  <2>2. OnlyTab(t, "idle", NoPhoto, tab[t].shown, <<>>)
    BY <1>1, AnswerMoves DEF RouteRefuses
  <2> QED
    BY <1>1, <2>1, <2>2 DEF RouteRefuses, Moves, GoesOn, SameRows, Calm
<1>2. CASE AddBegin(t)
  <2>1. tab[t].pc \in Calm /\ SameRows
    BY <1>2 DEF AddBegin, MaySelect, Calm, SameRows
  <2>2. \/ OnlyTab(t, "idle", NoPhoto, tab[t].shown, <<>>)
        \/ OnlyTab(t, "count", tab[t].photo, tab[t].shown, tab[t].order)
    BY <1>2, AnswerMoves, GotoMoves DEF AddBegin, Steps, UploadSteps
  <2> QED
    BY <2>1, <2>2 DEF Moves, GoesOn, Calm
<1>3. CASE AddCount(t)
  <2>1. tab[t].pc \in Calm /\ SameRows
    BY <1>3 DEF AddCount, Calm, SameRows
  <2>2. CASE Answered(t)
    BY <2>1, <2>2, AnswerMoves DEF Moves, GoesOn, Calm
  <2>3. CASE tab' = [tab EXCEPT ![t].pc = "upload", ![t].at = Cardinality(RowKeys)]
    <3>1. Cardinality(RowKeys) \in Nat
      BY PhotosAssumption, FS_Subset, FS_CardinalityType DEF RowKeys, Photos
    <3>2. OnlyTab(t, "upload", tab[t].photo, tab[t].shown, tab[t].order)
      BY <2>3, <3>1 DEF OnlyTab, Tab, UploadSteps
    <3> QED
      BY <2>1, <3>2 DEF Moves, GoesOn, Calm
  <2> QED
    BY <1>3, <2>2, <2>3 DEF AddCount
<1>4. CASE AddUpload(t)
  <2>1. PICK k \in Photos \ issued :
          /\ issued' = issued \union {k}
          /\ \/ tab' = [tab EXCEPT ![t].pc = "insert", ![t].photo = k]
             \/ Answered(t)
    BY <1>4 DEF AddUpload
  <2>2. tab[t].pc = "upload" /\ rows' = rows /\ overtaken' = overtaken
    BY <1>4 DEF AddUpload
  <2>3. CASE Answered(t)
    BY <2>1, <2>2, <2>3, AnswerMoves DEF Moves, UploadFails
  <2>4. CASE tab' = [tab EXCEPT ![t].pc = "insert", ![t].photo = k]
    <3>1. OnlyTab(t, "insert", k, tab[t].shown, tab[t].order)
      BY <2>4 DEF OnlyTab, Tab, UploadSteps
    <3> QED
      BY <2>1, <2>2, <3>1 DEF Moves, Uploads
  <2> QED
    BY <2>1, <2>3, <2>4
<1>5. CASE AddInsert(t)
  <2>1. /\ tab[t].pc = "insert" /\ rows' = Inserted(rows, tab[t].photo, tab[t].at)
        /\ issued' = issued /\ overtaken' = overtaken \union (Tabs \ {t})
    BY <1>5 DEF AddInsert, InsertRow, Inserted, OvertakesOthers
  <2>2. tab[t].shown \in Orders
    BY DEF Tab
  <2>3. OnlyTab(t, "uploaded", NoPhoto, tab[t].shown, <<>>)
    BY <1>5, <2>2, RestMoves DEF AddInsert, Steps, UploadSteps
  <2> QED
    BY <2>1, <2>3 DEF Moves, Inserts
<1>6. CASE AddInsertFails(t)
  <2>1. OnlyTab(t, "compensate", tab[t].photo, tab[t].shown, tab[t].order)
    BY <1>6 DEF AddInsertFails, OnlyTab, Tab, UploadSteps
  <2> QED
    BY <1>6, <2>1 DEF AddInsertFails, Moves, GoesOn, SameRows, Calm
<1>7. CASE AddInsertReplyLost(t)
  <2>1. OnlyTab(t, "compensate", tab[t].photo, tab[t].shown, tab[t].order)
    BY <1>7 DEF AddInsertReplyLost, OnlyTab, Tab, UploadSteps
  <2>2. /\ tab[t].pc = "insert" /\ rows' = Inserted(rows, tab[t].photo, tab[t].at)
        /\ issued' = issued /\ overtaken' = Tabs
    BY <1>7 DEF AddInsertReplyLost, InsertRow, Inserted
  <2> QED
    BY <2>1, <2>2 DEF Moves, Inserts
<1>8. CASE AddCompensate(t)
  <2>1. OnlyTab(t, "idle", NoPhoto, tab[t].shown, <<>>)
    BY <1>8, AnswerMoves DEF AddCompensate
  <2> QED
    BY <1>8, <2>1 DEF AddCompensate, Moves, GoesOn, SameRows, Calm
<1> QED
  BY <1>1, <1>2, <1>3, <1>4, <1>5, <1>6, <1>7, <1>8 DEF UploadStep

\* The table is sorted whenever a tab reads it.
LEMMA GalleryIsOrder ==
    ASSUME GoodTable(rows)
    PROVE  /\ RowKeys = KeysOf(rows)
           /\ Gallery \in Orders /\ ToSet(Gallery) = RowKeys
           /\ \A k : ByPosition(rows, RowKeys \ {k}) \in Orders
<1>1. RowKeys = KeysOf(rows) /\ Gallery = ByPosition(rows, RowKeys)
  BY DEF RowKeys, KeysOf, Gallery
<1> QED
  BY <1>1, TableSorts

\* What a delete makes of its tab.
LEMMA DeleteMoves ==
    ASSUME PhotosInv, GoodTable(rows), tab \in [Tabs -> Tab], NEW t \in Tabs, DeleteStep(t)
    PROVE  Moves(t)
<1>1. ASSUME Reload(t), SameRows PROVE Moves(t)
  BY <1>1, AnswerMoves DEF Moves, WillRefresh
<1>2. CASE DeleteBegin(t)
  <2>1. SameRows
    BY <1>2 DEF DeleteBegin, SameRows
  <2>2. PICK k \in MayRemove(t) :
          \/ k \in RowKeys /\ tab' = [tab EXCEPT ![t].pc = "take", ![t].photo = k]
          \/ Reload(t)
    BY <1>2 DEF DeleteBegin
  <2>3. tab[t].pc = "idle"
    BY <2>2 DEF MayRemove
  <2>4. CASE k \in RowKeys /\ tab' = [tab EXCEPT ![t].pc = "take", ![t].photo = k]
    <3>1. OnlyTab(t, "take", k, tab[t].shown, tab[t].order)
      BY <2>4 DEF OnlyTab, Tab, DeleteSteps, RowKeys
    <3> QED
      BY <2>1, <2>3, <3>1 DEF Moves, GoesOn, Calm
  <2> QED
    BY <1>1, <2>1, <2>2, <2>4
<1>3. CASE DeleteRead(t)
  <2>1. SameRows /\ tab[t].pc = "take"
    BY <1>3 DEF DeleteRead, SameRows
  <2>2. CASE /\ tab[t].photo \in RowKeys
             /\ tab' = [tab EXCEPT ![t].pc = "renumber", ![t].order = Remaining(t)]
    <3>1. Remaining(t) = ByPosition(rows, RowKeys \ {tab[t].photo}) /\ Remaining(t) \in Orders
      BY GalleryIsOrder DEF Remaining
    <3>2. OnlyTab(t, "renumber", tab[t].photo, tab[t].shown, Remaining(t))
      BY <2>2, <3>1 DEF OnlyTab, Tab, DeleteSteps
    <3> QED
      BY <2>1, <2>2, <3>1, <3>2 DEF Moves, ReadsRest
  <2> QED
    BY <1>1, <1>3, <2>1, <2>2 DEF DeleteRead
<1>4. CASE DeleteCommit(t)
  <2>1. /\ tab[t].pc = "renumber" /\ {tab[t].photo} \union ToSet(tab[t].order) \subseteq RowKeys
        /\ rows' = Numbered(rows, tab[t].order, tab[t].photo)
        /\ issued' = issued /\ overtaken' = overtaken \union (Tabs \ {t})
    BY <1>4 DEF DeleteCommit, Renumbered, Numbered, OvertakesOthers
  <2>2. \/ OnlyTab(t, "removeObject", tab[t].photo, tab[t].shown, <<>>)
        \/ OnlyTab(t, "refresh", NoPhoto, tab[t].shown, <<>>)
    <3>1. CASE Reload(t)
      BY <3>1, AnswerMoves
    <3>2. CASE tab' = [tab EXCEPT ![t].pc = "removeObject", ![t].order = <<>>]
      BY <3>2, EmptyOrder DEF OnlyTab, Tab, DeleteSteps
    <3> QED
      BY <1>4, <3>1, <3>2 DEF DeleteCommit
  <2> QED
    BY <2>1, <2>2 DEF Moves, Deletes
<1>5. CASE DeleteAborts(t) \/ DeleteObject(t)
  BY <1>1, <1>5 DEF DeleteAborts, DeleteObject, SameRows
<1> QED
  BY <1>2, <1>3, <1>4, <1>5 DEF DeleteStep

\* Two neighbours change places.
LEMMA SwappedIsOrder ==
    ASSUME NEW s \in Orders, NEW i \in 1..(Len(s) - 1)
    PROVE  Swapped(s, i) \in Orders /\ ToSet(Swapped(s, i)) = ToSet(s)
<1> DEFINE n == Len(s)
           w == Swapped(s, i)
<1>1. /\ n \in Nat /\ s \in [1..n -> Photos]
      /\ \A j, k \in 1..n : s[j] = s[k] => j = k
  BY OrderIs
<1>2. i \in 1..n /\ i + 1 \in 1..n /\ i # i + 1
  BY <1>1
<1>3. /\ w \in [1..n -> Photos]
      /\ w[i] = s[i + 1] /\ w[i + 1] = s[i]
      /\ \A j \in 1..n : j # i /\ j # i + 1 => w[j] = s[j]
  BY <1>1, <1>2 DEF Swapped
<1> HIDE DEF w, n
<1>4. \A j, k \in 1..n : w[j] = w[k] => j = k
  BY <1>1, <1>2, <1>3
<1>5. w \in Orders
  BY <1>1, <1>3, <1>4, IsAnOrder
<1>6. ToSet(w) = ToSet(s)
  <2>1. DOMAIN w = 1..n /\ DOMAIN s = 1..n
    BY <1>1, <1>3
  <2>2. ASSUME NEW j \in 1..n
        PROVE  (\E k \in 1..n : s[k] = w[j]) /\ (\E k \in 1..n : w[k] = s[j])
    <3>1. CASE j = i
      BY <1>2, <1>3, <3>1
    <3>2. CASE j = i + 1
      BY <1>2, <1>3, <3>2
    <3>3. CASE j # i /\ j # i + 1
      BY <1>3, <3>3
    <3> QED
      BY <3>1, <3>2, <3>3
  <2>3. ToSet(w) = {w[j] : j \in 1..n} /\ ToSet(s) = {s[j] : j \in 1..n}
    BY <2>1 DEF ToSet
  <2>4. ASSUME NEW x PROVE x \in ToSet(w) <=> x \in ToSet(s)
    BY <2>2, <2>3
  <2> QED
    BY <2>4
<1> QED
  BY <1>5, <1>6 DEF w

\* What a reorder, a refresh or an abandoned request makes of its tab.
LEMMA OtherMoves ==
    ASSUME PhotosInv, GoodTable(rows), tab \in [Tabs -> Tab], NEW t \in Tabs,
           ReorderStep(t) \/ Refresh(t) \/ Abandon(t)
    PROVE  Moves(t)
<1>1. CASE ReorderBegin(t)
  <2>1. SameRows
    BY <1>1 DEF ReorderBegin, SameRows
  <2>2. PICK i \in MaySwap(t) :
          tab' = [tab EXCEPT ![t] =
                IF editable /\ ToSet(Swapped(tab[t].shown, i)) = RowKeys
                THEN [TabIdle EXCEPT !.pc = "reorder", !.shown = Swapped(tab[t].shown, i),
                                     !.order = Swapped(tab[t].shown, i)]
                ELSE [TabIdle EXCEPT !.pc = "refresh", !.shown = Swapped(tab[t].shown, i)]]
    BY <1>1 DEF ReorderBegin
  <2> DEFINE next == Swapped(tab[t].shown, i)
  <2>3. next \in Orders
    BY <2>2, SwappedIsOrder DEF MaySwap, Tab
  <2> HIDE DEF next
  <2>4. CASE editable /\ ToSet(next) = RowKeys
    <3>1. tab' = [tab EXCEPT ![t] = [TabIdle EXCEPT !.pc = "reorder", !.shown = next, !.order = next]]
      BY <2>2, <2>4 DEF next
    <3>2. OnlyTab(t, "reorder", NoPhoto, next, next)
      BY <2>3, <3>1, RestMoves DEF Steps
    <3> QED
      BY <2>1, <2>4, <3>2 DEF Moves, Swaps
  <2>5. CASE ~(editable /\ ToSet(next) = RowKeys)
    <3>1. tab' = [tab EXCEPT ![t] = [TabIdle EXCEPT !.pc = "refresh", !.shown = next]]
      BY <2>2, <2>5 DEF next
    <3>2. OnlyTab(t, "refresh", NoPhoto, next, <<>>)
      BY <2>3, <3>1, RestMoves DEF Steps
    <3> QED
      BY <2>1, <3>2 DEF Moves, WillRefresh
  <2> QED
    BY <2>4, <2>5
<1>2. CASE ReorderCommit(t)
  <2>1. /\ tab[t].pc = "reorder" /\ ToSet(tab[t].order) \subseteq RowKeys
        /\ \A u \in Tabs : tab[u].pc # "renumber"
        /\ rows' = Numbered(rows, tab[t].order, NoPhoto)
        /\ issued' = issued /\ overtaken' = overtaken \union (Tabs \ {t})
    BY <1>2 DEF ReorderCommit, Renumbered, Numbered, OvertakesOthers
  <2>2. Answered(t) \/ Reload(t)
    BY <1>2 DEF ReorderCommit
  <2> QED
    BY <2>1, <2>2, AnswerMoves DEF Moves, Reorders
<1>3. CASE ReorderAborts(t)
  <2>1. SameRows /\ Reload(t)
    BY <1>3 DEF ReorderAborts, SameRows
  <2> QED
    BY <2>1, AnswerMoves DEF Moves, WillRefresh
<1>4. CASE Refresh(t)
  <2>1. Gallery \in Orders
    BY GalleryIsOrder
  <2>2. CASE tab' = [tab EXCEPT ![t] = [TabIdle EXCEPT !.shown = Gallery]]
    <3>1. OnlyTab(t, "idle", NoPhoto, Gallery, <<>>)
      BY <2>1, <2>2, RestMoves DEF Steps
    <3> QED
      BY <1>4, <3>1 DEF Refresh, Moves, IsRefreshed
  <2>3. CASE tab' = [tab EXCEPT ![t] = [TabIdle EXCEPT !.shown = Gallery, !.pc = "add"]]
    <3>1. OnlyTab(t, "add", NoPhoto, Gallery, <<>>)
      BY <2>1, <2>3, RestMoves DEF Steps, UploadSteps
    <3> QED
      BY <1>4, <3>1 DEF Refresh, Moves, IsRefreshed
  <2> QED
    BY <1>4, <2>2, <2>3 DEF Refresh
<1>5. CASE Abandon(t)
  BY <1>5, AnswerMoves DEF Abandon, Moves, IsAbandoned
<1> QED
  BY <1>1, <1>2, <1>3, <1>4, <1>5 DEF ReorderStep

\* So every step of a tab is of one of these kinds.
LEMMA TabMoves ==
    ASSUME PhotosInv, GoodTable(rows), tab \in [Tabs -> Tab], NEW t \in Tabs, TabStep(t)
    PROVE  Moves(t)
  BY UploadMoves, DeleteMoves, OtherMoves DEF TabStep

-----------------------------------------------------------------------------
(* The orders that deletes have read *)

\* What a delete needs to be there to commit.
NeedsOf(w) == {w.photo} \union ToSet(w.order)

\* It may still commit.
AliveIn(w, table) == w.pc = "renumber" /\ NeedsOf(w) \subseteq KeysOf(table)

AgreesIn(order, table) ==
    \A i, j \in 1..Len(order) : i < j => Before(table[order[i]], table[order[j]])

\* A delete knows the photos of rows, not of uploads; its order is that of the table for
\* as long as it may commit; and of two such deletes one read all that the other needs.
OrdersInv ==
    /\ \A t \in Tabs : tab[t].pc = "renumber" =>
        /\ NeedsOf(tab[t]) \subseteq issued
        /\ tab[t].photo \notin ToSet(tab[t].order)
        /\ \A u \in Tabs : tab[u].pc = "insert" => tab[u].photo \notin NeedsOf(tab[t])
    /\ \A t \in Tabs : AliveIn(tab[t], rows) => AgreesIn(tab[t].order, rows)
    /\ \A t, u \in Tabs : AliveIn(tab[t], rows) /\ AliveIn(tab[u], rows) =>
        NeedsOf(tab[t]) \subseteq NeedsOf(tab[u]) \/ NeedsOf(tab[u]) \subseteq NeedsOf(tab[t])

GalleryOf(table) == ByPosition(table, KeysOf(table))

\* A tab that knows of every change shows the table, or the order it is about to write.
ShownInv ==
    \A t \in Tabs \ overtaken :
        /\ tab[t].pc \in Calm => tab[t].shown = GalleryOf(rows)
        /\ tab[t].pc = "reorder" => tab[t].shown = tab[t].order /\ ToSet(tab[t].order) = KeysOf(rows)

TableInv == tab \in [Tabs -> Tab] /\ GoodTable(rows) /\ OrdersInv /\ ShownInv

\* The photos of an order that agrees with the table stay in their order when they are
\* numbered by it.
LEMMA NumberedAgrees ==
    ASSUME NEW table, GoodTable(table), NEW order \in Orders, ToSet(order) \subseteq KeysOf(table),
           AgreesIn(order, table), NEW gone, NEW a \in ToSet(order) \ {gone},
           NEW b \in ToSet(order) \ {gone}, Before(table[a], table[b])
    PROVE  Before(Numbered(table, order, gone)[a], Numbered(table, order, gone)[b])
<1>1. /\ Len(order) \in Nat /\ ToSet(order) = {order[i] : i \in 1..Len(order)}
  BY OrderIs
<1>2. PICK i \in 1..Len(order), j \in 1..Len(order) : a = order[i] /\ b = order[j]
  BY <1>1
<1>3. Sortable(table, ToSet(order))
  BY TableSorts
<1>4. ~Before(table[b], table[a]) /\ ~Before(table[a], table[a])
  BY <1>3, PhotosAreOrdered
<1>5. i < j
  <2>1. ~(j < i)
    BY <1>2, <1>4 DEF AgreesIn
  <2>2. i # j
    BY <1>2, <1>4
  <2> QED
    BY <1>1, <2>1, <2>2
<1>6. /\ Numbered(table, order, gone)[a].position = i - 1
      /\ Numbered(table, order, gone)[b].position = j - 1
  BY <1>2, NumberedTable
<1> QED
  BY <1>1, <1>5, <1>6 DEF Before

\* A step that leaves the rows alone and begins no renumbering.
LEMMA QuietOrders ==
    ASSUME TableInv, NEW t \in Tabs, rows' = rows, issued \subseteq issued',
           \A u \in Tabs \ {t} : tab'[u] = tab[u], tab'[t].pc # "renumber",
           tab'[t].pc = "insert" => tab'[t].photo \notin issued
    PROVE  OrdersInv'
<1>1. \A u \in Tabs : tab'[u].pc = "renumber" => u # t /\ tab'[u] = tab[u]
  OBVIOUS
<1>2. ASSUME NEW u \in Tabs, tab'[u].pc = "renumber"
      PROVE  /\ NeedsOf(tab'[u]) \subseteq issued'
             /\ tab'[u].photo \notin ToSet(tab'[u].order)
             /\ \A x \in Tabs : tab'[x].pc = "insert" => tab'[x].photo \notin NeedsOf(tab'[u])
  <2>1. tab'[u] = tab[u] /\ tab[u].pc = "renumber"
    BY <1>1, <1>2
  <2>2. NeedsOf(tab[u]) \subseteq issued /\ tab[u].photo \notin ToSet(tab[u].order)
        /\ \A x \in Tabs : tab[x].pc = "insert" => tab[x].photo \notin NeedsOf(tab[u])
    BY <2>1 DEF TableInv, OrdersInv
  <2> QED
    BY <2>1, <2>2
<1>3. \A u \in Tabs : AliveIn(tab'[u], rows') => AliveIn(tab[u], rows) /\ tab'[u] = tab[u]
  BY <1>1 DEF AliveIn
<1>4. \A u \in Tabs : AliveIn(tab'[u], rows') => AgreesIn(tab'[u].order, rows')
  BY <1>3 DEF TableInv, OrdersInv
<1>5. \A u, v \in Tabs : AliveIn(tab'[u], rows') /\ AliveIn(tab'[v], rows') =>
        NeedsOf(tab'[u]) \subseteq NeedsOf(tab'[v]) \/ NeedsOf(tab'[v]) \subseteq NeedsOf(tab'[u])
  BY <1>3 DEF TableInv, OrdersInv
<1> QED
  BY <1>2, <1>4, <1>5 DEF OrdersInv

\* A delete reads the table: its order agrees, and it needs all that there is.
LEMMA ReadsRestOrders ==
    ASSUME PhotosInv, TableInv, NEW t \in Tabs, ReadsRest(t)
    PROVE  OrdersInv'
<1> DEFINE S == RowKeys \ {tab[t].photo}
<1>1. /\ rows' = rows /\ issued' = issued /\ tab[t].photo \in RowKeys
      /\ tab'[t].pc = "renumber" /\ tab'[t].photo = tab[t].photo /\ tab'[t].order = ByPosition(rows, S)
      /\ \A u \in Tabs \ {t} : tab'[u] = tab[u]
  BY DEF ReadsRest, OnlyTab, SameRows
<1>2. RowKeys = KeysOf(rows) /\ GoodTable(rows)
  BY DEF RowKeys, KeysOf, TableInv
<1>3. Sortable(rows, S) /\ ByPosition(rows, S) \in Orders /\ ToSet(ByPosition(rows, S)) = S
  BY <1>2, TableSorts
<1>4. NeedsOf(tab'[t]) = RowKeys
  BY <1>1, <1>3 DEF NeedsOf
<1>5. AgreesIn(tab'[t].order, rows)
  <2>1. /\ ByPosition(rows, S) \in [1..Cardinality(S) -> S] /\ Cardinality(S) \in Nat
        /\ \A i, j \in 1..Cardinality(S) :
             i < j <=> Before(rows[ByPosition(rows, S)[i]], rows[ByPosition(rows, S)[j]])
    BY <1>3, ByPositionSorts
  <2>2. Len(ByPosition(rows, S)) = Cardinality(S)
    BY <2>1
  <2> QED
    BY <1>1, <2>1, <2>2 DEF AgreesIn
<1>6. RowKeys \subseteq issued /\ \A u \in Tabs : tab[u].pc = "insert" => tab[u].photo \notin RowKeys
  BY DEF PhotosInv, Shape, Held
<1>7. ASSUME NEW u \in Tabs, tab'[u].pc = "renumber"
      PROVE  /\ NeedsOf(tab'[u]) \subseteq issued'
             /\ tab'[u].photo \notin ToSet(tab'[u].order)
             /\ \A x \in Tabs : tab'[x].pc = "insert" => tab'[x].photo \notin NeedsOf(tab'[u])
  <2>1. \A x \in Tabs : tab'[x].pc = "insert" => tab'[x] = tab[x]
    BY <1>1
  <2>2. CASE u = t
    BY <1>1, <1>3, <1>4, <1>6, <2>1, <2>2
  <2>3. CASE u # t
    <3>1. tab'[u] = tab[u] /\ tab[u].pc = "renumber"
      BY <1>1, <1>7, <2>3
    <3>2. NeedsOf(tab[u]) \subseteq issued /\ tab[u].photo \notin ToSet(tab[u].order)
          /\ \A x \in Tabs : tab[x].pc = "insert" => tab[x].photo \notin NeedsOf(tab[u])
      BY <3>1 DEF TableInv, OrdersInv
    <3> QED
      BY <1>1, <2>1, <3>1, <3>2
  <2> QED
    BY <2>2, <2>3
<1>8. \A u \in Tabs \ {t} : AliveIn(tab'[u], rows') => AliveIn(tab[u], rows) /\ tab'[u] = tab[u]
  BY <1>1
<1>9. \A u \in Tabs : AliveIn(tab'[u], rows') => AgreesIn(tab'[u].order, rows')
  BY <1>1, <1>5, <1>8 DEF TableInv, OrdersInv
<1>10. \A u \in Tabs : AliveIn(tab'[u], rows') => NeedsOf(tab'[u]) \subseteq RowKeys
  BY <1>1, <1>2, <1>4 DEF AliveIn
<1>11. \A u, v \in Tabs : AliveIn(tab'[u], rows') /\ AliveIn(tab'[v], rows') =>
        NeedsOf(tab'[u]) \subseteq NeedsOf(tab'[v]) \/ NeedsOf(tab'[v]) \subseteq NeedsOf(tab'[u])
  <2> SUFFICES ASSUME NEW u \in Tabs, NEW v \in Tabs, AliveIn(tab'[u], rows'), AliveIn(tab'[v], rows')
               PROVE  NeedsOf(tab'[u]) \subseteq NeedsOf(tab'[v]) \/ NeedsOf(tab'[v]) \subseteq NeedsOf(tab'[u])
    OBVIOUS
  <2>1. CASE u = t \/ v = t
    BY <1>4, <1>10, <2>1
  <2>2. CASE u # t /\ v # t
    BY <1>8, <2>2 DEF TableInv, OrdersInv
  <2> QED
    BY <2>1, <2>2
<1> QED
  BY <1>7, <1>9, <1>11 DEF OrdersInv

\* A new row is in no order that was read before.
LEMMA InsertsOrders ==
    ASSUME PhotosInv, TableInv, NEW t \in Tabs, Inserts(t)
    PROVE  OrdersInv' /\ GoodTable(rows)'
<1> DEFINE k == tab[t].photo
<1>1. /\ tab[t].pc = "insert" /\ rows' = Inserted(rows, k, tab[t].at) /\ issued' = issued
      /\ tab'[t].pc \in {"uploaded", "compensate"}
      /\ \A u \in Tabs \ {t} : tab'[u] = tab[u]
  BY DEF Inserts, OnlyTab
<1>2. k \in Photos /\ tab[t].at \in Nat /\ GoodTable(rows)
  BY <1>1 DEF PhotosInv, Shape, Held, Holding, TableInv, Tab
<1> HIDE DEF k
<1>3. PICK at \in Nat : at = tab[t].at
  BY <1>2
<1>4. /\ GoodTable(rows') /\ KeysOf(rows') = KeysOf(rows) \union {k}
      /\ \A x \in Photos \ {k} : rows'[x] = rows[x]
  BY <1>1, <1>2, <1>3, InsertedTable
<1>5. \A u \in Tabs : tab'[u].pc \in {"renumber", "insert"} => tab'[u] = tab[u]
  BY <1>1
<1>6. ASSUME NEW u \in Tabs, tab'[u].pc = "renumber"
      PROVE  /\ NeedsOf(tab'[u]) \subseteq issued'
             /\ tab'[u].photo \notin ToSet(tab'[u].order)
             /\ \A x \in Tabs : tab'[x].pc = "insert" => tab'[x].photo \notin NeedsOf(tab'[u])
             /\ k \notin NeedsOf(tab'[u])
  <2>1. tab'[u] = tab[u] /\ tab[u].pc = "renumber"
    BY <1>5, <1>6
  <2>2. NeedsOf(tab[u]) \subseteq issued /\ tab[u].photo \notin ToSet(tab[u].order)
        /\ \A x \in Tabs : tab[x].pc = "insert" => tab[x].photo \notin NeedsOf(tab[u])
    BY <2>1 DEF TableInv, OrdersInv
  <2> QED
    BY <1>1, <1>5, <2>1, <2>2 DEF k
<1>7. ASSUME NEW u \in Tabs, AliveIn(tab'[u], rows')
      PROVE  tab'[u] = tab[u] /\ AliveIn(tab[u], rows) /\ AgreesIn(tab'[u].order, rows')
  <2>1. tab'[u].pc = "renumber" /\ NeedsOf(tab'[u]) \subseteq KeysOf(rows) \union {k}
    BY <1>4, <1>7 DEF AliveIn
  <2>2. tab'[u] = tab[u] /\ NeedsOf(tab[u]) \subseteq KeysOf(rows) /\ k \notin NeedsOf(tab[u])
    BY <1>5, <1>6, <2>1
  <2>3. AliveIn(tab[u], rows)
    BY <2>1, <2>2 DEF AliveIn
  <2>4. AgreesIn(tab[u].order, rows) /\ tab[u].order \in Orders
    BY <2>3 DEF TableInv, OrdersInv, Tab
  <2>5. ToSet(tab[u].order) \subseteq Photos \ {k}
    BY <2>2 DEF NeedsOf, KeysOf
  <2>6. PICK order \in Orders : order = tab[u].order
    BY <2>4
  <2>7. \A i \in 1..Len(order) : order[i] \in Photos \ {k}
    BY <2>5, <2>6, OrderIs
  <2>8. AgreesIn(order, rows')
    BY <1>4, <2>4, <2>6, <2>7 DEF AgreesIn
  <2> QED
    BY <2>2, <2>3, <2>6, <2>8
<1>8. \A u, v \in Tabs : AliveIn(tab'[u], rows') /\ AliveIn(tab'[v], rows') =>
        NeedsOf(tab'[u]) \subseteq NeedsOf(tab'[v]) \/ NeedsOf(tab'[v]) \subseteq NeedsOf(tab'[u])
  BY <1>7 DEF TableInv, OrdersInv
<1> QED
  BY <1>4, <1>6, <1>7, <1>8 DEF OrdersInv

\* A delete that commits dooms every other that read its photo, and the rest need only
\* photos that it numbered in the order they have.
LEMMA DeletesOrders ==
    ASSUME PhotosInv, TableInv, NEW t \in Tabs, Deletes(t)
    PROVE  OrdersInv' /\ GoodTable(rows)'
<1>1. PICK gone, order : gone = tab[t].photo /\ order = tab[t].order
  OBVIOUS
<1>2. /\ tab[t].pc = "renumber" /\ {gone} \union ToSet(order) \subseteq KeysOf(rows)
      /\ rows' = Numbered(rows, order, gone) /\ issued' = issued
      /\ tab'[t].pc \in {"removeObject", "refresh"}
      /\ \A u \in Tabs \ {t} : tab'[u] = tab[u]
  BY <1>1 DEF Deletes, OnlyTab, RowKeys, KeysOf
<1>3. GoodTable(rows) /\ order \in Orders
  BY <1>1 DEF TableInv, Tab
<1>4. AliveIn(tab[t], rows) /\ NeedsOf(tab[t]) = {gone} \union ToSet(order) /\ AgreesIn(order, rows)
  <2>1. NeedsOf(tab[t]) = {gone} \union ToSet(order)
    BY <1>1 DEF NeedsOf
  <2>2. AliveIn(tab[t], rows)
    BY <1>2, <2>1 DEF AliveIn
  <2> QED
    BY <1>1, <2>1, <2>2 DEF TableInv, OrdersInv
<1>5. GoodTable(rows') /\ KeysOf(rows') = KeysOf(rows) \ {gone}
  BY <1>2, <1>3, NumberedTable
<1>6. \A u \in Tabs : tab'[u].pc \in {"renumber", "insert"} => tab'[u] = tab[u]
  BY <1>2
<1>7. ASSUME NEW u \in Tabs, tab'[u].pc = "renumber"
      PROVE  /\ NeedsOf(tab'[u]) \subseteq issued'
             /\ tab'[u].photo \notin ToSet(tab'[u].order)
             /\ \A x \in Tabs : tab'[x].pc = "insert" => tab'[x].photo \notin NeedsOf(tab'[u])
  <2>1. tab'[u] = tab[u] /\ tab[u].pc = "renumber"
    BY <1>6, <1>7
  <2>2. NeedsOf(tab[u]) \subseteq issued /\ tab[u].photo \notin ToSet(tab[u].order)
        /\ \A x \in Tabs : tab[x].pc = "insert" => tab[x].photo \notin NeedsOf(tab[u])
    BY <2>1 DEF TableInv, OrdersInv
  <2> QED
    BY <1>2, <1>6, <2>1, <2>2
<1>8. ASSUME NEW u \in Tabs, AliveIn(tab'[u], rows')
      PROVE  tab'[u] = tab[u] /\ AliveIn(tab[u], rows) /\ AgreesIn(tab'[u].order, rows')
  <2>1. /\ tab'[u] = tab[u] /\ tab[u].pc = "renumber" /\ NeedsOf(tab[u]) \subseteq KeysOf(rows)
        /\ gone \notin NeedsOf(tab[u])
    BY <1>5, <1>6, <1>8 DEF AliveIn
  <2>2. AliveIn(tab[u], rows)
    BY <2>1 DEF AliveIn
  <2>3. NeedsOf(tab[u]) \subseteq NeedsOf(tab[t])
    BY <1>4, <2>1, <2>2 DEF TableInv, OrdersInv
  <2>4. PICK other \in Orders : other = tab[u].order
    BY DEF TableInv, Tab
  <2>5. AgreesIn(other, rows) /\ ToSet(other) \subseteq ToSet(order) \ {gone}
    <3>1. AgreesIn(other, rows)
      BY <2>2, <2>4 DEF TableInv, OrdersInv
    <3>2. ToSet(other) \subseteq NeedsOf(tab[u])
      BY <2>4 DEF NeedsOf
    <3> QED
      BY <1>4, <2>1, <2>3, <3>1, <3>2
  <2>6. ASSUME NEW i \in 1..Len(other), NEW j \in 1..Len(other), i < j
        PROVE  Before(rows'[other[i]], rows'[other[j]])
    <3>1. other[i] \in ToSet(other) /\ other[j] \in ToSet(other)
      BY OrderIs
    <3>2. Before(rows[other[i]], rows[other[j]])
      BY <2>5, <2>6 DEF AgreesIn
    <3> QED
      BY <1>2, <1>3, <1>4, <2>5, <3>1, <3>2, NumberedAgrees
  <2>7. AgreesIn(other, rows')
    BY <2>6 DEF AgreesIn
  <2> QED
    BY <2>1, <2>2, <2>4, <2>7
<1>9. \A u, v \in Tabs : AliveIn(tab'[u], rows') /\ AliveIn(tab'[v], rows') =>
        NeedsOf(tab'[u]) \subseteq NeedsOf(tab'[v]) \/ NeedsOf(tab'[v]) \subseteq NeedsOf(tab'[u])
  BY <1>8 DEF TableInv, OrdersInv
<1> QED
  BY <1>5, <1>7, <1>8, <1>9 DEF OrdersInv

\* A reorder waits for the deletes that have read.
LEMMA ReordersOrders ==
    ASSUME TableInv, NEW t \in Tabs, Reorders(t)
    PROVE  OrdersInv' /\ GoodTable(rows)'
<1>1. PICK order : order = tab[t].order
  OBVIOUS
<1>2. /\ ToSet(order) \subseteq KeysOf(rows) /\ rows' = Numbered(rows, order, NoPhoto)
      /\ \A u \in Tabs : tab'[u].pc # "renumber"
  BY <1>1 DEF Reorders, OnlyTab, RowKeys, KeysOf
<1>3. GoodTable(rows) /\ order \in Orders
  BY <1>1 DEF TableInv, Tab
<1>4. GoodTable(rows')
  BY <1>2, <1>3, NumberedTable
<1>5. \A u \in Tabs : ~AliveIn(tab'[u], rows')
  BY <1>2 DEF AliveIn
<1> QED
  BY <1>2, <1>4, <1>5 DEF OrdersInv

\* Every step of a tab keeps the orders and the rows.
LEMMA TabOrders ==
    ASSUME PhotosInv, TableInv, NEW t \in Tabs, Moves(t)
    PROVE  (tab \in [Tabs -> Tab])' /\ GoodTable(rows)' /\ OrdersInv'
<1>1. tab' \in [Tabs -> Tab]
  BY DEF Moves, GoesOn, Uploads, UploadFails, WillRefresh, IsAbandoned, IsRefreshed, ReadsRest,
         Inserts, Deletes, Swaps, Reorders, OnlyTab
<1>2. GoodTable(rows)
  BY DEF TableInv
<1>3. CASE GoesOn(t) \/ Uploads(t) \/ UploadFails(t) \/ WillRefresh(t) \/ IsAbandoned(t)
           \/ IsRefreshed(t) \/ Swaps(t)
  <2>1. /\ rows' = rows /\ issued \subseteq issued' /\ \A u \in Tabs \ {t} : tab'[u] = tab[u]
        /\ tab'[t].pc # "renumber"
        /\ tab'[t].pc = "insert" => tab'[t].photo \notin issued
    BY <1>3 DEF GoesOn, Uploads, UploadFails, WillRefresh, IsAbandoned, IsRefreshed, Swaps, OnlyTab,
                SameRows, Calm
  <2> QED
    BY <1>1, <1>2, <2>1, QuietOrders
<1>4. CASE ReadsRest(t)
  <2>1. rows' = rows
    BY <1>4 DEF ReadsRest, SameRows
  <2> QED
    BY <1>1, <1>2, <1>4, <2>1, ReadsRestOrders
<1> QED
  BY <1>1, <1>3, <1>4, InsertsOrders, DeletesOrders, ReordersOrders DEF Moves

-----------------------------------------------------------------------------
(* What the tabs show *)

\* A reorder that knew the table writes the order that the tab shows.
LEMMA ReorderedGallery ==
    ASSUME NEW table, GoodTable(table), NEW order \in Orders, ToSet(order) = KeysOf(table)
    PROVE  GalleryOf(Numbered(table, order, NoPhoto)) = order
<1> DEFINE new == Numbered(table, order, NoPhoto)
<1>1. /\ Len(order) \in Nat /\ order \in [1..Len(order) -> Photos]
      /\ ToSet(order) = {order[i] : i \in 1..Len(order)}
  BY OrderIs
<1>2. \A k \in Photos : k # NoPhoto
  BY MediaAssumption DEF Photos
<1>3. /\ GoodTable(new) /\ KeysOf(new) = KeysOf(table)
      /\ \A i \in 1..Len(order) : new[order[i]].position = i - 1
  BY <1>1, <1>2, NumberedTable DEF KeysOf
<1> HIDE DEF new
<1>4. Sortable(new, KeysOf(new))
  BY <1>3, TableSorts
<1>5. \A i, j \in 1..Len(order) : i < j => Before(new[order[i]], new[order[j]])
  BY <1>1, <1>3 DEF Before
<1>6. order \in [1..Len(order) -> KeysOf(new)]
  BY <1>1, <1>3
<1>7. PICK n \in Nat : n = Len(order)
  BY <1>1
<1>8. order = ByPosition(new, KeysOf(new))
  BY <1>3, <1>4, <1>5, <1>6, <1>7, SortedOnlyOnce
<1> QED
  BY <1>8 DEF GalleryOf, new

\* Every step of a tab leaves it, and the tabs it does not overtake, with the truth.
LEMMA TabShown ==
    ASSUME TableInv, NEW t \in Tabs, Moves(t)
    PROVE  ShownInv'
<1> SUFFICES ASSUME NEW u \in Tabs, u \notin overtaken'
             PROVE  /\ tab'[u].pc \in Calm => tab'[u].shown = GalleryOf(rows')
                    /\ tab'[u].pc = "reorder" => tab'[u].shown = tab'[u].order
                                                 /\ ToSet(tab'[u].order) = KeysOf(rows')
  BY DEF ShownInv
<1>1. Gallery = GalleryOf(rows) /\ RowKeys = KeysOf(rows)
  BY DEF Gallery, GalleryOf, RowKeys, KeysOf
<1>2. u \notin overtaken =>
        /\ tab[u].pc \in Calm => tab[u].shown = GalleryOf(rows)
        /\ tab[u].pc = "reorder" => tab[u].shown = tab[u].order /\ ToSet(tab[u].order) = KeysOf(rows)
  BY DEF TableInv, ShownInv
<1>3. CASE u # t
  <2>1. tab'[u] = tab[u]
    BY <1>3 DEF Moves, GoesOn, Uploads, UploadFails, WillRefresh, IsAbandoned, IsRefreshed, ReadsRest,
                Inserts, Deletes, Swaps, Reorders, OnlyTab
  <2>2. rows' = rows /\ u \notin overtaken
    BY <1>3 DEF Moves, GoesOn, Uploads, UploadFails, WillRefresh, IsAbandoned, IsRefreshed, ReadsRest,
                Inserts, Deletes, Swaps, Reorders, SameRows
  <2> QED
    BY <1>2, <2>1, <2>2
<1>4. CASE u = t
  <2>1. CASE GoesOn(t) \/ Uploads(t) \/ UploadFails(t) \/ ReadsRest(t)
    <3>1. /\ rows' = rows /\ overtaken' = overtaken /\ tab[t].pc \in Calm
          /\ tab'[t].pc \in Calm /\ tab'[t].shown = tab[t].shown
      BY <2>1 DEF GoesOn, Uploads, UploadFails, ReadsRest, OnlyTab, SameRows, Calm
    <3> QED
      BY <1>2, <1>4, <3>1 DEF Calm
  <2>2. CASE WillRefresh(t)
    BY <1>4, <2>2 DEF WillRefresh, OnlyTab, Calm
  <2>3. CASE IsAbandoned(t)
    BY <1>4, <2>3 DEF IsAbandoned
  <2>4. CASE IsRefreshed(t)
    BY <1>1, <1>4, <2>4 DEF IsRefreshed, OnlyTab, Calm
  <2>5. CASE Inserts(t)
    BY <1>4, <2>5 DEF Inserts, OnlyTab, Calm
  <2>6. CASE Deletes(t)
    BY <1>4, <2>6 DEF Deletes, OnlyTab, Calm
  <2>7. CASE Swaps(t)
    <3>1. /\ rows' = rows /\ tab'[t].pc = "reorder" /\ tab'[t].shown = tab'[t].order
          /\ ToSet(tab'[t].order) = KeysOf(rows)
      BY <1>1, <2>7 DEF Swaps, OnlyTab, SameRows
    <3> QED
      BY <1>4, <3>1 DEF Calm
  <2>8. CASE Reorders(t)
    <3>1. PICK order : order = tab[t].order
      OBVIOUS
    <3>2. order \in Orders /\ GoodTable(rows)
      BY <3>1 DEF TableInv, Tab
    <3>3. /\ t \notin overtaken /\ tab[t].pc = "reorder" /\ rows' = Numbered(rows, order, NoPhoto)
          /\ tab'[t].pc \in {"idle", "refresh"} /\ tab'[t].shown = tab[t].shown
      BY <1>4, <2>8, <3>1 DEF Reorders, OnlyTab
    <3>4. tab[t].shown = order /\ ToSet(order) = KeysOf(rows)
      BY <1>2, <1>4, <3>1, <3>3
    <3>5. GalleryOf(rows') = order
      BY <3>2, <3>3, <3>4, ReorderedGallery
    <3> QED
      BY <1>4, <3>3, <3>4, <3>5
  <2> QED
    BY <2>1, <2>2, <2>3, <2>4, <2>5, <2>6, <2>7, <2>8 DEF Moves
<1> QED
  BY <1>3, <1>4

\* The first state: no rows, and every tab about to refresh.
LEMMA InitTable == Init => TableInv
<1> SUFFICES ASSUME Init PROVE TableInv
  OBVIOUS
<1>1. rows = [k \in Photos |-> NoRow] /\ overtaken = {}
      /\ tab = [t \in Tabs |-> [TabIdle EXCEPT !.pc = "refresh"]]
  BY DEF Init, PhotosInit
<1>2. KeysOf(rows) = {} /\ GoodTable(rows)
  BY <1>1 DEF KeysOf, GoodTable
<1>3. \A t \in Tabs : tab[t] = [TabIdle EXCEPT !.pc = "refresh"]
  BY <1>1
<1>4. [TabIdle EXCEPT !.pc = "refresh"] \in Tab /\ [TabIdle EXCEPT !.pc = "refresh"].pc = "refresh"
  BY IdleTab DEF Tab
<1>5. tab \in [Tabs -> Tab] /\ \A t \in Tabs : tab[t].pc = "refresh"
  BY <1>1, <1>4
<1> QED
  BY <1>2, <1>5 DEF TableInv, OrdersInv, ShownInv, AliveIn, Calm

\* Every step keeps the table and what is shown of it.
LEMMA NextTable ==
    ASSUME PhotosInv, TableInv, [Next]_vars
    PROVE  TableInv'
<1>1. ASSUME NEW t \in Tabs, TabStep(t) PROVE TableInv'
  <2>1. Moves(t)
    BY <1>1, TabMoves DEF TableInv
  <2> QED
    BY <2>1, TabOrders, TabShown DEF TableInv
<1>2. ASSUME UNCHANGED <<rows, issued, tab, overtaken>> PROVE TableInv'
  BY <1>2 DEF TableInv, OrdersInv, ShownInv
<1> QED
  BY <1>1, <1>2 DEF Next, StatusChanges, photoVars, vars

\* A tab at rest that knows of every change shows the photos in their order
\* (ImageManager.tsx: optimistic order, refresh, rollback; reorderListingImages,
\* deleteListingImage, addListingImage), for any number of tabs, photos and faults.
THEOREM TabsTellTheTruth == Spec => []ShownIsStored
<1>1. Init => PhotosInv /\ SlotInv /\ TableInv
  BY InitPhotosInv, InitSlotInv, InitTable
<1>2. PhotosInv /\ SlotInv /\ TableInv /\ [Next]_vars => (PhotosInv /\ SlotInv /\ TableInv)'
  BY NextInv, NextTable
<1>3. TableInv => ShownIsStored
  <2>1. Gallery = GalleryOf(rows)
    BY DEF Gallery, GalleryOf, RowKeys, KeysOf
  <2> QED
    BY <2>1 DEF TableInv, ShownInv, ShownIsStored, Calm
<1> QED
  BY <1>1, <1>2, <1>3, PTL DEF Spec

\* One photo stands before another in the sorted table if its row is before.
LEMMA InOrderIsBefore ==
    ASSUME NEW table, NEW photos, Sortable(table, photos), NEW a, NEW b
    PROVE  InOrder(ByPosition(table, photos), a, b)
             <=> a \in photos /\ b \in photos /\ Before(table[a], table[b])
<1> DEFINE s == ByPosition(table, photos)
           n == Cardinality(photos)
<1>1. /\ n \in Nat /\ s \in [1..n -> photos] /\ ToSet(s) = photos
      /\ \A i, j \in 1..n : i < j <=> Before(table[s[i]], table[s[j]])
  BY ByPositionSorts
<1> HIDE DEF s, n
<1>2. DOMAIN s = 1..n
  BY <1>1
<1>3. \A k \in photos : \E i \in 1..n : s[i] = k
  BY <1>1, <1>2 DEF ToSet
<1>4. InOrder(s, a, b) => a \in photos /\ b \in photos /\ Before(table[a], table[b])
  BY <1>1, <1>2 DEF InOrder
<1>5. a \in photos /\ b \in photos /\ Before(table[a], table[b]) => InOrder(s, a, b)
  BY <1>1, <1>2, <1>3 DEF InOrder
<1> QED
  BY <1>4, <1>5 DEF s

\* A delete that commits keeps the order of what it leaves (deleteListingImage: the
\* remaining photos, read before, are numbered again).
LEMMA CommitKeepsOrder ==
    ASSUME TableInv, NEW t \in Tabs, Deletes(t), NEW a \in ToSet(tab[t].order),
           NEW b \in ToSet(tab[t].order), InOrder(Gallery, a, b)
    PROVE  InOrder(Gallery', a, b)
<1>1. PICK gone, order : gone = tab[t].photo /\ order = tab[t].order
  OBVIOUS
<1>2. /\ tab[t].pc = "renumber" /\ {gone} \union ToSet(order) \subseteq KeysOf(rows)
      /\ rows' = Numbered(rows, order, gone)
  BY <1>1 DEF Deletes, RowKeys, KeysOf
<1>3. GoodTable(rows) /\ order \in Orders
  BY <1>1 DEF TableInv, Tab
<1>4. gone \notin ToSet(order) /\ AgreesIn(order, rows)
  <2>1. NeedsOf(tab[t]) = {gone} \union ToSet(order)
    BY <1>1 DEF NeedsOf
  <2>2. AliveIn(tab[t], rows)
    BY <1>2, <2>1 DEF AliveIn
  <2> QED
    BY <1>1, <1>2, <2>2 DEF TableInv, OrdersInv
<1>5. Gallery = ByPosition(rows, KeysOf(rows)) /\ Gallery' = ByPosition(rows', KeysOf(rows'))
  BY DEF Gallery, RowKeys, KeysOf
<1>6. Sortable(rows, KeysOf(rows))
  BY <1>3, TableSorts
<1>7. Before(rows[a], rows[b])
  BY <1>5, <1>6, InOrderIsBefore
<1>8. GoodTable(rows') /\ KeysOf(rows') = KeysOf(rows) \ {gone}
  BY <1>2, <1>3, NumberedTable
<1>9. a \in ToSet(order) \ {gone} /\ b \in ToSet(order) \ {gone}
  BY <1>1, <1>4
<1>10. Before(rows'[a], rows'[b])
  BY <1>2, <1>3, <1>4, <1>7, <1>9, NumberedAgrees
<1>11. Sortable(rows', KeysOf(rows'))
  BY <1>8, TableSorts
<1> QED
  BY <1>2, <1>5, <1>8, <1>9, <1>10, <1>11, InOrderIsBefore

\* The photos a delete leaves keep their order, whatever other deletes, uploads and
\* reorders came between its read and its commit.
THEOREM DeletesKeepOrder == Spec => DeleteKeepsOrder
<1> DEFINE Kept ==
      \A t \in Tabs : tab[t].pc = "renumber" /\ tab'[t].pc # "renumber" /\ rows' # rows =>
        \A a, b \in ToSet(tab[t].order) : InOrder(Gallery, a, b) => InOrder(Gallery', a, b)
<1>1. Init => PhotosInv /\ SlotInv /\ TableInv
  BY InitPhotosInv, InitSlotInv, InitTable
<1>2. PhotosInv /\ SlotInv /\ TableInv /\ [Next]_vars => (PhotosInv /\ SlotInv /\ TableInv)'
  BY NextInv, NextTable
<1>3. PhotosInv /\ TableInv /\ [Next]_vars => [Kept]_vars
  <2> SUFFICES ASSUME PhotosInv, TableInv, [Next]_vars, NEW t \in Tabs, tab[t].pc = "renumber",
                      tab'[t].pc # "renumber", rows' # rows,
                      NEW a \in ToSet(tab[t].order), NEW b \in ToSet(tab[t].order),
                      InOrder(Gallery, a, b)
               PROVE  InOrder(Gallery', a, b)
    OBVIOUS
  <2>1. ~(UNCHANGED rows)
    OBVIOUS
  <2>2. PICK u \in Tabs : TabStep(u)
    BY <2>1 DEF Next, StatusChanges, photoVars, vars
  <2>3. Moves(u)
    BY <2>2, TabMoves DEF TableInv
  <2>4. Inserts(u) \/ Deletes(u) \/ Reorders(u)
    BY <2>1, <2>3 DEF Moves, GoesOn, Uploads, UploadFails, WillRefresh, IsAbandoned, IsRefreshed,
                      ReadsRest, Swaps, SameRows
  <2>5. u = t
    BY <2>4 DEF Inserts, Deletes, Reorders, OnlyTab
  <2>6. Deletes(t)
    BY <2>4, <2>5 DEF Inserts, Reorders
  <2> QED
    BY <2>6, CommitKeepsOrder
<1> HIDE DEF Kept
<1>4. Spec => [][Kept]_vars
  BY <1>1, <1>2, <1>3, PTL DEF Spec
<1> QED
  BY <1>4 DEF Kept, DeleteKeepsOrder

-----------------------------------------------------------------------------
(* Types *)

\* What the theorems above do not say of the types.
RestTyped ==
    /\ faults \in 0..MaxFaults
    /\ editable \in BOOLEAN
    /\ replyLost \subseteq Photos
    /\ overtaken \subseteq Tabs
    /\ HomepageTypeOK

\* The first state.
LEMMA InitRest == Init => RestTyped
  BY MediaAssumption DEF Init, BucketInit, PhotosInit, HomepageInit, RestTyped, HomepageTypeOK,
     NoOverride, EditorIdle, NoKey

\* A tab.
LEMMA TabRest ==
    ASSUME PhotosInv, RestTyped, NEW t \in Tabs, TabStep(t), UNCHANGED homepageVars
    PROVE  RestTyped'
<1>1. HomepageTypeOK'
  BY DEF homepageVars, HomepageTypeOK, RestTyped
<1>2. faults' \in 0..MaxFaults
  <2>1. faults' = faults \/ Fault
    BY DEF TabStep, UploadStep, DeleteStep, ReorderStep, RouteRefuses, AddBegin, AddCount, AddUpload,
           AddInsert, AddInsertFails, AddInsertReplyLost, AddCompensate, DeleteBegin, DeleteRead,
           DeleteCommit, DeleteAborts, DeleteObject, ReorderBegin, ReorderCommit, ReorderAborts,
           ReorderFails, Refresh, Abandon, RemoveObjects, NoFault, bucketVars
  <2> QED
    BY <2>1, MediaAssumption DEF Fault, RestTyped
<1>3. editable' = editable
  BY DEF TabStep, UploadStep, DeleteStep, ReorderStep, RouteRefuses, AddBegin, AddCount, AddUpload,
         AddInsert, AddInsertFails, AddInsertReplyLost, AddCompensate, DeleteBegin, DeleteRead,
         DeleteCommit, DeleteAborts, DeleteObject, ReorderBegin, ReorderCommit, ReorderAborts,
         ReorderFails, Refresh, Abandon
<1>4. replyLost' \subseteq Photos
  <2>1. CASE AddInsertReplyLost(t)
    <3>1. tab[t].photo \in Photos
      BY <2>1 DEF AddInsertReplyLost, PhotosInv, Shape, Held, Holding
    <3> QED
      BY <2>1, <3>1 DEF AddInsertReplyLost, RestTyped
  <2>2. CASE ~AddInsertReplyLost(t)
    <3>1. replyLost' = replyLost
      BY <2>2 DEF TabStep, UploadStep, DeleteStep, ReorderStep, RouteRefuses, AddBegin, AddCount,
           AddUpload, AddInsert, AddInsertFails, AddCompensate, DeleteBegin, DeleteRead,
           DeleteCommit, DeleteAborts, DeleteObject, ReorderBegin, ReorderCommit, ReorderAborts,
           ReorderFails, Refresh, Abandon
    <3> QED
      BY <3>1 DEF RestTyped
  <2> QED
    BY <2>1, <2>2
<1>5. overtaken' \subseteq Tabs
  <2>1. \/ overtaken' = overtaken \/ OvertakesOthers(t) \/ overtaken' = Tabs
        \/ overtaken' = overtaken \ {t} \/ overtaken' = overtaken \union {t}
    BY DEF TabStep, UploadStep, DeleteStep, ReorderStep, RouteRefuses, AddBegin, AddCount, AddUpload,
           AddInsert, AddInsertFails, AddInsertReplyLost, AddCompensate, DeleteBegin, DeleteRead,
           DeleteCommit, DeleteAborts, DeleteObject, ReorderBegin, ReorderCommit, ReorderAborts,
           ReorderFails, Refresh, Abandon
  <2> QED
    BY <2>1 DEF OvertakesOthers, RestTyped
<1> QED
  BY <1>1, <1>2, <1>3, <1>4, <1>5 DEF RestTyped

\* An editor.
LEMMA EditorRest ==
    ASSUME SlotInv, RestTyped, NEW e \in Editors, EditorStep(e), UNCHANGED photoVars
    PROVE  RestTyped'
<1>1. /\ slot \in [key: Nested, alt: Editors] \union {NoOverride}
      /\ slotIssued \subseteq Nested /\ slotReplyLost \subseteq Nested
      /\ editor \in [Editors -> [pc: {"idle", "readOld", "upsert", "compensate", "removeOld"},
                                 key: Nested \union {NoKey}, old: Nested \union {NoKey}]]
  BY DEF RestTyped, HomepageTypeOK
<1>2. faults' \in 0..MaxFaults
  <2>1. faults' = faults \/ Fault
    BY DEF EditorStep, ReplaceUpload, ReplaceReadOld, ReplaceUpsert, ReplaceUpsertFails,
           ReplaceReplyLost, ReplaceCompensate, ReplaceRemoveOld, UpdateAlt, ReplaceCrash,
           RemoveObjects, NoFault, bucketVars
  <2> QED
    BY <2>1, MediaAssumption DEF Fault, RestTyped
<1>3. editor[e].pc # "idle" => editor[e].key \in Nested
  BY DEF SlotInv, SlotShape
<1>4. slot.key \in Nested \union {NoKey}
  BY <1>1 DEF NoOverride
<1>5. Saved(e) => editor' \in [Editors -> [pc: {"idle", "readOld", "upsert", "compensate", "removeOld"},
                                 key: Nested \union {NoKey}, old: Nested \union {NoKey}]]
  BY <1>1 DEF Saved, EditorIdle
<1>6. HomepageTypeOK'
  <2>1. CASE ReplaceUpload(e)
    <3>1. PICK k \in Nested \ slotIssued :
            /\ slotIssued' = slotIssued \union {k}
            /\ \/ editor' = [editor EXCEPT ![e].pc = "readOld", ![e].key = k]
               \/ Saved(e)
      BY <2>1 DEF ReplaceUpload
    <3>2. slot' = slot /\ slotReplyLost' = slotReplyLost
      BY <2>1 DEF ReplaceUpload
    <3>3. editor' \in [Editors -> [pc: {"idle", "readOld", "upsert", "compensate", "removeOld"},
                                 key: Nested \union {NoKey}, old: Nested \union {NoKey}]]
      BY <1>1, <1>5, <3>1
    <3> QED
      BY <1>1, <3>1, <3>2, <3>3 DEF HomepageTypeOK
  <2>2. CASE ReplaceReadOld(e)
    <3>1. editor' \in [Editors -> [pc: {"idle", "readOld", "upsert", "compensate", "removeOld"},
                                 key: Nested \union {NoKey}, old: Nested \union {NoKey}]]
      BY <1>1, <1>4, <2>2 DEF ReplaceReadOld
    <3> QED
      BY <1>1, <2>2, <3>1 DEF ReplaceReadOld, HomepageTypeOK
  <2>3. CASE ReplaceUpsert(e) \/ ReplaceReplyLost(e)
    <3>1. /\ slot' = [key |-> editor[e].key, alt |-> e] /\ editor[e].key \in Nested
          /\ EditorAt(e, "removeOld") \/ EditorAt(e, "compensate")
          /\ slotIssued' = slotIssued
          /\ slotReplyLost' \in {slotReplyLost, slotReplyLost \union {editor[e].key}}
      BY <1>3, <2>3 DEF ReplaceUpsert, ReplaceReplyLost
    <3>2. editor' \in [Editors -> [pc: {"idle", "readOld", "upsert", "compensate", "removeOld"},
                                 key: Nested \union {NoKey}, old: Nested \union {NoKey}]]
      BY <1>1, <3>1 DEF EditorAt
    <3>3. slot' \in [key: Nested, alt: Editors]
      BY <3>1
    <3> QED
      BY <1>1, <3>1, <3>2, <3>3 DEF HomepageTypeOK
  <2>4. CASE ReplaceUpsertFails(e)
    <3>1. editor' \in [Editors -> [pc: {"idle", "readOld", "upsert", "compensate", "removeOld"},
                                 key: Nested \union {NoKey}, old: Nested \union {NoKey}]]
      BY <1>1, <2>4 DEF ReplaceUpsertFails, EditorAt
    <3> QED
      BY <1>1, <2>4, <3>1 DEF ReplaceUpsertFails, HomepageTypeOK
  <2>5. CASE ReplaceCompensate(e) \/ ReplaceRemoveOld(e) \/ ReplaceCrash(e)
    <3>1. Saved(e) /\ UNCHANGED <<slot, slotIssued, slotReplyLost>>
      BY <2>5 DEF ReplaceCompensate, ReplaceRemoveOld, ReplaceCrash
    <3> QED
      BY <1>1, <1>5, <3>1 DEF HomepageTypeOK
  <2>6. CASE UpdateAlt(e)
    <3>1. slot \in [key: Nested, alt: Editors] /\ slot' = [slot EXCEPT !.alt = e]
          /\ UNCHANGED <<slotIssued, editor, slotReplyLost>>
      BY <1>1, <2>6 DEF UpdateAlt
    <3>2. slot' \in [key: Nested, alt: Editors]
      BY <3>1
    <3> QED
      BY <1>1, <3>1, <3>2 DEF HomepageTypeOK
  <2> QED
    BY <2>1, <2>2, <2>3, <2>4, <2>5, <2>6 DEF EditorStep
<1> QED
  BY <1>2, <1>6 DEF RestTyped, photoVars

\* Every step.
LEMMA NextRest ==
    ASSUME PhotosInv, SlotInv, RestTyped, [Next]_vars
    PROVE  RestTyped'
<1>1. ASSUME StatusChanges, UNCHANGED homepageVars PROVE RestTyped'
  BY <1>1 DEF StatusChanges, homepageVars, bucketVars, RestTyped, HomepageTypeOK
<1>2. ASSUME CleanerStep, UNCHANGED <<photoVars, homepageVars>> PROVE RestTyped'
  <2>1. faults' = faults \/ Fault
    BY <1>2 DEF CleanerStep, ReconcileBegin, ReconcileList, ReconcileRemove, RemoveObjects, NoFault
  <2>2. faults' \in 0..MaxFaults
    BY <2>1, MediaAssumption DEF Fault, RestTyped
  <2> QED
    BY <1>2, <2>2 DEF photoVars, homepageVars, RestTyped, HomepageTypeOK
<1>3. ASSUME ClockTick(InFlight), UNCHANGED <<photoVars, homepageVars>> PROVE RestTyped'
  BY <1>3 DEF ClockTick, photoVars, homepageVars, RestTyped, HomepageTypeOK
<1>4. ASSUME UNCHANGED vars PROVE RestTyped'
  BY <1>4 DEF vars, photoVars, homepageVars, bucketVars, RestTyped, HomepageTypeOK
<1> QED
  BY <1>1, <1>2, <1>3, <1>4, TabRest, EditorRest DEF Next

\* Media is type correct.
THEOREM MediaTypeCorrect == Spec => []TypeOK
<1>1. Init => PhotosInv /\ SlotInv /\ TableInv /\ RestTyped
  BY InitPhotosInv, InitSlotInv, InitTable, InitRest
<1>2. PhotosInv /\ SlotInv /\ TableInv /\ RestTyped /\ [Next]_vars
        => (PhotosInv /\ SlotInv /\ TableInv /\ RestTyped)'
  BY NextInv, NextTable, NextRest
<1>3. PhotosInv /\ TableInv /\ RestTyped => TypeOK
  BY DEF PhotosInv, Shape, TableInv, GoodTable, RestTyped, TypeOK, BucketTypeOK, PhotosTypeOK
<1> QED
  BY <1>1, <1>2, <1>3, PTL DEF Spec
====
