---------------------------- MODULE ListingImages ----------------------------
(***************************************************************************)
(* The photos of one listing (modules/catalog/image-service.ts) and the    *)
(* photo managers open on it (components/seller/ImageManager.tsx).  The    *)
(* request of a tab takes the steps its handler awaits: status, count,     *)
(* object, row for an upload; status, transaction, object for a delete;    *)
(* status and permutation check, transaction for a reorder.  A photo is    *)
(* its storage key, which stands for its image id too.                     *)
(***************************************************************************)
EXTENDS ImageBucket, ImageChecks, Sequences, FiniteSets, SequencesExt

CONSTANTS
    Tabs,       \* photo managers open on the listing
    MaxImages   \* MAX_LISTING_IMAGES

ASSUME PhotosAssumption ==
    MaxImages \in Nat \ {0} /\ IsFiniteSet(Keys \ Nested) /\ IsFiniteSet(Tabs)

VARIABLES
    rows,       \* [Photos -> the ListingImage row or NoRow]
    issued,     \* keys randomKey has returned
    editable,   \* isEditable(listing.status)
    tab,        \* [Tabs -> what the tab shows, and its request]
    replyLost,  \* history: photos whose insert committed and was reported failed
    overtaken   \* history: tabs whose photos changed and were not told

photoVars == <<rows, issued, editable, tab, replyLost, overtaken>>

Photos == Keys \ Nested

NoPhoto == "none"

NoRow == [position |-> -1, created |-> 0]

\* created orders the rows as createdAt does.
ImageRow == [position: Nat, created: Nat \ {0}]

RowKeys == {k \in Photos : rows[k] # NoRow}

\* orderBy position, createdAt
Before(row, other) ==
    \/ row.position < other.position
    \/ row.position = other.position /\ row.created < other.created

\* Some photos in the order of the table: i - 1 of them are before the i-th.
ByPosition(table, photos) ==
    [i \in 1..Cardinality(photos) |->
        CHOOSE k \in photos : Cardinality({x \in photos : Before(table[x], table[k])}) = i - 1]

\* getListingImagesForViewer, for the owner.
Gallery == ByPosition(rows, RowKeys)

TabIdle == [pc |-> "idle", shown |-> <<>>, photo |-> NoPhoto, at |-> 0, order |-> <<>>]

UploadSteps == {"add", "count", "upload", "insert", "compensate", "uploaded"}

DeleteSteps == {"take", "renumber", "removeObject"}

Orders == {s \in UNION {[1..n -> Photos] : n \in 0..Cardinality(Photos)} : IsInjective(s)}

Tab ==
    [ pc: {"idle", "refresh"} \union UploadSteps \union DeleteSteps \union {"reorder"},
      shown: Orders,                      \* images
      photo: Photos \union {NoPhoto},     \* the key of the upload, the id of the delete
      at: Nat,                            \* the count of the upload
      order: Orders ]                     \* the remaining ids or the new order

PhotosTypeOK ==
    /\ rows \in [Photos -> ImageRow \union {NoRow}]
    /\ issued \subseteq Photos
    /\ editable \in BOOLEAN
    /\ tab \in [Tabs -> Tab]
    /\ replyLost \subseteq Photos
    /\ overtaken \subseteq Tabs

\* A tab loads the gallery when it mounts.
PhotosInit ==
    /\ rows = [k \in Photos |-> NoRow]
    /\ issued = {}
    /\ editable = TRUE
    /\ tab = [t \in Tabs |-> [TabIdle EXCEPT !.pc = "refresh"]]
    /\ replyLost = {}
    /\ overtaken = {}

Goto(t, pc) == tab' = [tab EXCEPT ![t].pc = pc]

\* The request is over; what the tab shows stays.
Answered(t) == tab' = [tab EXCEPT ![t] = [TabIdle EXCEPT !.shown = tab[t].shown]]

\* refresh comes next, and nothing else of the request is needed.
Reload(t) == tab' = [tab EXCEPT ![t] = [TabIdle EXCEPT !.shown = tab[t].shown, !.pc = "refresh"]]

\* The rows change in a request of tab t: the other tabs do not know.
OvertakesOthers(t) == overtaken' = overtaken \union (Tabs \ {t})

\* Publishing, pausing and archiving.
StatusChanges ==
    /\ editable' = ~editable
    /\ UNCHANGED <<rows, issued, tab, replyLost, overtaken, bucketVars>>

-----------------------------------------------------------------------------
(* Upload: onSelectFiles, the route and addListingImage *)

\* onSelectFiles: the input is disabled while a request runs and at the limit; a
\* further file of the same choice is not checked against the limit again.
MaySelect(t) ==
    \/ tab[t].pc = "idle" /\ Len(tab[t].shown) < MaxImages
    \/ tab[t].pc = "add"

\* The route refuses: another origin, not a seller, too long or empty a body.
RouteRefuses(t) ==
    /\ MaySelect(t)
    /\ SomeRejected
    /\ Answered(t)
    /\ UNCHANGED <<rows, issued, editable, replyLost, overtaken, bucketVars>>

AddBegin(t) ==
    /\ MaySelect(t)
    /\ IF editable THEN Goto(t, "count") ELSE Answered(t)
    /\ UNCHANGED <<rows, issued, editable, replyLost, overtaken, bucketVars>>

\* Mutant: one photo more than the limit.
CountOffByOne(t) ==
    /\ tab[t].pc = "count"
    /\ LET count == Cardinality(RowKeys)
       IN  \/ count <= MaxImages /\ tab' = [tab EXCEPT ![t].pc = "upload", ![t].at = count]
           \/ Answered(t)
    /\ UNCHANGED <<rows, issued, editable, replyLost, overtaken, bucketVars>>

\* The count, then the checks of the bytes and their processing, which may reject.
AddCount(t) ==
    /\ tab[t].pc = "count"
    /\ LET count == Cardinality(RowKeys)
       IN  \/ /\ count < MaxImages /\ SomeAccepted
              /\ tab' = [tab EXCEPT ![t].pc = "upload", ![t].at = count]
           \/ /\ count >= MaxImages \/ SomeRejected
              /\ Answered(t)
    /\ UNCHANGED <<rows, issued, editable, replyLost, overtaken, bucketVars>>

\* storage.upload under a fresh key; one that fails may have stored the object.
AddUpload(t) ==
    /\ tab[t].pc = "upload"
    /\ \E k \in Photos \ issued :
        /\ issued' = issued \union {k}
        /\ \/ Store(k) /\ NoFault /\ tab' = [tab EXCEPT ![t].pc = "insert", ![t].photo = k]
           \/ Store(k) /\ Fault /\ Answered(t)
           \/ UNCHANGED object /\ Fault /\ Answered(t)
    /\ UNCHANGED <<rows, editable, replyLost, overtaken, cleaner, clock>>

InsertRow(t) ==
    LET last == {rows[k].created : k \in Photos}
    IN  rows' = [rows EXCEPT ![tab[t].photo] =
                    [position |-> tab[t].at,
                     created |-> 1 + CHOOSE c \in last : \A d \in last : d <= c]]

AddInsert(t) ==
    /\ tab[t].pc = "insert"
    /\ InsertRow(t)
    /\ tab' = [tab EXCEPT ![t] = [TabIdle EXCEPT !.shown = tab[t].shown, !.pc = "uploaded"]]
    /\ OvertakesOthers(t)
    /\ UNCHANGED <<issued, editable, replyLost, bucketVars>>

AddInsertFails(t) ==
    /\ tab[t].pc = "insert"
    /\ tab' = [tab EXCEPT ![t].pc = "compensate", ![t].at = 0]
    /\ Fault
    /\ UNCHANGED <<rows, issued, editable, replyLost, overtaken, object, cleaner, clock>>

\* The commit went through and its acknowledgement did not arrive.
AddInsertReplyLost(t) ==
    /\ tab[t].pc = "insert"
    /\ InsertRow(t)
    /\ tab' = [tab EXCEPT ![t].pc = "compensate", ![t].at = 0]
    /\ replyLost' = replyLost \union {tab[t].photo}
    /\ overtaken' = Tabs
    /\ Fault
    /\ UNCHANGED <<issued, editable, object, cleaner, clock>>

AddCompensate(t) ==
    /\ tab[t].pc = "compensate"
    /\ RemoveObjects({tab[t].photo})
    /\ Answered(t)
    /\ UNCHANGED <<rows, issued, editable, replyLost, overtaken, cleaner, clock>>

-----------------------------------------------------------------------------
(* Delete: remove and deleteListingImage *)

\* The buttons of a photo are disabled while a request runs.
MayRemove(t) == IF tab[t].pc = "idle" THEN ToSet(tab[t].shown) ELSE {}

DeleteBegin(t) ==
    /\ \E k \in MayRemove(t) :
        IF k \in RowKeys /\ editable
        THEN tab' = [tab EXCEPT ![t].pc = "take", ![t].photo = k]
        ELSE Reload(t)
    /\ UNCHANGED <<rows, issued, editable, replyLost, overtaken, bucketVars>>

\* Mutant: the remaining photos are numbered by age.
RemainingByAge(t) ==
    SetToSortSeq(RowKeys \ {tab[t].photo}, LAMBDA a, b : rows[a].created < rows[b].created)

Remaining(t) == ByPosition(rows, RowKeys \ {tab[t].photo})

\* The transaction deletes the row and reads the rest.  Until it ends, its lock
\* on the row makes a second delete of it, and every reorder, wait.
DeleteRead(t) ==
    /\ tab[t].pc = "take"
    /\ IF tab[t].photo \in RowKeys
       THEN tab' = [tab EXCEPT ![t].pc = "renumber", ![t].order = Remaining(t)]
       ELSE Reload(t)
    /\ UNCHANGED <<rows, issued, editable, replyLost, overtaken, bucketVars>>

Renumbered(order, gone) ==
    [k \in Photos |->
        IF k = gone THEN NoRow
        ELSE IF k \in ToSet(order)
             THEN [rows[k] EXCEPT !.position = CHOOSE i \in 0..Len(order) - 1 : order[i + 1] = k]
             ELSE rows[k]]

\* Mutant: an update of a photo that is gone does not fail the transaction.
DeleteCommitsAnyway(t) ==
    /\ tab[t].pc = "renumber"
    /\ rows' = Renumbered(tab[t].order, tab[t].photo)
    /\ OvertakesOthers(t)
    /\ tab' = [tab EXCEPT ![t].pc = "removeObject", ![t].order = <<>>]
    /\ UNCHANGED <<issued, editable, replyLost, bucketVars>>

\* An update of a photo another delete took fails the transaction.
DeleteCommit(t) ==
    /\ tab[t].pc = "renumber"
    /\ {tab[t].photo} \union ToSet(tab[t].order) \subseteq RowKeys
    /\ rows' = Renumbered(tab[t].order, tab[t].photo)
    /\ OvertakesOthers(t)
    /\ \/ /\ tab' = [tab EXCEPT ![t].pc = "removeObject", ![t].order = <<>>]
          /\ NoFault
       \/ Reload(t) /\ Fault     \* reported as an error: the object stays
    /\ UNCHANGED <<issued, editable, replyLost, object, cleaner, clock>>

\* A photo is gone, a deadlock with another transaction, or the database failed.
DeleteAborts(t) ==
    /\ tab[t].pc = "renumber"
    /\ \/ /\ \/ ~({tab[t].photo} \union ToSet(tab[t].order) \subseteq RowKeys)
             \/ \E u \in Tabs \ {t} : tab[u].pc \in {"renumber", "reorder"}
          /\ NoFault
       \/ Fault
    /\ Reload(t)
    /\ UNCHANGED <<rows, issued, editable, replyLost, overtaken, object, cleaner, clock>>

DeleteObject(t) ==
    /\ tab[t].pc = "removeObject"
    /\ RemoveObjects({tab[t].photo})
    /\ Reload(t)
    /\ UNCHANGED <<rows, issued, editable, replyLost, overtaken, cleaner, clock>>

-----------------------------------------------------------------------------
(* Reorder: move and reorderListingImages *)

Swapped(s, i) == [s EXCEPT ![i] = s[i + 1], ![i + 1] = s[i]]

\* The first photo has no button up and the last none down.
MaySwap(t) == IF tab[t].pc = "idle" THEN 1..(Len(tab[t].shown) - 1) ELSE {}

\* The tab shows the new order at once.  isPermutation is of the ids in the
\* table; a delete not yet committed is still there.
ReorderBegin(t) ==
    /\ \E i \in MaySwap(t) :
        LET next == Swapped(tab[t].shown, i)
        IN  tab' = [tab EXCEPT ![t] =
                IF editable /\ ToSet(next) = RowKeys
                THEN [TabIdle EXCEPT !.pc = "reorder", !.shown = next, !.order = next]
                ELSE [TabIdle EXCEPT !.pc = "refresh", !.shown = next]]
    /\ UNCHANGED <<rows, issued, editable, replyLost, overtaken, bucketVars>>

ReorderCommit(t) ==
    /\ tab[t].pc = "reorder"
    /\ ToSet(tab[t].order) \subseteq RowKeys
    /\ \A u \in Tabs : tab[u].pc # "renumber"
    /\ rows' = Renumbered(tab[t].order, NoPhoto)
    /\ \/ Answered(t) /\ NoFault
       \/ Reload(t) /\ Fault      \* reported as an error
    /\ OvertakesOthers(t)
    /\ UNCHANGED <<issued, editable, replyLost, object, cleaner, clock>>

\* A photo is gone, a deadlock with another transaction, or the database failed.
ReorderFails(t) ==
    /\ tab[t].pc = "reorder"
    /\ \/ /\ \/ ~(ToSet(tab[t].order) \subseteq RowKeys)
             \/ \E u \in Tabs \ {t} : tab[u].pc \in {"renumber", "reorder"}
          /\ NoFault
       \/ Fault

\* Mutant: the error is shown and the optimistic order stays.
ReorderKeepsOptimism(t) ==
    /\ ReorderFails(t)
    /\ Answered(t)
    /\ UNCHANGED <<rows, issued, editable, replyLost, overtaken, object, cleaner, clock>>

\* Back to what is stored.
ReorderAborts(t) ==
    /\ ReorderFails(t)
    /\ Reload(t)
    /\ UNCHANGED <<rows, issued, editable, replyLost, overtaken, object, cleaner, clock>>

-----------------------------------------------------------------------------
(* Refresh, lost answers and crashes *)

\* listListingImagesAction; after an upload the next selected file may follow,
\* whatever the new length is.
Refresh(t) ==
    /\ tab[t].pc \in {"refresh", "uploaded"}
    /\ \/ tab' = [tab EXCEPT ![t] = [TabIdle EXCEPT !.shown = Gallery]]
       \/ /\ tab[t].pc = "uploaded"
          /\ tab' = [tab EXCEPT ![t] = [TabIdle EXCEPT !.shown = Gallery, !.pc = "add"]]
    /\ overtaken' = overtaken \ {t}
    /\ UNCHANGED <<rows, issued, editable, replyLost, bucketVars>>

\* The server dies at any step, or the last answer is lost: no refresh.
Abandon(t) ==
    /\ tab[t].pc # "idle"
    /\ Answered(t)
    /\ overtaken' = overtaken \union {t}
    /\ Fault
    /\ UNCHANGED <<rows, issued, editable, replyLost, object, cleaner, clock>>

UploadStep(t) ==
    \/ RouteRefuses(t) \/ AddBegin(t) \/ AddCount(t) \/ AddUpload(t)
    \/ AddInsert(t) \/ AddInsertFails(t) \/ AddInsertReplyLost(t) \/ AddCompensate(t)

DeleteStep(t) ==
    \/ DeleteBegin(t) \/ DeleteRead(t) \/ DeleteCommit(t)
    \/ DeleteAborts(t) \/ DeleteObject(t)

ReorderStep(t) == ReorderBegin(t) \/ ReorderCommit(t) \/ ReorderAborts(t)

TabStep(t) == UploadStep(t) \/ DeleteStep(t) \/ ReorderStep(t) \/ Refresh(t) \/ Abandon(t)

\* Uploads between the object and its row.
InFlight == {tab[t].photo : t \in {u \in Tabs : tab[u].pc = "insert"}}
=============================================================================
