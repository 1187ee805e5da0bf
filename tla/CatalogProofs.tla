---------------------------- MODULE CatalogProofs ----------------------------
(***************************************************************************)
(* The invariants of Catalog for any number of listings, requests and      *)
(* readers.  A transition decides on a row it read some steps ago, so the  *)
(* invariant relates what a request has seen to the row as it is now: the  *)
(* columns the request relies on only ever gain a value.                   *)
(***************************************************************************)
EXTENDS Catalog, TLAPS

Shown == {"published", "paused", "sold"}

\* Of a row, or of the part of one that a request has seen.
HasAddress(row) == row.status \in Shown => row.slug # "none" /\ row.publishedAt

RowsHold ==
    \A l \in Listings :
        /\ HasAddress(listings[l])
        /\ listings[l].status = "sold" => listings[l].soldAt
        /\ listings[l].status # "none" => listings[l].title \in Titles

\* What a request has seen is still there.
StillThere(seen, row) ==
    /\ row.status # "none"
    /\ seen.filled => row.filled
    /\ seen.publishedAt => row.publishedAt
    /\ seen.slug # "none" => row.slug # "none"

\* What a request knows of the row it read and of its seller.
Informed(q) ==
    /\ q.pc \in {"gate", "update"} =>
         /\ q.listing \in Listings
         /\ q.action \in ListingActions
         /\ CanApply(q.seen.status, q.action)
         /\ HasAddress(q.seen)
         /\ q.seen.title \in Titles
         /\ StillThere(q.seen, listings[q.listing])
    /\ q.pc = "gate" => NextStatus(q.action) = "published"
    /\ q.pc = "update" /\ NextStatus(q.action) = "published" =>
         q.seen.filled /\ q.wasEntitled

RequestsHold ==
    \A r \in Requests :
        /\ Informed(request[r])
        /\ request[r].pc = "invalidate" => request[r].listing \in Listings
        /\ request[r].pc \in {"gate", "update"} /\ entitled => request[r].wasEntitled

ListingInv == ListingTypeOK /\ RowsHold /\ RequestsHold

-----------------------------------------------------------------------------
(* Lemmas about the table and the patch *)

\* Every way to paused or sold starts from a status that has an address.
LEMMA Table ==
    ASSUME NEW action \in ListingActions, NEW from, CanApply(from, action)
    PROVE  /\ NextStatus(action) \in ListingStatuses
           /\ from # "none"
           /\ NextStatus(action) \in {"paused", "sold"} => from \in Shown
BY DEF ListingActions, CanApply, NextStatus, ListingTransitions, ListingStatuses, Shown

\* The columns of the row an update writes.
LEMMA PatchColumns ==
    ASSUME NEW row \in ListingRow, NEW seen \in SeenRow,
           NEW action \in ListingActions, CanApply(seen.status, action)
    PROVE  LET new == TransitionPatch(row, seen, action) IN
           /\ new \in ListingRow
           /\ new.status = NextStatus(action)
           /\ new.title = row.title
           /\ new.filled = row.filled
           /\ new.slug = IF FirstPublish(seen, action) THEN seen.title ELSE row.slug
           /\ new.publishedAt =
                (row.publishedAt \/ (NextStatus(action) = "published" /\ ~seen.publishedAt))
           /\ NextStatus(action) = "sold" => new.soldAt
<1>1. NextStatus(action) \in ListingStatuses
  BY Table
<1> QED
  BY <1>1 DEF TransitionPatch, ListingRow, SeenRow, FirstPublish

\* The patched row satisfies what the rows satisfy, and loses nothing.
LEMMA PatchHolds ==
    ASSUME ListingAssumption,
           NEW row \in ListingRow, NEW seen \in SeenRow,
           NEW action \in ListingActions, CanApply(seen.status, action),
           HasAddress(seen), StillThere(seen, row),
           seen.title \in Titles, row.title \in Titles
    PROVE  LET new == TransitionPatch(row, seen, action) IN
           /\ HasAddress(new)
           /\ new.status = "sold" => new.soldAt
           /\ new.status # "none" /\ new.title \in Titles
           /\ \A any \in SeenRow : StillThere(any, row) => StillThere(any, new)
<1> DEFINE new == TransitionPatch(row, seen, action)
<1>1. /\ new \in ListingRow
      /\ new.status = NextStatus(action)
      /\ new.title = row.title
      /\ new.filled = row.filled
      /\ new.slug = IF FirstPublish(seen, action) THEN seen.title ELSE row.slug
      /\ new.publishedAt =
           (row.publishedAt \/ (NextStatus(action) = "published" /\ ~seen.publishedAt))
      /\ NextStatus(action) = "sold" => new.soldAt
  BY PatchColumns
<1>2. seen.title # "none"
  BY DEF ListingAssumption
<1>3. NextStatus(action) \in ListingStatuses
  BY Table
<1>4. new.slug # "none" \/ (row.slug = "none" /\ ~FirstPublish(seen, action))
  BY <1>1, <1>2
<1>5. new.publishedAt \/ (~row.publishedAt /\ (NextStatus(action) = "published" => seen.publishedAt))
  BY <1>1
<1>6. HasAddress(new)
  <2> SUFFICES ASSUME new.status \in Shown PROVE new.slug # "none" /\ new.publishedAt
    BY DEF HasAddress
  <2>1. CASE NextStatus(action) = "published"
    BY <2>1, <1>4, <1>5 DEF StillThere, FirstPublish
  <2>2. CASE NextStatus(action) \in {"paused", "sold"}
    <3>1. seen.slug # "none" /\ seen.publishedAt
      BY <2>2, Table DEF HasAddress
    <3> QED
      BY <3>1, <1>4, <1>5 DEF StillThere
  <2> QED
    BY <1>1, <2>1, <2>2 DEF Shown
<1>7. new.status # "none"
  BY <1>1, <1>3 DEF ListingStatuses
<1>8. ASSUME NEW any \in SeenRow, StillThere(any, row) PROVE StillThere(any, new)
  BY <1>1, <1>4, <1>5, <1>7, <1>8 DEF StillThere
<1> QED
  BY <1>1, <1>6, <1>7, <1>8
-----------------------------------------------------------------------------
(* The rows and the requests *)

\* No row and no request: the first state is in order.
LEMMA InitListing == ListingInit => ListingInv
BY DEF ListingInit, ListingInv, ListingTypeOK, RowsHold, RequestsHold, Informed,
       HasAddress, Shown, NoListing, RequestIdle, NothingSeen, ListingRow, SeenRow,
       TransitionRequest

\* A request that has ended is typed, and so is one that has yet to invalidate.
LEMMA IdleTyped ==
    /\ RequestIdle \in TransitionRequest /\ RequestIdle.pc = "idle"
    /\ Informed(RequestIdle)
BY DEF RequestIdle, TransitionRequest, NothingSeen, SeenRow, Informed

\* A change of rows that keeps what every request has seen keeps every request.
LEMMA RequestsKept ==
    ASSUME ListingInv, UNCHANGED <<entitled, request>>,
           \A l \in Listings : \A seen \in SeenRow :
             StillThere(seen, listings[l]) => StillThere(seen, listings[l]')
    PROVE  RequestsHold'
<1> SUFFICES ASSUME NEW r \in Requests
             PROVE  (/\ Informed(request[r])
                     /\ request[r].pc = "invalidate" => request[r].listing \in Listings
                     /\ request[r].pc \in {"gate", "update"} /\ entitled => request[r].wasEntitled)'
  BY DEF RequestsHold
<1>1. /\ Informed(request[r])
      /\ request[r].pc = "invalidate" => request[r].listing \in Listings
      /\ request[r].pc \in {"gate", "update"} /\ entitled => request[r].wasEntitled
      /\ request[r].seen \in SeenRow
  BY DEF ListingInv, RequestsHold, ListingTypeOK, TransitionRequest
<1>2. Informed(request[r])'
  BY <1>1 DEF Informed
<1> QED
  BY <1>1, <1>2

\* One request changes and the rows do not.
LEMMA OneRequest ==
    ASSUME ListingInv, NEW r \in Requests, NEW q \in TransitionRequest,
           request' = [request EXCEPT ![r] = q],
           UNCHANGED <<listings, entitled>>,
           Informed(q),
           q.pc = "invalidate" => q.listing \in Listings,
           q.pc \in {"gate", "update"} /\ entitled => q.wasEntitled
    PROVE  ListingInv'
<1>1. ListingTypeOK' /\ RowsHold'
  BY DEF ListingInv, ListingTypeOK, RowsHold, HasAddress
<1>2. ASSUME NEW x \in Requests
      PROVE  (/\ Informed(request[x])
              /\ request[x].pc = "invalidate" => request[x].listing \in Listings
              /\ request[x].pc \in {"gate", "update"} /\ entitled => request[x].wasEntitled)'
  <2>1. request[x]' = IF x = r THEN q ELSE request[x]
    BY DEF ListingInv, ListingTypeOK
  <2>2. Informed(request[x]') <=> Informed(request[x])'
    BY DEF Informed, StillThere
  <2> QED
    BY <2>1, <2>2 DEF ListingInv, RequestsHold
<1> QED
  BY <1>1, <1>2 DEF ListingInv, RequestsHold

\* RequestEnds: a request that is over asks nothing of the rows.
LEMMA RequestEndsHolds ==
    ASSUME ListingInv, NEW r \in Requests, RequestEnds(r)
    PROVE  ListingInv'
BY OneRequest, IdleTyped DEF RequestEnds

\* createDraftListing takes a key no request can have read.
LEMMA CreateDraftHolds ==
    ASSUME ListingInv, NEW l \in Listings, CreateDraft(l)
    PROVE  ListingInv'
<1>1. PICK title \in Titles, filled \in BOOLEAN :
        listings' = [listings EXCEPT
                       ![l] = [NoListing EXCEPT !.status = "draft", !.title = title,
                                                !.filled = filled]]
  BY DEF CreateDraft
<1> DEFINE new == [NoListing EXCEPT !.status = "draft", !.title = title, !.filled = filled]
<1>2. /\ new \in ListingRow
      /\ new.status = "draft" /\ new.title \in Titles
  BY DEF NoListing, ListingRow, ListingStatuses
<1>3. ASSUME NEW x \in Listings PROVE listings[x]' = IF x = l THEN new ELSE listings[x]
  BY <1>1 DEF ListingInv, ListingTypeOK
<1>4. ListingTypeOK'
  BY <1>1, <1>2 DEF CreateDraft, ListingInv, ListingTypeOK
<1>5. RowsHold'
  BY <1>2, <1>3 DEF ListingInv, RowsHold, HasAddress, Shown
<1>6. ASSUME NEW x \in Listings, NEW seen \in SeenRow, StillThere(seen, listings[x])
      PROVE  StillThere(seen, listings[x]')
  <2>1. x # l
    BY <1>6 DEF StillThere, CreateDraft
  <2> QED
    BY <2>1, <1>3, <1>6
<1> HIDE DEF new
<1>7. RequestsHold'
  BY <1>6, RequestsKept DEF CreateDraft
<1> QED
  BY <1>4, <1>5, <1>7 DEF ListingInv

\* updateListing touches no status and empties no column a request has seen.
LEMMA UpdateListingHolds ==
    ASSUME ListingInv, NEW l \in Listings, UpdateListing(l)
    PROVE  ListingInv'
<1>1. PICK title \in Titles, filled \in BOOLEAN :
        listings' = [listings EXCEPT ![l].title = title, ![l].filled = @ \/ filled]
  BY DEF UpdateListing
<1> DEFINE new == [listings[l] EXCEPT !.title = title, !.filled = @ \/ filled]
<1>2. listings[l] \in ListingRow
  BY DEF ListingInv, ListingTypeOK
<1>3. /\ new \in ListingRow /\ new.title \in Titles
      /\ new.status = listings[l].status
      /\ new.slug = listings[l].slug
      /\ new.publishedAt = listings[l].publishedAt
      /\ new.soldAt = listings[l].soldAt
      /\ listings[l].filled => new.filled
  BY <1>2 DEF ListingRow
<1>4. ASSUME NEW x \in Listings PROVE listings[x]' = IF x = l THEN new ELSE listings[x]
  BY <1>1 DEF ListingInv, ListingTypeOK
<1>5. listings' \in [Listings -> ListingRow]
  BY <1>1, <1>3 DEF ListingInv, ListingTypeOK
<1> HIDE DEF new
<1>6. ListingTypeOK'
  BY <1>5 DEF UpdateListing, ListingInv, ListingTypeOK
<1>7. RowsHold'
  BY <1>3, <1>4 DEF ListingInv, RowsHold, HasAddress
<1>8. ASSUME NEW x \in Listings, NEW seen \in SeenRow, StillThere(seen, listings[x])
      PROVE  StillThere(seen, listings[x]')
  BY <1>3, <1>4, <1>8 DEF StillThere
<1>9. RequestsHold'
  BY <1>8, RequestsKept DEF UpdateListing
<1> QED
  BY <1>6, <1>7, <1>9 DEF ListingInv

\* The read of transitionListing: what it takes along is the row.
LEMMA TransitionBeginHolds ==
    ASSUME ListingInv, NEW r \in Requests, NEW l \in Listings,
           NEW action \in ListingActions, TransitionBegin(r, l, action)
    PROVE  ListingInv'
<1> DEFINE q == [ pc |-> IF NextStatus(action) = "published" THEN "gate" ELSE "update",
                  listing |-> l, action |-> action,
                  seen |-> SeenOf(listings[l]), wasEntitled |-> entitled ]
<1>1. listings[l] \in ListingRow /\ entitled \in BOOLEAN
  BY DEF ListingInv, ListingTypeOK
<1>2. /\ SeenOf(listings[l]) \in SeenRow
      /\ SeenOf(listings[l]).status = listings[l].status
      /\ SeenOf(listings[l]).title = listings[l].title
      /\ SeenOf(listings[l]).filled = listings[l].filled
      /\ SeenOf(listings[l]).slug = listings[l].slug
      /\ SeenOf(listings[l]).publishedAt = listings[l].publishedAt
  BY <1>1 DEF SeenOf, NothingSeen, SeenRow, ListingRow
<1>3. q \in TransitionRequest
  BY <1>1, <1>2 DEF TransitionRequest
<1>4. CanApply(listings[l].status, action) /\ listings[l].status # "none"
  BY Table DEF TransitionBegin
<1>5. HasAddress(listings[l]) /\ listings[l].title \in Titles
  BY <1>4 DEF ListingInv, RowsHold
<1>6. Informed(q)
  BY <1>2, <1>4, <1>5 DEF Informed, HasAddress, StillThere
<1>7. request' = [request EXCEPT ![r] = q] /\ UNCHANGED <<listings, entitled>>
  BY DEF TransitionBegin
<1>8. q.pc # "invalidate" /\ q.wasEntitled = entitled
  OBVIOUS
<1> HIDE DEF q
<1> QED
  BY <1>3, <1>6, <1>7, <1>8, OneRequest

\* The gate: past it the row read is complete and the seller was entitled.
LEMMA PublishGateHolds ==
    ASSUME ListingInv, NEW r \in Requests, PublishGate(r)
    PROVE  ListingInv'
<1>1. CASE entitled /\ request[r].seen.filled
  <2> DEFINE q == [request[r] EXCEPT !.pc = "update"]
  <2>1. /\ request[r] \in TransitionRequest /\ request[r].pc = "gate"
        /\ Informed(request[r]) /\ request[r].wasEntitled
    BY <1>1 DEF PublishGate, ListingInv, ListingTypeOK, RequestsHold
  <2>2. /\ q \in TransitionRequest /\ q.pc = "update"
        /\ q.listing = request[r].listing /\ q.action = request[r].action
        /\ q.seen = request[r].seen /\ q.wasEntitled = request[r].wasEntitled
    BY <2>1 DEF TransitionRequest
  <2>3. request' = [request EXCEPT ![r] = q] /\ UNCHANGED <<listings, entitled>>
    BY <1>1 DEF PublishGate
  <2> HIDE DEF q
  <2>4. Informed(q)
    BY <1>1, <2>1, <2>2 DEF Informed
  <2> QED
    BY <2>1, <2>2, <2>3, <2>4, OneRequest
<1>2. CASE ~(entitled /\ request[r].seen.filled)
  <2>1. RequestEnds(r)
    BY <1>2 DEF PublishGate, RequestEnds
  <2> QED
    BY <2>1, RequestEndsHolds
<1> QED
  BY <1>1, <1>2

\* The update by id, whatever was written since the read.
LEMMA TransitionUpdateHolds ==
    ASSUME ListingInv, NEW r \in Requests, TransitionUpdate(r)
    PROVE  ListingInv'
<1> DEFINE l == request[r].listing
<1> DEFINE q == [RequestIdle EXCEPT !.pc = "invalidate", !.listing = l]
<1>1. /\ request[r] \in TransitionRequest /\ request[r].pc = "update"
      /\ Informed(request[r])
  BY DEF TransitionUpdate, ListingInv, ListingTypeOK, RequestsHold
<1>2. /\ l \in Listings /\ listings[l] \in ListingRow
      /\ request[r].seen \in SeenRow /\ request[r].action \in ListingActions
      /\ CanApply(request[r].seen.status, request[r].action)
      /\ HasAddress(request[r].seen) /\ request[r].seen.title \in Titles
      /\ StillThere(request[r].seen, listings[l])
  BY <1>1 DEF Informed, TransitionRequest, ListingInv, ListingTypeOK
<1>3. listings[l].title \in Titles
  BY <1>2 DEF StillThere, ListingInv, RowsHold
<1>4. /\ HasAddress(Patched(r))
      /\ Patched(r).status = "sold" => Patched(r).soldAt
      /\ Patched(r).title \in Titles
      /\ \A any \in SeenRow : StillThere(any, listings[l]) => StillThere(any, Patched(r))
  BY <1>2, <1>3, PatchHolds, ListingAssumption DEF Patched
<1>5. Patched(r) \in ListingRow
  BY <1>2, PatchColumns DEF Patched
<1>6. CASE ~ChecksHold(Patched(r))
  <2>1. RequestEnds(r)
    BY <1>6 DEF TransitionUpdate, RequestEnds
  <2> QED
    BY <2>1, RequestEndsHolds
<1>7. CASE ChecksHold(Patched(r))
  <2>1. /\ listings' = [listings EXCEPT ![l] = Patched(r)]
        /\ request' = [request EXCEPT ![r] = q]
        /\ UNCHANGED entitled
    BY <1>7 DEF TransitionUpdate
  <2>2. /\ q \in TransitionRequest /\ q.pc = "invalidate" /\ q.listing = l
        /\ Informed(q)
    BY <1>2 DEF RequestIdle, NothingSeen, SeenRow, TransitionRequest, Informed
  <2>3. ASSUME NEW x \in Listings
        PROVE  listings[x]' = IF x = l THEN Patched(r) ELSE listings[x]
    BY <2>1 DEF ListingInv, ListingTypeOK
  <2>4. ASSUME NEW x \in Requests
        PROVE  request[x]' = IF x = r THEN q ELSE request[x]
    BY <2>1 DEF ListingInv, ListingTypeOK
  <2> HIDE DEF q
  <2>5. ListingTypeOK'
    BY <1>5, <2>1, <2>2 DEF ListingInv, ListingTypeOK
  <2>6. RowsHold'
    BY <1>4, <2>3 DEF ListingInv, RowsHold, HasAddress
  <2>7. ASSUME NEW x \in Requests, x # r
        PROVE  (/\ Informed(request[x])
                /\ request[x].pc = "invalidate" => request[x].listing \in Listings
                /\ request[x].pc \in {"gate", "update"} /\ entitled => request[x].wasEntitled)'
    <3>1. /\ Informed(request[x]) /\ request[x]' = request[x]
          /\ request[x].seen \in SeenRow
          /\ request[x].pc = "invalidate" => request[x].listing \in Listings
          /\ request[x].pc \in {"gate", "update"} /\ entitled => request[x].wasEntitled
      BY <2>4, <2>7 DEF ListingInv, ListingTypeOK, RequestsHold, TransitionRequest
    <3>2. ASSUME NEW y \in Listings, StillThere(request[x].seen, listings[y])
          PROVE  StillThere(request[x].seen, listings[y]')
      BY <1>4, <2>3, <3>1, <3>2
    <3>3. Informed(request[x])'
      BY <3>1, <3>2 DEF Informed
    <3> QED
      BY <2>1, <3>1, <3>3
  <2>8. (/\ Informed(request[r])
         /\ request[r].pc = "invalidate" => request[r].listing \in Listings
         /\ request[r].pc \in {"gate", "update"} /\ entitled => request[r].wasEntitled)'
    <3>1. Informed(request[r])'
      BY <2>2, <2>4 DEF Informed
    <3> QED
      BY <2>2, <2>4, <3>1, <1>2
  <2> QED
    BY <2>5, <2>6, <2>7, <2>8 DEF ListingInv, RequestsHold
<1> QED
  BY <1>6, <1>7

\* A subscription that begins or lapses under the requests in flight.
LEMMA EntitlementChangesHolds ==
    ASSUME ListingInv, EntitlementChanges
    PROVE  ListingInv'
<1>1. entitled \in BOOLEAN /\ listings' = listings
  BY DEF EntitlementChanges, ListingInv, ListingTypeOK
<1>2. ASSUME NEW r \in Requests
      PROVE  /\ request[r]' \in TransitionRequest
             /\ request[r]'.pc = request[r].pc
             /\ request[r]'.listing = request[r].listing
             /\ request[r]'.action = request[r].action
             /\ request[r]'.seen = request[r].seen
             /\ request[r].wasEntitled => request[r]'.wasEntitled
             /\ entitled' /\ request[r].pc # "idle" => request[r]'.wasEntitled
  <2>1. request[r] \in TransitionRequest /\ entitled' \in BOOLEAN
    BY <1>1 DEF EntitlementChanges, ListingInv, ListingTypeOK
  <2>2. request[r]' = [request[r] EXCEPT
                         !.wasEntitled = @ \/ (entitled' /\ request[r].pc # "idle")]
    BY DEF EntitlementChanges
  <2> QED
    BY <2>1, <2>2 DEF TransitionRequest
<1>3. ListingTypeOK' /\ RowsHold'
  <2>1. request' \in [Requests -> TransitionRequest]
    BY <1>2 DEF EntitlementChanges
  <2> QED
    BY <1>1, <2>1 DEF EntitlementChanges, ListingInv, ListingTypeOK, RowsHold, HasAddress
<1>4. ASSUME NEW r \in Requests PROVE Informed(request[r])'
  <2>1. Informed(request[r])
    BY DEF ListingInv, RequestsHold
  <2> QED
    BY <1>1, <1>2, <2>1 DEF Informed
<1> QED
  BY <1>2, <1>3, <1>4 DEF ListingInv, RequestsHold

\* Every step of the rows and the requests.
LEMMA RowStepHolds ==
    ASSUME ListingInv, RowStep
    PROVE  ListingInv'
<1>1. CASE \E l \in Listings : CreateDraft(l) \/ UpdateListing(l)
  BY <1>1, CreateDraftHolds, UpdateListingHolds
<1>2. CASE \E r \in Requests, l \in Listings, action \in ListingActions :
             TransitionBegin(r, l, action)
  BY <1>2, TransitionBeginHolds
<1>3. CASE \E r \in Requests : PublishGate(r) \/ TransitionUpdate(r) \/ RequestFails(r)
  BY <1>3, PublishGateHolds, TransitionUpdateHolds, RequestEndsHolds DEF RequestFails
<1>4. CASE EntitlementChanges
  BY <1>4, EntitlementChangesHolds
<1> QED
  BY <1>1, <1>2, <1>3, <1>4 DEF RowStep

\* A step that leaves rows and requests alone.
LEMMA ListingUntouched ==
    ASSUME ListingInv, UNCHANGED listingVars
    PROVE  ListingInv'
BY DEF listingVars, ListingInv, ListingTypeOK, RowsHold, RequestsHold, HasAddress,
       Informed, StillThere

\* ListingInv is inductive.
LEMMA NextListing == ListingInv /\ [Next]_vars => ListingInv'
<1> SUFFICES ASSUME ListingInv, [Next]_vars PROVE ListingInv'
  OBVIOUS
<1>1. CASE RowStep
  BY <1>1, RowStepHolds
<1>2. CASE \E r \in Requests : TransitionInvalidates(r) \/ TransitionDoesNotInvalidate(r)
  BY <1>2, RequestEndsHolds DEF TransitionInvalidates, TransitionDoesNotInvalidate
<1>3. CASE UNCHANGED listingVars
  BY <1>3, ListingUntouched
<1> QED
  BY <1>1, <1>2, <1>3 DEF Next, CacheStep, vars

\* The rows and the requests fit together in every reachable state.
THEOREM ListingsHold == Spec => []ListingInv
<1>1. Init => ListingInv
  BY InitListing DEF Init
<1> QED
  BY <1>1, NextListing, PTL DEF Spec

\* Catalog!StampsFollowStatus: a published, paused or sold listing has its slug and its
\* date, and a sold one the date of its sale, under any number of concurrent requests
\* and edits.
THEOREM StampsAreThere == Spec => []StampsFollowStatus
<1>1. ListingInv => StampsFollowStatus
  BY DEF ListingInv, RowsHold, HasAddress, Shown, StampsFollowStatus
<1> QED
  BY <1>1, ListingsHold, PTL

\* Catalog!GateSuffices: the database's CHECKs never refuse a gated publish.
THEOREM GateAlwaysSuffices == Spec => []GateSuffices
<1>1. ASSUME ListingInv, NEW r \in Requests, request[r].pc = "update"
      PROVE  ChecksHold(Patched(r))
  <2> DEFINE row == listings[request[r].listing]
  <2> DEFINE seen == request[r].seen
  <2> DEFINE action == request[r].action
  <2>1. /\ row \in ListingRow /\ seen \in SeenRow /\ action \in ListingActions
        /\ CanApply(seen.status, action) /\ StillThere(seen, row)
        /\ NextStatus(action) = "published" => seen.filled
    BY <1>1 DEF ListingInv, ListingTypeOK, TransitionRequest, RequestsHold, Informed
  <2>2. /\ Patched(r).status = NextStatus(action)
        /\ Patched(r).filled = row.filled
        /\ Patched(r).publishedAt =
             (row.publishedAt \/ (NextStatus(action) = "published" /\ ~seen.publishedAt))
    BY <2>1, PatchColumns DEF Patched
  <2> QED
    BY <2>1, <2>2 DEF ChecksHold, StillThere
<1>2. ListingInv => GateSuffices
  BY <1>1 DEF GateSuffices
<1> QED
  BY <1>2, ListingsHold, PTL

\* Catalog!PublishIsEntitled, for publish, republish and markAvailable alike.
THEOREM EveryPublishIsEntitled == Spec => []PublishIsEntitled
<1>1. ListingInv => PublishIsEntitled
  BY DEF ListingInv, RequestsHold, Informed, PublishIsEntitled
<1> QED
  BY <1>1, ListingsHold, PTL
-----------------------------------------------------------------------------
(* The cache: what is in it was true when the database was read            *)

\* v is what the database shows of l, or it showed it at instant t or later.
AsOf(l, v, t) == v = View(l) \/ lastShown[l][v] >= t

CacheHolds ==
    /\ Cache!CacheTypeOK
    /\ LastShownTypeOK
    /\ \A f \in Fills :
         /\ fill[f].pc # "idle" => fill[f].key \in Listings /\ fill[f].at <= clock
         /\ fill[f].pc = "store" =>
              fill[f].value \in Views /\ AsOf(fill[f].key, fill[f].value, fill[f].at)
    /\ \A l \in Listings : cache[l].expiresAt > 0 =>
         /\ cache[l].value \in Views
         /\ cache[l].expiresAt <= clock + Ttl
         /\ AsOf(l, cache[l].value, cache[l].expiresAt - Ttl)

\* What the database shows is one of the views.
LEMMA ViewTyped ==
    ASSUME ListingInv, NEW l \in Listings
    PROVE  View(l) \in Views
BY DEF ListingInv, RowsHold, View, Views, Hidden

\* The empty cache holds nothing untrue.
LEMMA InitCache == ListingInv /\ Init => CacheHolds
BY CatalogAssumption
   DEF Init, CacheHolds, Cache!CacheInit, Cache!CacheTypeOK, LastShownTypeOK, Never,
       Cache!NoEntry, Cache!FillIdle, Cache!Entry, Cache!Fill

\* A step of the rows remembers the view it ends.
LEMMA RememberHolds ==
    ASSUME ListingInv, LastShownTypeOK, clock \in Nat, Remember
    PROVE  /\ LastShownTypeOK'
           /\ \A l \in Listings : \A v \in Views : \A t \in Int :
                AsOf(l, v, t) /\ t <= clock => AsOf(l, v, t)'
<1>1. ASSUME NEW l \in Listings
      PROVE  /\ lastShown'[l] \in [Views -> Int]
             /\ View(l)' = View(l) => lastShown'[l] = lastShown[l]
             /\ View(l)' # View(l) =>
                  lastShown'[l] = [lastShown[l] EXCEPT ![View(l)] = clock]
  <2>1. lastShown'[l] = IF View(l)' = View(l) THEN lastShown[l]
                        ELSE [lastShown[l] EXCEPT ![View(l)] = clock]
    BY DEF Remember, View
  <2>2. lastShown[l] \in [Views -> Int] /\ clock \in Int
    BY DEF LastShownTypeOK
  <2> QED
    BY <2>1, <2>2
<1>2. LastShownTypeOK'
  BY <1>1 DEF Remember, LastShownTypeOK
<1>3. ASSUME NEW l \in Listings, NEW v \in Views, NEW t \in Int, AsOf(l, v, t), t <= clock
      PROVE  AsOf(l, v, t)'
  <2>1. lastShown[l] \in [Views -> Int] /\ View(l) \in Views
    BY ViewTyped DEF LastShownTypeOK
  <2>2. CASE View(l)' = View(l)
    BY <1>1, <1>3, <2>2 DEF AsOf
  <2>3. CASE View(l)' # View(l)
    <3>1. lastShown'[l][v] = IF v = View(l) THEN clock ELSE lastShown[l][v]
      BY <1>1, <2>1, <2>3
    <3> QED
      BY <1>3, <3>1 DEF AsOf
  <2> QED
    BY <2>2, <2>3
<1> QED
  BY <1>2, <1>3

\* No step of the rows makes what was read untrue of the time it was read.
LEMMA RowStepCache ==
    ASSUME ListingInv, CacheHolds, RowStep
    PROVE  CacheHolds'
<1>1. /\ UNCHANGED cacheVars /\ Remember /\ clock \in Nat /\ LastShownTypeOK
      /\ cache \in [Listings -> Cache!Entry] /\ fill \in [Fills -> Cache!Fill]
  BY DEF RowStep, CacheHolds, Cache!CacheTypeOK
<1>2. /\ LastShownTypeOK'
      /\ \A l \in Listings : \A v \in Views : \A t \in Int :
           AsOf(l, v, t) /\ t <= clock => AsOf(l, v, t)'
  BY <1>1, RememberHolds
<1>3. Cache!CacheTypeOK'
  BY <1>1 DEF CacheHolds, Cache!CacheTypeOK, cacheVars
<1>4. ASSUME NEW f \in Fills
      PROVE  (/\ fill[f].pc # "idle" => fill[f].key \in Listings /\ fill[f].at <= clock
              /\ fill[f].pc = "store" =>
                   fill[f].value \in Views /\ AsOf(fill[f].key, fill[f].value, fill[f].at))'
  <2>1. fill[f].at \in Int
    BY <1>1 DEF Cache!Fill
  <2>2. CASE fill[f].pc = "store"
    <3>1. /\ fill[f].key \in Listings /\ fill[f].at <= clock
          /\ fill[f].value \in Views /\ AsOf(fill[f].key, fill[f].value, fill[f].at)
      BY <2>2 DEF CacheHolds
    <3>2. AsOf(fill[f].key, fill[f].value, fill[f].at)'
      BY <1>1, <1>2, <2>1, <3>1 DEF AsOf, cacheVars
    <3> QED
      BY <1>1, <3>1, <3>2 DEF cacheVars
  <2>3. CASE fill[f].pc # "store"
    BY <1>1, <2>3 DEF CacheHolds, cacheVars
  <2> QED
    BY <2>2, <2>3
<1>5. ASSUME NEW l \in Listings, cache[l].expiresAt' > 0
      PROVE  (/\ cache[l].value \in Views
              /\ cache[l].expiresAt <= clock + Ttl
              /\ AsOf(l, cache[l].value, cache[l].expiresAt - Ttl))'
  <2>1. /\ cache' = cache /\ clock' = clock /\ cache[l].expiresAt \in Int /\ Ttl \in Int
    BY <1>1, CatalogAssumption DEF cacheVars, Cache!Entry
  <2>2. /\ cache[l].value \in Views
        /\ cache[l].expiresAt <= clock + Ttl
        /\ AsOf(l, cache[l].value, cache[l].expiresAt - Ttl)
    BY <1>5, <2>1 DEF CacheHolds
  <2>3. cache[l].expiresAt - Ttl \in Int /\ cache[l].expiresAt - Ttl <= clock
    BY <1>1, <2>1, <2>2
  <2>4. AsOf(l, cache[l].value, cache[l].expiresAt - Ttl)'
    BY <1>2, <2>1, <2>2, <2>3 DEF AsOf
  <2> QED
    BY <2>1, <2>2, <2>4
<1> QED
  BY <1>2, <1>3, <1>4, <1>5 DEF CacheHolds

\* The rows stay as they are, and with them every view.
LEMMA SameRows ==
    ASSUME listings' = listings, lastShown' = lastShown
    PROVE  /\ LastShownTypeOK => LastShownTypeOK'
           /\ \A l \in Listings : View(l)' = View(l)
           /\ \A l \in Listings : \A v, t : AsOf(l, v, t) => AsOf(l, v, t)'
BY DEF LastShownTypeOK, View, AsOf

\* One reader moves on; the others, the rows and the entries stay.
LEMMA OneFill ==
    ASSUME CacheHolds, listings' = listings, lastShown' = lastShown,
           UNCHANGED <<cache, clock>>,
           NEW f \in Fills, NEW new \in Cache!Fill, fill' = [fill EXCEPT ![f] = new],
           new.pc # "idle" => new.key \in Listings /\ new.at <= clock,
           new.pc = "store" => new.value \in Views /\ AsOf(new.key, new.value, new.at)
    PROVE  CacheHolds'
<1>1. Cache!CacheTypeOK' /\ LastShownTypeOK'
  BY SameRows DEF CacheHolds, Cache!CacheTypeOK
<1>2. ASSUME NEW x \in Fills PROVE fill[x]' = IF x = f THEN new ELSE fill[x]
  BY DEF CacheHolds, Cache!CacheTypeOK
<1>3. ASSUME NEW x \in Fills
      PROVE  (/\ fill[x].pc # "idle" => fill[x].key \in Listings /\ fill[x].at <= clock
              /\ fill[x].pc = "store" =>
                   fill[x].value \in Views /\ AsOf(fill[x].key, fill[x].value, fill[x].at))'
  <2>1. CASE x = f
    BY <1>2, <2>1, SameRows DEF AsOf, View
  <2>2. CASE x # f
    BY <1>2, <2>2, SameRows DEF CacheHolds, AsOf, View
  <2> QED
    BY <2>1, <2>2
<1>4. ASSUME NEW l \in Listings, cache[l].expiresAt' > 0
      PROVE  (/\ cache[l].value \in Views
              /\ cache[l].expiresAt <= clock + Ttl
              /\ AsOf(l, cache[l].value, cache[l].expiresAt - Ttl))'
  BY <1>4, SameRows DEF CacheHolds, AsOf, View
<1> QED
  BY <1>1, <1>3, <1>4 DEF CacheHolds

\* A reader that is done is typed and idle.
LEMMA FillIdleTyped == Cache!FillIdle \in Cache!Fill /\ Cache!FillIdle.pc = "idle"
BY DEF Cache!FillIdle, Cache!Fill

\* A miss, its read of the rows and its failure.
LEMMA FillStepCache ==
    ASSUME ListingInv, CacheHolds, listings' = listings, lastShown' = lastShown,
           NEW f \in Fills,
           \/ \E l \in Listings : Cache!FillBegin(f, l)
           \/ Cache!FillRead(f, View(fill[f].key))
           \/ Cache!FillFails(f)
    PROVE  CacheHolds'
<1>1. fill[f] \in Cache!Fill /\ clock \in Nat
  BY DEF CacheHolds, Cache!CacheTypeOK
<1>2. CASE \E l \in Listings : Cache!FillBegin(f, l)
  <2>1. PICK l \in Listings : Cache!FillBegin(f, l)
    BY <1>2
  <2> DEFINE new == [Cache!FillIdle EXCEPT !.pc = "read", !.key = l, !.at = clock]
  <2>2. new \in Cache!Fill /\ new.pc = "read" /\ new.key = l /\ new.at = clock
    BY <1>1 DEF Cache!FillIdle, Cache!Fill
  <2>3. fill' = [fill EXCEPT ![f] = new] /\ UNCHANGED <<cache, clock>>
    BY <2>1 DEF Cache!FillBegin
  <2> HIDE DEF new
  <2>4. new.key \in Listings /\ new.at <= clock /\ new.pc # "store"
    BY <1>1, <2>2
  <2> QED
    BY <2>2, <2>3, <2>4, OneFill
<1>3. CASE Cache!FillRead(f, View(fill[f].key))
  <2> DEFINE new == [fill[f] EXCEPT !.pc = "store", !.value = View(fill[f].key)]
  <2>1. fill[f].pc = "read" /\ fill[f].key \in Listings /\ fill[f].at <= clock
    BY <1>3 DEF Cache!FillRead, CacheHolds
  <2>2. View(fill[f].key) \in Views
    BY <2>1, ViewTyped
  <2>3. /\ new \in Cache!Fill /\ new.pc = "store" /\ new.key = fill[f].key
        /\ new.at = fill[f].at /\ new.value = View(fill[f].key)
    BY <1>1, <2>2 DEF Cache!Fill
  <2>4. fill' = [fill EXCEPT ![f] = new] /\ UNCHANGED <<cache, clock>>
    BY <1>3 DEF Cache!FillRead
  <2> HIDE DEF new
  <2>5. AsOf(new.key, new.value, new.at)
    BY <2>3 DEF AsOf
  <2> QED
    BY <2>1, <2>2, <2>3, <2>4, <2>5, OneFill
<1>4. CASE Cache!FillFails(f)
  BY <1>4, FillIdleTyped, OneFill DEF Cache!FillFails
<1> QED
  BY <1>2, <1>3, <1>4

\* The value stored is as old as the instant its expiry counts from.
LEMMA FillStoreCache ==
    ASSUME CacheHolds, listings' = listings, lastShown' = lastShown,
           NEW f \in Fills, Cache!FillStore(f)
    PROVE  CacheHolds'
<1> DEFINE k == fill[f].key
<1> DEFINE entry == [ value |-> fill[f].value, expiresAt |-> fill[f].at + Ttl,
                      overtaken |-> fill[f].overtaken ]
<1>1. /\ fill[f] \in Cache!Fill /\ clock \in Nat /\ Ttl \in Nat
      /\ fill[f].at \in Nat
      /\ k \in Listings /\ fill[f].at <= clock
      /\ fill[f].value \in Views /\ AsOf(k, fill[f].value, fill[f].at)
  BY CatalogAssumption DEF Cache!FillStore, CacheHolds, Cache!CacheTypeOK, Cache!Fill
<1>2. entry \in Cache!Entry
  BY <1>1 DEF Cache!Entry, Cache!Fill
<1>3. /\ cache' = [cache EXCEPT ![k] = entry]
      /\ fill' = [fill EXCEPT ![f] = Cache!FillIdle]
      /\ clock' = clock
  BY DEF Cache!FillStore
<1>4. /\ \A l \in Listings : cache'[l] = IF l = k THEN entry ELSE cache[l]
      /\ \A x \in Fills : fill'[x] = IF x = f THEN Cache!FillIdle ELSE fill[x]
  BY <1>3 DEF CacheHolds, Cache!CacheTypeOK
<1>5. /\ entry.value = fill[f].value /\ entry.expiresAt = fill[f].at + Ttl
      /\ entry.expiresAt - Ttl = fill[f].at
  BY <1>1
<1> HIDE DEF entry
<1>6. Cache!CacheTypeOK' /\ LastShownTypeOK'
  BY <1>2, <1>3, FillIdleTyped, SameRows DEF CacheHolds, Cache!CacheTypeOK
<1>7. ASSUME NEW x \in Fills
      PROVE  (/\ fill[x].pc # "idle" => fill[x].key \in Listings /\ fill[x].at <= clock
              /\ fill[x].pc = "store" =>
                   fill[x].value \in Views /\ AsOf(fill[x].key, fill[x].value, fill[x].at))'
  BY <1>3, <1>4, FillIdleTyped, SameRows DEF CacheHolds, AsOf, View
<1>8. ASSUME NEW l \in Listings, cache[l].expiresAt' > 0
      PROVE  (/\ cache[l].value \in Views
              /\ cache[l].expiresAt <= clock + Ttl
              /\ AsOf(l, cache[l].value, cache[l].expiresAt - Ttl))'
  <2>1. CASE l = k
    <3>1. AsOf(k, entry.value, entry.expiresAt - Ttl)
      BY <1>1, <1>5
    <3>2. entry.value \in Views /\ entry.expiresAt <= clock + Ttl
      BY <1>1, <1>5
    <3> QED
      BY <1>3, <1>4, <2>1, <3>1, <3>2, SameRows DEF AsOf, View
  <2>2. CASE l # k
    BY <1>3, <1>4, <1>8, <2>2, SameRows DEF CacheHolds, AsOf, View
  <2> QED
    BY <2>1, <2>2
<1> QED
  BY <1>6, <1>7, <1>8 DEF CacheHolds

\* Clearing the store, or noting a missed clearing, keeps every value in hand.
LEMMA OvertakenCache ==
    ASSUME CacheHolds, listings' = listings, lastShown' = lastShown,
           Cache!InvalidateCatalog \/ Cache!MissInvalidation
    PROVE  CacheHolds'
<1>1. /\ cache \in [Listings -> Cache!Entry] /\ fill \in [Fills -> Cache!Fill]
      /\ clock \in Nat /\ clock' = clock
  BY DEF CacheHolds, Cache!CacheTypeOK, Cache!InvalidateCatalog, Cache!MissInvalidation
<1>2. ASSUME NEW x \in Fills
      PROVE  /\ fill'[x] \in Cache!Fill
             /\ fill'[x].pc = fill[x].pc /\ fill'[x].key = fill[x].key
             /\ fill'[x].at = fill[x].at /\ fill'[x].value = fill[x].value
  <2>1. fill'[x] = [fill[x] EXCEPT !.overtaken = @ \/ fill[x].pc = "store"]
    BY DEF Cache!OvertakeFills, Cache!InvalidateCatalog, Cache!MissInvalidation
  <2>2. fill[x] \in Cache!Fill
    BY <1>1
  <2> QED
    BY <2>1, <2>2 DEF Cache!Fill
<1>3. ASSUME NEW l \in Listings
      PROVE  /\ cache'[l] \in Cache!Entry
             /\ cache'[l].expiresAt > 0 =>
                  cache'[l].value = cache[l].value /\ cache'[l].expiresAt = cache[l].expiresAt
  <2>1. cache[l] \in Cache!Entry
    BY <1>1
  <2>2. CASE Cache!InvalidateCatalog
    <3>1. cache'[l] = Cache!NoEntry
      BY <2>2 DEF Cache!InvalidateCatalog
    <3> QED
      BY <3>1 DEF Cache!NoEntry, Cache!Entry
  <2>3. CASE Cache!MissInvalidation
    <3>1. cache'[l] = [cache[l] EXCEPT !.overtaken = Cache!Live(l)]
      BY <2>3 DEF Cache!MissInvalidation
    <3>2. Cache!Live(l) \in BOOLEAN
      BY <1>1 DEF Cache!Live
    <3> QED
      BY <2>1, <3>1, <3>2 DEF Cache!Entry
  <2> QED
    BY <2>2, <2>3
<1>4. Cache!CacheTypeOK' /\ LastShownTypeOK'
  <2>1. fill' \in [Fills -> Cache!Fill]
    BY <1>2 DEF Cache!OvertakeFills, Cache!InvalidateCatalog, Cache!MissInvalidation
  <2>2. cache' \in [Listings -> Cache!Entry]
    BY <1>3 DEF Cache!InvalidateCatalog, Cache!MissInvalidation
  <2> QED
    BY <1>1, <2>1, <2>2, SameRows DEF CacheHolds, Cache!CacheTypeOK
<1>5. ASSUME NEW x \in Fills
      PROVE  (/\ fill[x].pc # "idle" => fill[x].key \in Listings /\ fill[x].at <= clock
              /\ fill[x].pc = "store" =>
                   fill[x].value \in Views /\ AsOf(fill[x].key, fill[x].value, fill[x].at))'
  BY <1>1, <1>2, SameRows DEF CacheHolds, AsOf, View
<1>6. ASSUME NEW l \in Listings, cache[l].expiresAt' > 0
      PROVE  (/\ cache[l].value \in Views
              /\ cache[l].expiresAt <= clock + Ttl
              /\ AsOf(l, cache[l].value, cache[l].expiresAt - Ttl))'
  BY <1>1, <1>3, <1>6, SameRows DEF CacheHolds, AsOf, View
<1> QED
  BY <1>4, <1>5, <1>6 DEF CacheHolds

\* Time only moves away from the instants recorded.
LEMMA ClockTickCache ==
    ASSUME CacheHolds, listings' = listings, lastShown' = lastShown, Cache!ClockTick
    PROVE  CacheHolds'
<1>1. /\ cache' = cache /\ fill' = fill /\ clock' = clock + 1 /\ clock \in Nat
      /\ Ttl \in Nat
      /\ cache \in [Listings -> Cache!Entry] /\ fill \in [Fills -> Cache!Fill]
  BY CatalogAssumption DEF Cache!ClockTick, CacheHolds, Cache!CacheTypeOK
<1>2. Cache!CacheTypeOK' /\ LastShownTypeOK'
  BY <1>1, SameRows DEF CacheHolds, Cache!CacheTypeOK
<1>3. ASSUME NEW x \in Fills
      PROVE  (/\ fill[x].pc # "idle" => fill[x].key \in Listings /\ fill[x].at <= clock
              /\ fill[x].pc = "store" =>
                   fill[x].value \in Views /\ AsOf(fill[x].key, fill[x].value, fill[x].at))'
  <2>1. fill[x].at \in Nat
    BY <1>1 DEF Cache!Fill
  <2> QED
    BY <1>1, <2>1, SameRows DEF CacheHolds, AsOf, View
<1>4. ASSUME NEW l \in Listings, cache[l].expiresAt' > 0
      PROVE  (/\ cache[l].value \in Views
              /\ cache[l].expiresAt <= clock + Ttl
              /\ AsOf(l, cache[l].value, cache[l].expiresAt - Ttl))'
  <2>1. cache[l].expiresAt \in Nat
    BY <1>1 DEF Cache!Entry
  <2> QED
    BY <1>1, <1>4, <2>1, SameRows DEF CacheHolds, AsOf, View
<1> QED
  BY <1>2, <1>3, <1>4 DEF CacheHolds

\* CacheHolds is inductive, given the rows.
LEMMA NextCache == ListingInv /\ CacheHolds /\ [Next]_vars => CacheHolds'
<1> SUFFICES ASSUME ListingInv, CacheHolds, [Next]_vars PROVE CacheHolds'
  OBVIOUS
<1>1. CASE RowStep
  BY <1>1, RowStepCache
<1>2. CASE \E r \in Requests : TransitionInvalidates(r) \/ TransitionDoesNotInvalidate(r)
  BY <1>2, OvertakenCache
     DEF TransitionInvalidates, TransitionDoesNotInvalidate, RequestEnds
<1>3. CASE CacheStep
  <2>1. listings' = listings /\ lastShown' = lastShown
    BY <1>3 DEF CacheStep, listingVars
  <2> QED
    BY <1>3, <2>1, FillStepCache, FillStoreCache, ClockTickCache DEF CacheStep
<1>4. CASE UNCHANGED vars
  BY <1>4 DEF vars, listingVars, cacheVars, CacheHolds, Cache!CacheTypeOK,
              LastShownTypeOK, AsOf, View
<1> QED
  BY <1>1, <1>2, <1>3, <1>4 DEF Next

\* What the cache and its readers hold was true when it was read.
THEOREM CacheTellsTheTruth == Spec => []CacheHolds
<1>1. Init => ListingInv
  BY InitListing DEF Init
<1>2. Init => CacheHolds
  BY <1>1, InitCache
<1> QED
  BY <1>2, NextCache, ListingsHold, PTL DEF Spec

\* Catalog!TypeOK for every instance.
THEOREM CatalogTypeCorrect == Spec => []TypeOK
<1>1. ListingInv /\ CacheHolds => TypeOK
  BY DEF ListingInv, CacheHolds, TypeOK
<1> QED
  BY <1>1, ListingsHold, CacheTellsTheTruth, PTL

\* Catalog!BoundedStaleness: no reader is served anything that has not been the
\* truth for a TTL, whatever invalidations were missed or overtaken.
THEOREM StalenessIsBounded == Spec => []BoundedStaleness
<1>1. ASSUME CacheHolds, NEW l \in Listings, Cache!Live(l), cache[l].value # View(l)
      PROVE  lastShown[l][cache[l].value] > clock - Ttl
  <2>1. /\ cache[l].expiresAt \in Nat /\ clock \in Nat /\ Ttl \in Nat
        /\ cache[l].expiresAt > clock
    BY <1>1, CatalogAssumption DEF CacheHolds, Cache!CacheTypeOK, Cache!Entry, Cache!Live
  <2>2. /\ cache[l].value \in Views
        /\ lastShown[l][cache[l].value] >= cache[l].expiresAt - Ttl
    BY <1>1, <2>1 DEF CacheHolds, AsOf
  <2>3. lastShown[l][cache[l].value] \in Int
    BY <1>1, <2>2 DEF CacheHolds, LastShownTypeOK
  <2> QED
    BY <2>1, <2>2, <2>3
<1>2. CacheHolds => BoundedStaleness
  BY <1>1 DEF BoundedStaleness
<1> QED
  BY <1>2, CacheTellsTheTruth, PTL
-----------------------------------------------------------------------------
(* Staleness has a cause                                                   *)

Pending(l) ==
    \E r \in Requests : request[r].pc = "invalidate" /\ request[r].listing = l

\* What is out of date, in the store or in hand, was overtaken by an
\* invalidation or will be reached by one.
StaleExplained ==
    /\ \A l \in Listings :
         Cache!Live(l) /\ cache[l].value # View(l) => cache[l].overtaken \/ Pending(l)
    /\ \A f \in Fills :
         fill[f].pc = "store" /\ fill[f].value # View(fill[f].key)
           => fill[f].overtaken \/ Pending(fill[f].key)

\* Only a committed transition changes a view, and it stays pending.
LEMMA RowStepPending ==
    ASSUME ListingInv, RowStep, NEW l \in Listings
    PROVE  /\ View(l)' # View(l) => Pending(l)'
           /\ Pending(l) => Pending(l)'
<1>1. /\ listings \in [Listings -> ListingRow] /\ request \in [Requests -> TransitionRequest]
  BY DEF ListingInv, ListingTypeOK
<1>2. CASE \E x \in Listings : CreateDraft(x) \/ UpdateListing(x)
  <2>1. PICK x \in Listings : CreateDraft(x) \/ UpdateListing(x)
    BY <1>2
  <2>2. request' = request
    BY <2>1 DEF CreateDraft, UpdateListing
  <2>3. x # l => listings'[l] = listings[l]
    BY <1>1, <2>1 DEF CreateDraft, UpdateListing
  <2>4. x = l => /\ listings[l].status \notin {"published", "sold"}
                 /\ listings'[l].status \notin {"published", "sold"}
    BY <1>1, <2>1 DEF CreateDraft, UpdateListing, IsEditable, NoListing, ListingRow
  <2> QED
    BY <2>2, <2>3, <2>4 DEF View, Pending
<1>3. ASSUME NEW r \in Requests, NEW q, q.pc # "invalidate" \/ request[r].pc # "invalidate",
             request[r].pc # "invalidate", request' = [request EXCEPT ![r] = q],
             listings' = listings
      PROVE  /\ View(l)' # View(l) => Pending(l)'
             /\ Pending(l) => Pending(l)'
  BY <1>1, <1>3 DEF View, Pending
<1>4. CASE \E r \in Requests, x \in Listings, action \in ListingActions :
             TransitionBegin(r, x, action)
  BY <1>3, <1>4 DEF TransitionBegin
<1>5. ASSUME NEW r \in Requests, PublishGate(r) \/ RequestFails(r)
      PROVE  /\ View(l)' # View(l) => Pending(l)'
             /\ Pending(l) => Pending(l)'
  BY <1>3, <1>5 DEF PublishGate, RequestFails, RequestEnds
<1>6. ASSUME NEW r \in Requests, TransitionUpdate(r)
      PROVE  /\ View(l)' # View(l) => Pending(l)'
             /\ Pending(l) => Pending(l)'
  <2>1. CASE ~ChecksHold(Patched(r))
    BY <1>3, <1>6, <2>1 DEF TransitionUpdate
  <2>2. CASE ChecksHold(Patched(r))
    <3> DEFINE q == [RequestIdle EXCEPT !.pc = "invalidate",
                                        !.listing = request[r].listing]
    <3>1. /\ request' = [request EXCEPT ![r] = q]
          /\ listings' = [listings EXCEPT ![request[r].listing] = Patched(r)]
          /\ request[r].pc = "update"
      BY <1>6, <2>2 DEF TransitionUpdate
    <3>2. q.pc = "invalidate" /\ q.listing = request[r].listing
      BY DEF RequestIdle
    <3> HIDE DEF q
    <3>3. request[r].listing = l => Pending(l)'
      BY <1>1, <3>1, <3>2 DEF Pending
    <3>4. request[r].listing # l => View(l)' = View(l)
      BY <1>1, <3>1 DEF View
    <3>5. Pending(l) => Pending(l)'
      BY <1>1, <3>1 DEF Pending
    <3> QED
      BY <3>3, <3>4, <3>5
  <2> QED
    BY <2>1, <2>2
<1>7. CASE EntitlementChanges
  <2>1. ASSUME NEW r \in Requests
        PROVE  request[r]'.pc = request[r].pc /\ request[r]'.listing = request[r].listing
    <3>1. request[r] \in TransitionRequest
      BY <1>1
    <3> QED
      BY <1>7, <3>1 DEF EntitlementChanges, TransitionRequest
  <2> QED
    BY <1>7, <2>1 DEF EntitlementChanges, View, Pending
<1> QED
  BY <1>2, <1>4, <1>5, <1>6, <1>7 DEF RowStep

\* After a step of the rows a stale entry is explained by its pending transition.
LEMMA RowStepStale ==
    ASSUME ListingInv, CacheHolds, StaleExplained, RowStep
    PROVE  StaleExplained'
<1>1. cache' = cache /\ fill' = fill /\ clock' = clock
  BY DEF RowStep, cacheVars
<1>2. ASSUME NEW l \in Listings, (Cache!Live(l) /\ cache[l].value # View(l))'
      PROVE  (cache[l].overtaken \/ Pending(l))'
  <2>1. Cache!Live(l) /\ cache[l].value' = cache[l].value
        /\ cache[l].overtaken' = cache[l].overtaken
    BY <1>1, <1>2 DEF Cache!Live
  <2>2. CASE View(l)' = View(l)
    <3>1. cache[l].overtaken \/ Pending(l)
      BY <1>2, <2>1, <2>2 DEF StaleExplained
    <3> QED
      BY <2>1, <3>1, RowStepPending
  <2>3. CASE View(l)' # View(l)
    BY <2>3, RowStepPending
  <2> QED
    BY <2>2, <2>3
<1>3. ASSUME NEW f \in Fills, (fill[f].pc = "store" /\ fill[f].value # View(fill[f].key))'
      PROVE  (fill[f].overtaken \/ Pending(fill[f].key))'
  <2>1. PICK k \in Listings : k = fill[f].key
    BY <1>1, <1>3 DEF CacheHolds
  <2>2. fill[f].pc = "store" /\ fill[f].value # View(k)'
    BY <1>1, <1>3, <2>1 DEF View
  <2>3. CASE View(k)' = View(k)
    <3>1. fill[f].overtaken \/ Pending(k)
      BY <2>1, <2>2, <2>3 DEF StaleExplained
    <3>2. fill[f].overtaken \/ Pending(k)'
      BY <3>1, RowStepPending
    <3> QED
      BY <1>1, <2>1, <3>2 DEF Pending
  <2>4. CASE View(k)' # View(k)
    <3>1. Pending(k)'
      BY <2>4, RowStepPending
    <3> QED
      BY <1>1, <2>1, <3>1 DEF Pending
  <2> QED
    BY <2>3, <2>4
<1> QED
  BY <1>2, <1>3 DEF StaleExplained

\* After an invalidation, done or missed, everything in hand is marked.
LEMMA OvertakenExplained ==
    ASSUME CacheHolds, Cache!InvalidateCatalog \/ Cache!MissInvalidation
    PROVE  StaleExplained'
<1>1. /\ cache \in [Listings -> Cache!Entry] /\ fill \in [Fills -> Cache!Fill]
      /\ clock \in Nat /\ clock' = clock
  BY DEF CacheHolds, Cache!CacheTypeOK, Cache!InvalidateCatalog, Cache!MissInvalidation
<1>2. ASSUME NEW f \in Fills, fill'[f].pc = "store" PROVE fill'[f].overtaken
  <2>1. fill'[f] = [fill[f] EXCEPT !.overtaken = @ \/ fill[f].pc = "store"]
    BY DEF Cache!OvertakeFills, Cache!InvalidateCatalog, Cache!MissInvalidation
  <2>2. fill[f] \in Cache!Fill
    BY <1>1
  <2> QED
    BY <1>2, <2>1, <2>2 DEF Cache!Fill
<1>3. ASSUME NEW l \in Listings, Cache!Live(l)' PROVE cache'[l].overtaken
  <2>1. CASE Cache!InvalidateCatalog
    BY <1>1, <1>3, <2>1 DEF Cache!InvalidateCatalog, Cache!NoEntry, Cache!Live
  <2>2. CASE Cache!MissInvalidation
    <3>1. cache'[l] = [cache[l] EXCEPT !.overtaken = Cache!Live(l)] /\ cache[l] \in Cache!Entry
      BY <1>1, <2>2 DEF Cache!MissInvalidation
    <3>2. cache'[l].expiresAt = cache[l].expiresAt /\ cache'[l].overtaken = Cache!Live(l)
      BY <3>1 DEF Cache!Entry
    <3>3. Cache!Live(l)
      BY <1>1, <1>3, <3>2 DEF Cache!Live
    <3> QED
      BY <3>2, <3>3
  <2> QED
    BY <2>1, <2>2
<1> QED
  BY <1>2, <1>3 DEF StaleExplained

\* No step of a reader leaves a stale entry unexplained.
LEMMA CacheStepStale ==
    ASSUME CacheHolds, StaleExplained, CacheStep
    PROVE  StaleExplained'
<1>1. /\ listings' = listings /\ request' = request
      /\ cache \in [Listings -> Cache!Entry] /\ fill \in [Fills -> Cache!Fill]
      /\ clock \in Nat
  BY DEF CacheStep, listingVars, CacheHolds, Cache!CacheTypeOK
<1>2. ASSUME NEW f \in Fills, NEW l \in Listings, Cache!FillBegin(f, l)
      PROVE  StaleExplained'
  <2>1. /\ cache' = cache /\ clock' = clock
        /\ fill'[f].pc = "read"
        /\ \A x \in Fills \ {f} : fill'[x] = fill[x]
    BY <1>1, <1>2 DEF Cache!FillBegin, Cache!FillIdle
  <2> QED
    BY <1>1, <2>1 DEF StaleExplained, View, Pending, Cache!Live
<1>3. ASSUME NEW f \in Fills, Cache!FillRead(f, View(fill[f].key))
      PROVE  StaleExplained'
  <2>1. /\ cache' = cache /\ clock' = clock
        /\ fill'[f].value = View(fill[f].key) /\ fill'[f].key = fill[f].key
        /\ \A x \in Fills \ {f} : fill'[x] = fill[x]
    BY <1>1, <1>3 DEF Cache!FillRead, Cache!Fill
  <2> QED
    BY <1>1, <2>1 DEF StaleExplained, View, Pending, Cache!Live
<1>4. ASSUME NEW f \in Fills, Cache!FillFails(f)
      PROVE  StaleExplained'
  <2>1. /\ cache' = cache /\ clock' = clock
        /\ fill'[f].pc = "idle"
        /\ \A x \in Fills \ {f} : fill'[x] = fill[x]
    BY <1>1, <1>4 DEF Cache!FillFails, Cache!FillIdle
  <2> QED
    BY <1>1, <2>1 DEF StaleExplained, View, Pending, Cache!Live
<1>5. ASSUME NEW f \in Fills, Cache!FillStore(f)
      PROVE  StaleExplained'
  <2>1. /\ clock' = clock /\ fill[f].pc = "store" /\ fill[f].key \in Listings
        /\ fill'[f].pc = "idle"
        /\ \A x \in Fills \ {f} : fill'[x] = fill[x]
        /\ cache'[fill[f].key].value = fill[f].value
        /\ cache'[fill[f].key].overtaken = fill[f].overtaken
        /\ \A l \in Listings \ {fill[f].key} : cache'[l] = cache[l]
    BY <1>1, <1>5 DEF Cache!FillStore, Cache!FillIdle, CacheHolds
  <2> QED
    BY <1>1, <2>1 DEF StaleExplained, View, Pending, Cache!Live
<1>6. CASE Cache!ClockTick
  <2>1. cache' = cache /\ fill' = fill /\ clock' = clock + 1
    BY <1>6 DEF Cache!ClockTick
  <2>2. \A l \in Listings : Cache!Live(l)' => Cache!Live(l)
    BY <1>1, <2>1 DEF Cache!Live, Cache!Entry
  <2> QED
    BY <1>1, <2>1, <2>2 DEF StaleExplained, View, Pending
<1> QED
  BY <1>2, <1>3, <1>4, <1>5, <1>6 DEF CacheStep

\* StaleExplained is inductive, given the cache and the rows.
LEMMA NextStale ==
    ListingInv /\ CacheHolds /\ StaleExplained /\ [Next]_vars => StaleExplained'
<1> SUFFICES ASSUME ListingInv, CacheHolds, StaleExplained, [Next]_vars
             PROVE  StaleExplained'
  OBVIOUS
<1>1. CASE RowStep
  BY <1>1, RowStepStale
<1>2. CASE \E r \in Requests : TransitionInvalidates(r) \/ TransitionDoesNotInvalidate(r)
  BY <1>2, OvertakenExplained DEF TransitionInvalidates, TransitionDoesNotInvalidate
<1>3. CASE CacheStep
  BY <1>3, CacheStepStale
<1>4. CASE UNCHANGED vars
  BY <1>4 DEF vars, listingVars, cacheVars, StaleExplained, View, Pending, Cache!Live
<1> QED
  BY <1>1, <1>2, <1>3, <1>4 DEF Next

\* Catalog!StaleOnlyIfOvertaken: with the in-flight fill and the missed
\* invalidation named, nothing else leaves an outdated view in the cache.
THEOREM StalenessHasACause == Spec => []StaleOnlyIfOvertaken
<1>1. Init => StaleExplained
  BY DEF Init, StaleExplained, Cache!CacheInit, Cache!Live, Cache!NoEntry, Cache!FillIdle
<1>2. StaleExplained => StaleOnlyIfOvertaken
  BY DEF StaleExplained, Pending, StaleOnlyIfOvertaken
<1> QED
  BY <1>1, <1>2, NextStale, ListingsHold, CacheTellsTheTruth, PTL DEF Spec
-----------------------------------------------------------------------------
(* What readers see does not change under them                             *)

\* No step of the rows changes the title of a listing that stays visible.
LEMMA RowStepFrozen ==
    ASSUME ListingInv, RowStep, NEW l \in Listings, View(l) # Hidden, View(l)' # Hidden
    PROVE  View(l)'.title = View(l).title
<1>1. /\ listings \in [Listings -> ListingRow]
      /\ listings[l].status \in {"published", "sold"}
  BY DEF ListingInv, ListingTypeOK, View
<1>2. listings'[l].title = listings[l].title
  <2>1. CASE \E x \in Listings : CreateDraft(x) \/ UpdateListing(x)
    BY <1>1, <2>1 DEF CreateDraft, UpdateListing, IsEditable
  <2>2. ASSUME NEW r \in Requests, TransitionUpdate(r) PROVE listings'[l].title = listings[l].title
    <3> DEFINE k == request[r].listing
    <3>1. /\ k \in Listings /\ request[r].seen \in SeenRow
          /\ request[r].action \in ListingActions
          /\ CanApply(request[r].seen.status, request[r].action)
      BY <2>2 DEF TransitionUpdate, ListingInv, ListingTypeOK, TransitionRequest,
                  RequestsHold, Informed
    <3>2. Patched(r).title = listings[k].title
      BY <1>1, <3>1, PatchColumns DEF Patched
    <3>3. listings' = listings \/ listings' = [listings EXCEPT ![k] = Patched(r)]
      BY <2>2 DEF TransitionUpdate
    <3> QED
      BY <1>1, <3>2, <3>3
  <2>3. \/ \E x \in Listings : CreateDraft(x) \/ UpdateListing(x)
        \/ \E r \in Requests : TransitionUpdate(r)
        \/ listings' = listings
    BY DEF RowStep, TransitionBegin, PublishGate, RequestFails, RequestEnds,
           EntitlementChanges
  <2> QED
    BY <2>1, <2>2, <2>3
<1> QED
  BY <1>1, <1>2 DEF View

\* Catalog!VisibleContentIsFrozen: an edit reaches readers only through a
\* listing that has left the catalogue and come back.
THEOREM ContentIsFrozen == Spec => VisibleContentIsFrozen
<1>1. ListingInv /\ [Next]_vars =>
        [\A l \in Listings :
           View(l) # Hidden /\ View(l)' # Hidden => View(l)'.title = View(l).title]_vars
  <2> SUFFICES ASSUME ListingInv, [Next]_vars, NEW l \in Listings,
                      View(l) # Hidden, View(l)' # Hidden
               PROVE  View(l)'.title = View(l).title
    OBVIOUS
  <2>1. CASE RowStep
    BY <2>1, RowStepFrozen
  <2>2. CASE listings' = listings
    BY <2>2 DEF View
  <2> QED
    BY <2>1, <2>2 DEF Next, CacheStep, TransitionInvalidates,
                      TransitionDoesNotInvalidate, RequestEnds, listingVars, vars
<1> QED
  BY <1>1, ListingsHold, PTL DEF Spec, VisibleContentIsFrozen

-----------------------------------------------------------------------------
(* The contract.  An update is by id and decided on the row that was read, *)
(* so a transition is one step of the contract if the columns it decided   *)
(* on are still those of the row.  Edits change none of them, so this is   *)
(* so whenever no two requests are about to update one row.                *)

\* Rows are equal column by column.
LEMMA SameRow ==
    ASSUME NEW x \in ListingRow, NEW y \in ListingRow,
           x.status = y.status, x.title = y.title, x.filled = y.filled, x.slug = y.slug,
           x.publishedAt = y.publishedAt, x.soldAt = y.soldAt
    PROVE  x = y
BY DEF ListingRow

\* The sale's date after an update that was decided on the row as it is.
LEMMA PatchDates ==
    ASSUME NEW row \in ListingRow, NEW seen \in SeenRow, NEW action \in ListingActions,
           CanApply(seen.status, action), HasAddress(row),
           seen.status = row.status, seen.slug = row.slug,
           row.soldAt <=> row.status = "sold"
    PROVE  TransitionPatch(row, seen, action).soldAt = (NextStatus(action) = "sold")
<1>1. TransitionPatch(row, seen, action).soldAt =
        IF NextStatus(action) = "sold" THEN TRUE
        ELSE row.soldAt /\ (seen.status # "sold" \/ FirstPublish(seen, action))
  BY DEF TransitionPatch, ListingRow
<1>2. row.status = "sold" => ~FirstPublish(seen, action)
  BY DEF FirstPublish, HasAddress, Shown
<1>3. row.soldAt \in BOOLEAN
  BY DEF ListingRow
<1> QED
  BY <1>1, <1>2, <1>3

\* Every action's update is the contract's step of the same name.
LEMMA PatchFollowsContract ==
    ASSUME ListingInv, NEW l \in Listings, NEW seen \in SeenRow, NEW action \in ListingActions,
           CanApply(seen.status, action), seen.title \in Titles,
           seen.status = listings[l].status, seen.slug = listings[l].slug,
           seen.publishedAt = listings[l].publishedAt,
           listings[l].soldAt <=> listings[l].status = "sold",
           ChecksHold(TransitionPatch(listings[l], seen, action)),
           listings' = [listings EXCEPT ![l] = TransitionPatch(listings[l], seen, action)]
    PROVE  Contract!ContractNext
<1> DEFINE row == listings[l]
<1> DEFINE new == TransitionPatch(listings[l], seen, action)
<1>1. /\ row \in ListingRow /\ HasAddress(row) /\ listings' = [listings EXCEPT ![l] = new]
      /\ CanApply(row.status, action)
  BY DEF ListingInv, ListingTypeOK, RowsHold
<1>2. /\ new \in ListingRow
      /\ new.status = NextStatus(action)
      /\ new.title = row.title
      /\ new.filled = row.filled
      /\ new.slug = IF FirstPublish(seen, action) THEN seen.title ELSE row.slug
      /\ new.publishedAt = (row.publishedAt \/ NextStatus(action) = "published")
      /\ new.soldAt = (NextStatus(action) = "sold")
  <2>1. new.publishedAt = (row.publishedAt \/ (NextStatus(action) = "published" /\ ~seen.publishedAt))
    BY <1>1, PatchColumns
  <2>2. row.publishedAt \in BOOLEAN
    BY <1>1 DEF ListingRow
  <2>3. new.publishedAt = (row.publishedAt \/ NextStatus(action) = "published")
    BY <2>1, <2>2
  <2> QED
    BY <1>1, <2>3, PatchColumns, PatchDates
<1>3. NextStatus(action) = "published" => row.filled
  BY <1>2 DEF ChecksHold
<1> HIDE DEF new
<1>4. ASSUME NEW to, NextStatus(action) = to, ~FirstPublish(seen, action),
             to # "published" \/ row.publishedAt
      PROVE  new = [row EXCEPT !.status = to, !.soldAt = (to = "sold")]
  <2> DEFINE after == [row EXCEPT !.status = to, !.soldAt = (to = "sold")]
  <2>1. to \in ListingStatuses
    BY <1>1, <1>4, Table
  <2>2. /\ after \in ListingRow
        /\ after.status = to /\ after.title = row.title /\ after.filled = row.filled
        /\ after.slug = row.slug /\ after.publishedAt = row.publishedAt
        /\ after.soldAt = (to = "sold")
    BY <1>1, <2>1 DEF ListingRow
  <2>3. row.publishedAt \in BOOLEAN
    BY <1>1 DEF ListingRow
  <2>4. new.publishedAt = after.publishedAt
    BY <1>2, <1>4, <2>2, <2>3
  <2> HIDE DEF after
  <2>5. new = after
    BY <1>2, <1>4, <2>2, <2>4, SameRow
  <2> QED
    BY <2>5 DEF after
<1>5. CASE action = "publish"
  <2> DEFINE slug == new.slug
  <2> DEFINE after == [row EXCEPT !.status = "published", !.slug = slug, !.publishedAt = TRUE]
  <2>1. NextStatus(action) = "published" /\ row.status = "draft"
    BY <1>1, <1>5 DEF CanApply, NextStatus, ListingTransitions
  <2>2. slug \in IF row.slug = "none" THEN Titles ELSE {row.slug}
    BY <1>2, <2>1 DEF FirstPublish
  <2>3. ~row.soldAt /\ row.soldAt \in BOOLEAN
    BY <1>1, <2>1 DEF ListingRow
  <2>4. /\ after \in ListingRow
        /\ after.status = "published" /\ after.title = row.title /\ after.filled = row.filled
        /\ after.slug = slug /\ after.publishedAt = TRUE /\ after.soldAt = row.soldAt
    BY <1>1, <1>2, <2>1 DEF ListingRow, ListingStatuses
  <2>5. new.publishedAt = TRUE /\ new.soldAt = FALSE /\ new.status = "published"
    BY <1>2, <2>1
  <2> HIDE DEF after
  <2>6. new = after
    BY <1>2, <2>3, <2>4, <2>5, SameRow
  <2>7. Contract!Publish(l)
    BY <1>1, <1>3, <2>1, <2>2, <2>6 DEF after, Contract!Publish, Contract!Becomes
  <2> QED
    BY <2>7 DEF Contract!ContractNext
<1>6. CASE action \in {"republish", "markAvailable"}
  <2>1. NextStatus(action) = "published" /\ row.status \in {"paused", "sold"}
    BY <1>1, <1>6 DEF CanApply, NextStatus, ListingTransitions
  <2>2. ~FirstPublish(seen, action) /\ row.publishedAt
    BY <1>1, <2>1 DEF FirstPublish, HasAddress, Shown
  <2>3. Contract!Return(l)
    BY <1>1, <1>3, <1>4, <2>1, <2>2 DEF Contract!Return, Contract!Move, Contract!Becomes
  <2> QED
    BY <2>3 DEF Contract!ContractNext
<1>7. CASE action \in {"pause", "markSold", "archive", "relist"}
  <2>1. NextStatus(action) # "published"
    BY <1>7 DEF NextStatus, ListingTransitions
  <2>2. new = [row EXCEPT !.status = NextStatus(action), !.soldAt = (NextStatus(action) = "sold")]
    BY <1>4, <2>1 DEF FirstPublish
  <2>3. \/ action = "pause" /\ NextStatus(action) = "paused" /\ row.status \in {"published"}
        \/ action = "markSold" /\ NextStatus(action) = "sold" /\ row.status \in {"published", "paused"}
        \/ /\ action = "archive" /\ NextStatus(action) = "archived"
           /\ row.status \in {"draft", "published", "paused", "sold"}
        \/ action = "relist" /\ NextStatus(action) = "draft" /\ row.status \in {"archived"}
    BY <1>1, <1>7 DEF CanApply, NextStatus, ListingTransitions, ListingStatuses
  <2>4. Contract!Pause(l) \/ Contract!Sell(l) \/ Contract!Archive(l) \/ Contract!Relist(l)
    BY <1>1, <2>2, <2>3
    DEF Contract!Pause, Contract!Sell, Contract!Archive, Contract!Relist, Contract!Move,
        Contract!Becomes
  <2> QED
    BY <2>4 DEF Contract!ContractNext
<1> QED
  BY <1>5, <1>6, <1>7 DEF ListingActions, ListingTransitions


\* Who writes which row: a new draft, an edit or an update, and the rest none.
LEMMA RowsAreWritten ==
    ASSUME [Next]_vars
    PROVE  \/ UNCHANGED listings
           \/ \E l \in Listings : CreateDraft(l) \/ UpdateListing(l)
           \/ \E r \in Requests : TransitionUpdate(r)
BY DEF Next, RowStep, TransitionBegin, PublishGate, RequestFails, RequestEnds,
       EntitlementChanges, TransitionInvalidates, TransitionDoesNotInvalidate, CacheStep,
       listingVars, vars

\* An edit is the contract's.
LEMMA EditFollowsContract ==
    ASSUME ListingInv, NEW l \in Listings, UpdateListing(l)
    PROVE  /\ Contract!Edit(l)
           /\ \A x \in Listings :
                /\ listings'[x].status = listings[x].status
                /\ listings'[x].slug = listings[x].slug
                /\ listings'[x].publishedAt = listings[x].publishedAt
                /\ listings'[x].soldAt = listings[x].soldAt
<1>1. PICK title \in Titles, filled \in BOOLEAN :
        listings' = [listings EXCEPT ![l].title = title, ![l].filled = @ \/ filled]
  BY DEF UpdateListing
<1> DEFINE new == [listings[l] EXCEPT !.title = title, !.filled = @ \/ filled]
<1>2. listings \in [Listings -> ListingRow] /\ listings[l] \in ListingRow
  BY DEF ListingInv, ListingTypeOK
<1>3. listings' = [listings EXCEPT ![l] = new]
  BY <1>1, <1>2
<1>4. /\ new.status = listings[l].status /\ new.slug = listings[l].slug
      /\ new.publishedAt = listings[l].publishedAt /\ new.soldAt = listings[l].soldAt
  BY <1>2 DEF ListingRow
<1>5. listings[l].status \in {"draft", "paused"}
  BY DEF UpdateListing, IsEditable
<1>6. Contract!Edit(l)
  BY <1>3, <1>5 DEF Contract!Edit, Contract!Becomes
<1> HIDE DEF new
<1> QED
  BY <1>2, <1>3, <1>4, <1>6

\* So is an update that was decided on the row as it is.
LEMMA UpdateFollowsContract ==
    ASSUME ListingInv, SoldAtTracksSold, TransitionsAreCurrent,
           NEW r \in Requests, TransitionUpdate(r)
    PROVE  Contract!ContractNext \/ UNCHANGED listings
<1> DEFINE l == request[r].listing
<1>1. /\ request[r] \in TransitionRequest /\ request[r].pc = "update"
      /\ Informed(request[r]) /\ Current(request[r], listings[l])
  BY DEF TransitionUpdate, ListingInv, ListingTypeOK, RequestsHold, TransitionsAreCurrent
<1>2. /\ l \in Listings /\ request[r].seen \in SeenRow /\ request[r].action \in ListingActions
      /\ CanApply(request[r].seen.status, request[r].action)
      /\ request[r].seen.title \in Titles
  BY <1>1 DEF Informed, TransitionRequest
<1>3. listings[l].soldAt <=> listings[l].status = "sold"
  BY <1>2 DEF SoldAtTracksSold
<1>4. CASE ChecksHold(Patched(r))
  <2>1. listings' = [listings EXCEPT ![l] = Patched(r)]
    BY <1>4 DEF TransitionUpdate
  <2> QED
    BY <1>1, <1>2, <1>3, <1>4, <2>1, PatchFollowsContract DEF Patched, Current
<1>5. CASE ~ChecksHold(Patched(r))
  BY <1>5 DEF TransitionUpdate
<1> QED
  BY <1>4, <1>5

\* Every step follows the contract, from rows whose dates are right.
LEMMA StepFollowsContract ==
    ASSUME ListingInv, SoldAtTracksSold, TransitionsAreCurrent, [Next]_vars
    PROVE  [Contract!ContractNext]_listings
<1>1. ASSUME NEW l \in Listings, CreateDraft(l) PROVE Contract!ContractNext
  <2>1. Contract!Create(l)
    BY <1>1 DEF CreateDraft, NoListing, Contract!Create, Contract!Becomes, Contract!NoRow
  <2> QED
    BY <2>1 DEF Contract!ContractNext
<1>2. ASSUME NEW l \in Listings, UpdateListing(l) PROVE Contract!ContractNext
  BY <1>2, EditFollowsContract DEF Contract!ContractNext
<1> QED
  BY <1>1, <1>2, UpdateFollowsContract, RowsAreWritten

\* A key without a row has no address.
NewIsBlank == \A l \in Listings : listings[l].status = "none" => listings[l].slug = "none"

\* No step takes a row away.
LEMMA NextIsBlank ==
    ASSUME ListingInv, NewIsBlank, [Next]_vars
    PROVE  NewIsBlank'
<1>1. listings \in [Listings -> ListingRow]
  BY DEF ListingInv, ListingTypeOK
<1>2. ASSUME NEW l \in Listings, CreateDraft(l) PROVE NewIsBlank'
  BY <1>1, <1>2 DEF CreateDraft, NoListing, NewIsBlank
<1>3. ASSUME NEW l \in Listings, UpdateListing(l) PROVE NewIsBlank'
  BY <1>3, EditFollowsContract DEF NewIsBlank
<1>4. ASSUME NEW r \in Requests, TransitionUpdate(r) PROVE NewIsBlank'
  <2> DEFINE l == request[r].listing
  <2>1. /\ request[r] \in TransitionRequest /\ Informed(request[r]) /\ request[r].pc = "update"
    BY <1>4 DEF TransitionUpdate, ListingInv, ListingTypeOK, RequestsHold
  <2>2. /\ l \in Listings /\ request[r].seen \in SeenRow /\ request[r].action \in ListingActions
        /\ CanApply(request[r].seen.status, request[r].action)
    BY <2>1 DEF Informed, TransitionRequest
  <2>3. Patched(r).status # "none"
    BY <1>1, <2>2, PatchColumns, Table DEF Patched, ListingStatuses
  <2>4. listings' = listings \/ listings' = [listings EXCEPT ![l] = Patched(r)]
    BY <1>4 DEF TransitionUpdate
  <2> QED
    BY <1>1, <2>3, <2>4 DEF NewIsBlank
<1> QED
  BY <1>2, <1>3, <1>4, RowsAreWritten DEF NewIsBlank

\* The contract keeps the date of a sale and the address.
LEMMA ContractKeepsDates ==
    ASSUME ListingInv, SoldAtTracksSold, [Contract!ContractNext]_listings
    PROVE  SoldAtTracksSold'
<1>1. listings \in [Listings -> ListingRow]
  BY DEF ListingInv, ListingTypeOK
<1> SUFFICES ASSUME NEW x \in Listings
             PROVE  listings'[x].soldAt <=> listings'[x].status = "sold"
  BY DEF SoldAtTracksSold
<1>2. listings[x] \in ListingRow /\ (listings[x].soldAt <=> listings[x].status = "sold")
  BY <1>1 DEF SoldAtTracksSold
<1>3. ASSUME NEW l \in Listings, Contract!Create(l)
      PROVE  listings'[x].soldAt <=> listings'[x].status = "sold"
  BY <1>1, <1>2, <1>3 DEF Contract!Create, Contract!Becomes, Contract!NoRow
<1>4. ASSUME NEW l \in Listings, Contract!Edit(l)
      PROVE  listings'[x].soldAt <=> listings'[x].status = "sold"
  <2>1. PICK title \in Titles, filled \in BOOLEAN :
          listings' = [listings EXCEPT ![l] = [listings[l] EXCEPT !.title = title, !.filled = @ \/ filled]]
    BY <1>4 DEF Contract!Edit, Contract!Becomes
  <2>2. listings'[x].soldAt = listings[x].soldAt /\ listings'[x].status = listings[x].status
    BY <1>1, <2>1 DEF ListingRow
  <2> QED
    BY <1>2, <2>2
<1>5. ASSUME NEW l \in Listings, Contract!Publish(l)
      PROVE  listings'[x].soldAt <=> listings'[x].status = "sold"
  <2>1. PICK slug : listings' = [listings EXCEPT ![l] = [listings[l] EXCEPT
                                   !.status = "published", !.slug = slug, !.publishedAt = TRUE]]
    BY <1>5 DEF Contract!Publish, Contract!Becomes
  <2>2. listings[l].status = "draft" /\ (listings[l].soldAt <=> listings[l].status = "sold")
    BY <1>5 DEF Contract!Publish, SoldAtTracksSold
  <2>3. x = l => listings'[x].soldAt = listings[x].soldAt /\ listings'[x].status = "published"
    BY <1>1, <2>1 DEF ListingRow
  <2>4. x # l => listings'[x] = listings[x]
    BY <1>1, <2>1
  <2> QED
    BY <1>2, <2>2, <2>3, <2>4
<1>6. ASSUME NEW l \in Listings, NEW from, NEW to, Contract!Move(l, from, to)
      PROVE  listings'[x].soldAt <=> listings'[x].status = "sold"
  <2>1. listings' = [listings EXCEPT ![l] = [listings[l] EXCEPT !.status = to, !.soldAt = (to = "sold")]]
    BY <1>6 DEF Contract!Move, Contract!Becomes
  <2>2. x = l => listings'[x].soldAt = (to = "sold") /\ listings'[x].status = to
    BY <1>1, <2>1 DEF ListingRow
  <2>3. x # l => listings'[x] = listings[x]
    BY <1>1, <2>1
  <2> QED
    BY <1>2, <2>2, <2>3
<1>7. UNCHANGED listings => (listings'[x].soldAt <=> listings'[x].status = "sold")
  BY <1>2
<1> QED
  BY <1>3, <1>4, <1>5, <1>6, <1>7
  DEF Contract!ContractNext, Contract!Return, Contract!Pause, Contract!Sell, Contract!Archive,
      Contract!Relist

\* An address that is given stays.
LEMMA ContractKeepsAddress ==
    ASSUME ListingInv, NewIsBlank, [Contract!ContractNext]_listings,
           NEW x \in Listings, listings[x].slug # "none"
    PROVE  listings'[x].slug = listings[x].slug
<1>1. listings \in [Listings -> ListingRow]
  BY DEF ListingInv, ListingTypeOK
<1>2. ASSUME NEW l \in Listings, Contract!Create(l) PROVE listings'[x].slug = listings[x].slug
  <2>1. x # l
    BY <1>2 DEF Contract!Create, NewIsBlank
  <2> QED
    BY <1>1, <1>2, <2>1 DEF Contract!Create, Contract!Becomes
<1>3. ASSUME NEW l \in Listings, Contract!Edit(l) PROVE listings'[x].slug = listings[x].slug
  BY <1>1, <1>3 DEF Contract!Edit, Contract!Becomes, ListingRow
<1>4. ASSUME NEW l \in Listings, Contract!Publish(l) PROVE listings'[x].slug = listings[x].slug
  BY <1>1, <1>4 DEF Contract!Publish, Contract!Becomes, ListingRow
<1>5. ASSUME NEW l \in Listings, NEW from, NEW to, Contract!Move(l, from, to)
      PROVE  listings'[x].slug = listings[x].slug
  BY <1>1, <1>5 DEF Contract!Move, Contract!Becomes, ListingRow
<1> QED
  BY <1>2, <1>3, <1>4, <1>5
  DEF Contract!ContractNext, Contract!Return, Contract!Pause, Contract!Sell, Contract!Archive,
      Contract!Relist


\* Catalog!CurrentStepsFollowContract: a step of any kind from a state in which every
\* transition finds the row as it read it, and the dates of sales are right, is a step of
\* ListingContract, whatever happened before.
THEOREM CurrentStepsFollow == Spec => CurrentStepsFollowContract
<1>1. ListingInv /\ [Next]_vars
        => [TransitionsAreCurrent /\ SoldAtTracksSold => Contract!ContractNext]_listings
  BY StepFollowsContract
<1> QED
  BY <1>1, ListingsHold, PTL DEF Spec, CurrentStepsFollowContract

\* While every transition is decided on the row as it is, the listings of any number
\* of sellers' requests implement ListingContract (Catalog!ImplementsContract), keep
\* their address (SlugIsStable) and have the date of a sale while it is one
\* (SoldAtTracksSold).
THEOREM CurrentTransitionsImplementContract ==
    Spec /\ []TransitionsAreCurrent => ImplementsContract /\ SlugIsStable /\ []SoldAtTracksSold
<1> DEFINE Inv == SoldAtTracksSold /\ NewIsBlank
<1>1. Init => Contract!ContractInit /\ Inv
  BY DEF Init, ListingInit, NoListing, Contract!ContractInit, Contract!NoRow, SoldAtTracksSold,
         NewIsBlank
<1>2. ListingInv /\ Inv /\ TransitionsAreCurrent /\ [Next]_vars
        => [Contract!ContractNext]_listings /\ Inv'
  BY StepFollowsContract, ContractKeepsDates, NextIsBlank
<1>3. ListingInv /\ Inv /\ TransitionsAreCurrent /\ [Next]_vars
        => [\A l \in Listings :
              listings[l].slug # "none" => listings'[l].slug = listings[l].slug]_vars
  BY <1>2, ContractKeepsAddress
<1> HIDE DEF Inv
<1>4. Inv => SoldAtTracksSold
  BY DEF Inv
<1> QED
  BY <1>1, <1>2, <1>3, <1>4, ListingsHold, PTL
  DEF Spec, ImplementsContract, Contract!ContractSpec, SlugIsStable

-----------------------------------------------------------------------------
(* When a transition stops being current *)

\* Another transition has read the row that this one is about to update.
Overlaps(r) ==
    \E q \in Requests \ {r} :
        /\ request[q].pc \in {"gate", "update"}
        /\ request[q].listing = request[r].listing

\* A change of one request that does not read keeps what it decides on.
LEMMA OthersStayCurrent ==
    ASSUME ListingInv, TransitionsAreCurrent, UNCHANGED listings,
           \A r \in Requests :
             request'[r].pc \in {"gate", "update"} =>
               /\ request[r].pc \in {"gate", "update"}
               /\ request'[r].listing = request[r].listing
               /\ request'[r].seen = request[r].seen
    PROVE  TransitionsAreCurrent'
BY DEF TransitionsAreCurrent, Current

\* A request that reads has the row as it is.
LEMMA BeginIsCurrent ==
    ASSUME ListingInv, TransitionsAreCurrent, NEW r \in Requests, NEW l \in Listings,
           NEW action \in ListingActions, TransitionBegin(r, l, action)
    PROVE  TransitionsAreCurrent'
<1>1. listings[l] \in ListingRow /\ request \in [Requests -> TransitionRequest] /\ UNCHANGED listings
  BY DEF TransitionBegin, ListingInv, ListingTypeOK
<1>2. request'[r].listing = l /\ request'[r].seen = SeenOf(listings[l])
  BY <1>1 DEF TransitionBegin
<1>3. Current(request'[r], listings[l])
  BY <1>1, <1>2 DEF Current, SeenOf, NothingSeen
<1>4. \A q \in Requests \ {r} : request'[q] = request[q]
  BY <1>1 DEF TransitionBegin
<1> QED
  BY <1>1, <1>2, <1>3, <1>4 DEF TransitionsAreCurrent, Current

\* An update that overlaps no other changes the row under nobody.
LEMMA UpdateStaysCurrent ==
    ASSUME ListingInv, TransitionsAreCurrent, NEW r \in Requests, TransitionUpdate(r), ~Overlaps(r)
    PROVE  TransitionsAreCurrent'
<1>1. /\ request \in [Requests -> TransitionRequest] /\ listings \in [Listings -> ListingRow]
      /\ request[r].pc = "update"
  BY DEF TransitionUpdate, ListingInv, ListingTypeOK
<1>2. request'[r].pc \notin {"gate", "update"}
  <2> DEFINE q == [RequestIdle EXCEPT !.pc = "invalidate", !.listing = request[r].listing]
  <2>1. RequestIdle.pc = "idle" /\ q.pc = "invalidate"
    BY DEF RequestIdle
  <2> HIDE DEF q
  <2>2. request' = [request EXCEPT ![r] = q] \/ request' = [request EXCEPT ![r] = RequestIdle]
    BY DEF TransitionUpdate, q
  <2> QED
    BY <1>1, <2>1, <2>2
<1>3. ASSUME NEW q \in Requests, q # r, request'[q].pc \in {"gate", "update"}
      PROVE  Current(request'[q], listings'[request'[q].listing])
  <2>1. request'[q] = request[q]
    BY <1>1, <1>3 DEF TransitionUpdate
  <2>2. request[q].listing # request[r].listing
    BY <1>3, <2>1 DEF Overlaps
  <2>3. request[q].listing \in Listings
    BY <1>3, <2>1 DEF ListingInv, RequestsHold, Informed
  <2>4. listings'[request[q].listing] = listings[request[q].listing]
    BY <1>1, <2>2, <2>3 DEF TransitionUpdate
  <2> QED
    BY <1>3, <2>1, <2>4 DEF TransitionsAreCurrent
<1>4. ASSUME NEW q \in Requests, request'[q].pc \in {"gate", "update"}
      PROVE  Current(request'[q], listings'[request'[q].listing])
  BY <1>2, <1>3, <1>4
<1> QED
  BY <1>4 DEF TransitionsAreCurrent, Current

\* A new draft or an edit changes no column that a request decides on.
LEMMA EditStaysCurrent ==
    ASSUME ListingInv, TransitionsAreCurrent, NEW l \in Listings, CreateDraft(l) \/ UpdateListing(l)
    PROVE  TransitionsAreCurrent'
<1>1. UNCHANGED request /\ listings \in [Listings -> ListingRow]
  BY DEF CreateDraft, UpdateListing, ListingInv, ListingTypeOK
<1>2. \A r \in Requests : request[r].pc \in {"gate", "update"} =>
        request[r].listing \in Listings /\ listings[request[r].listing].status # "none"
  BY DEF ListingInv, RequestsHold, Informed, StillThere
<1>3. CASE CreateDraft(l)
  <2>1. \A x \in Listings : listings[x].status # "none" => listings'[x] = listings[x]
    BY <1>1, <1>3 DEF CreateDraft
  <2> QED
    BY <1>1, <1>2, <2>1 DEF TransitionsAreCurrent, Current
<1>4. CASE UpdateListing(l)
  BY <1>1, <1>2, <1>4, EditFollowsContract DEF TransitionsAreCurrent, Current
<1> QED
  BY <1>3, <1>4

\* Every other step.
LEMMA NextStaysCurrent ==
    ASSUME ListingInv, TransitionsAreCurrent, [Next]_vars,
           \A r \in Requests : TransitionUpdate(r) => ~Overlaps(r)
    PROVE  TransitionsAreCurrent'
<1>1. request \in [Requests -> TransitionRequest]
  BY DEF ListingInv, ListingTypeOK
<1>2. ASSUME NEW r \in Requests, RequestEnds(r) PROVE TransitionsAreCurrent'
  BY <1>1, <1>2, OthersStayCurrent DEF RequestEnds, RequestIdle
<1>3. ASSUME NEW r \in Requests, PublishGate(r) PROVE TransitionsAreCurrent'
  <2>1. request' = [request EXCEPT ![r] = [request[r] EXCEPT !.pc = "update"]]
        \/ request' = [request EXCEPT ![r] = RequestIdle]
    BY <1>3 DEF PublishGate
  <2>2. request[r].pc = "gate" /\ UNCHANGED listings
    BY <1>3 DEF PublishGate
  <2>3. /\ \A q \in Requests \ {r} : request'[q] = request[q]
        /\ request'[r].pc \in {"gate", "update"} =>
             request'[r].listing = request[r].listing /\ request'[r].seen = request[r].seen
    BY <1>1, <2>1 DEF RequestIdle, TransitionRequest
  <2> QED
    BY <2>2, <2>3, OthersStayCurrent
<1>4. ASSUME EntitlementChanges PROVE TransitionsAreCurrent'
  <2>1. \A r \in Requests : /\ request'[r].pc = request[r].pc
                            /\ request'[r].listing = request[r].listing
                            /\ request'[r].seen = request[r].seen
    BY <1>1, <1>4 DEF EntitlementChanges, TransitionRequest
  <2> QED
    BY <1>4, <2>1, OthersStayCurrent DEF EntitlementChanges
<1>5. CASE UNCHANGED <<listings, request>>
  BY <1>5 DEF TransitionsAreCurrent, Current
<1>6. CASE RowStep
  BY <1>2, <1>3, <1>4, <1>6, BeginIsCurrent, UpdateStaysCurrent, EditStaysCurrent
  DEF RowStep, RequestFails
<1> QED
  BY <1>2, <1>5, <1>6
  DEF Next, TransitionInvalidates, TransitionDoesNotInvalidate, CacheStep, listingVars, vars

\* Where the proviso of CurrentStepsFollowContract is lost: a transition decides on a row
\* that is not there any more only if another one updates the same row between its read and
\* its update.  No edit, new draft, gate, failure, change of a subscription or reader, and no
\* request about another listing, ever makes it stale.
THEOREM TransitionsGoStaleOnlyByOverlap ==
    Spec => /\ TransitionsAreCurrent
            /\ [][TransitionsAreCurrent =>
                     \/ TransitionsAreCurrent'
                     \/ \E r \in Requests : TransitionUpdate(r) /\ Overlaps(r)]_vars
<1>1. Init => TransitionsAreCurrent
  BY DEF Init, ListingInit, RequestIdle, TransitionsAreCurrent
<1>2. ListingInv /\ [Next]_vars
        => [TransitionsAreCurrent =>
              \/ TransitionsAreCurrent'
              \/ \E r \in Requests : TransitionUpdate(r) /\ Overlaps(r)]_vars
  BY NextStaysCurrent
<1> QED
  BY <1>1, <1>2, ListingsHold, PTL DEF Spec
=============================================================================
