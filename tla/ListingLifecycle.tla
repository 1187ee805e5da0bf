-------------------------- MODULE ListingLifecycle --------------------------
(***************************************************************************)
(* The listing rows and the requests that change them                      *)
(* (src/modules/catalog/listing-service.ts).  A transition is four steps:  *)
(* read the row, read the seller's entitlement, update by id, invalidate   *)
(* the public cache.  The update carries no status predicate, so requests  *)
(* of one seller (two tabs, a retry) overwrite each other.  An edit is one *)
(* statement whose predicate Postgres evaluates on the committed row.      *)
(***************************************************************************)
EXTENDS ListingStatus

CONSTANTS
    Listings,   \* primary keys a listings row may get
    Titles,     \* titles, and the human part of a slug
    Requests    \* transition requests that may be in flight together

ASSUME ListingAssumption == "none" \notin Listings \union Titles

VARIABLES
    listings,   \* [Listings -> row]
    entitled,   \* the seller, who is active, has a subscription or needs none
    request     \* [Requests -> what a request in flight has read]

listingVars == <<listings, entitled, request>>

\* filled: no mandatory column is NULL.  A slug is the title it was built from
\* (its code is that of the row's id); publishedAt and soldAt only matter as
\* NULL or not.
ListingRow ==
    [ status: ListingStatuses \union {"none"},
      title: Titles \union {"none"},
      filled: BOOLEAN,
      slug: Titles \union {"none"},
      publishedAt: BOOLEAN,
      soldAt: BOOLEAN ]

\* The columns a transition goes on to use.
SeenRow ==
    [ status: ListingStatuses \union {"none"},
      title: Titles \union {"none"},
      filled: BOOLEAN,
      slug: Titles \union {"none"},
      publishedAt: BOOLEAN ]

NothingSeen ==
    [ status |-> "none", title |-> "none", filled |-> FALSE, slug |-> "none",
      publishedAt |-> FALSE ]

NoListing ==
    [ status |-> "none", title |-> "none", filled |-> FALSE,
      slug |-> "none", publishedAt |-> FALSE, soldAt |-> FALSE ]

\* wasEntitled is a history variable: the seller was entitled at some moment
\* since the request began.  No action reads it.
RequestIdle ==
    [ pc |-> "idle", listing |-> "none", action |-> "none",
      seen |-> NothingSeen, wasEntitled |-> FALSE ]

TransitionRequest ==
    [ pc: {"idle", "gate", "update", "invalidate"},
      listing: Listings \union {"none"},
      action: ListingActions \union {"none"},
      seen: SeenRow,
      wasEntitled: BOOLEAN ]

ListingTypeOK ==
    /\ listings \in [Listings -> ListingRow]
    /\ entitled \in BOOLEAN
    /\ request \in [Requests -> TransitionRequest]

ListingInit ==
    /\ listings = [l \in Listings |-> NoListing]
    /\ entitled \in BOOLEAN
    /\ request = [r \in Requests |-> RequestIdle]

-----------------------------------------------------------------------------
(* createDraftListing and updateListing *)

CreateDraft(l) ==
    /\ listings[l].status = "none"
    /\ \E title \in Titles, filled \in BOOLEAN :
         listings' = [listings EXCEPT
                        ![l] = [NoListing EXCEPT !.status = "draft", !.title = title,
                                                 !.filled = filled]]
    /\ UNCHANGED <<entitled, request>>

\* Mutant: an empty field is stored as NULL.
UpdateClearsFields(l) ==
    /\ IsEditable(listings[l].status)
    /\ \E title \in Titles, filled \in BOOLEAN :
         listings' = [listings EXCEPT ![l].title = title,
                                      ![l].filled = filled]
    /\ UNCHANGED <<entitled, request>>

\* The schema turns an empty field into undefined, which the update skips: a
\* column that was filled stays filled.
UpdateListing(l) ==
    /\ IsEditable(listings[l].status)
    /\ \E title \in Titles, filled \in BOOLEAN :
         listings' = [listings EXCEPT ![l].title = title,
                                      ![l].filled = @ \/ filled]
    /\ UNCHANGED <<entitled, request>>

-----------------------------------------------------------------------------
(* transitionListing *)

SeenOf(row) == [column \in DOMAIN NothingSeen |-> row[column]]

\* Mutant: only the first publish is gated.
BeginGatesPublishOnly(r, l, action) ==
    /\ request[r].pc = "idle"
    /\ CanApply(listings[l].status, action)
    /\ request' = [request EXCEPT
                     ![r] = [ pc |-> IF action = "publish" THEN "gate" ELSE "update",
                              listing |-> l, action |-> action,
                              seen |-> SeenOf(listings[l]), wasEntitled |-> entitled ]]
    /\ UNCHANGED <<listings, entitled>>

\* The row is read and the table consulted; an illegal action throws.
TransitionBegin(r, l, action) ==
    /\ request[r].pc = "idle"
    /\ CanApply(listings[l].status, action)
    /\ request' = [request EXCEPT
                     ![r] = [ pc |-> IF NextStatus(action) = "published"
                                     THEN "gate" ELSE "update",
                              listing |-> l, action |-> action,
                              seen |-> SeenOf(listings[l]), wasEntitled |-> entitled ]]
    /\ UNCHANGED <<listings, entitled>>

\* The subscription is read now; completeness is judged on the row read before.
\* (The schema's other rules, such as the department, fail as RequestFails.)
PublishGate(r) ==
    /\ request[r].pc = "gate"
    /\ request' = [request EXCEPT
                     ![r] = IF entitled /\ @.seen.filled
                            THEN [@ EXCEPT !.pc = "update"] ELSE RequestIdle]
    /\ UNCHANGED <<listings, entitled>>

\* chk_listing_published_complete and chk_listing_published_at.
ChecksHold(row) == row.status = "published" => row.filled /\ row.publishedAt

FirstPublish(seen, action) == NextStatus(action) = "published" /\ seen.slug = "none"

\* Mutants: the action is written where its target belongs; a sale is stamped
\* only if it leaves the catalogue; relisting gives the public address back.
PatchWritesAction(row, seen, action) ==
    [row EXCEPT
       !.status = action,
       !.slug = IF FirstPublish(seen, action) THEN seen.title ELSE @]

PatchStampsFromPublished(row, seen, action) ==
    [row EXCEPT
       !.status = NextStatus(action),
       !.slug = IF FirstPublish(seen, action) THEN seen.title ELSE @,
       !.publishedAt = @ \/ NextStatus(action) = "published",
       !.soldAt = IF NextStatus(action) = "sold" THEN @ \/ seen.status = "published"
                  ELSE @ /\ seen.status # "sold"]

PatchRelistDropsSlug(row, seen, action) ==
    [row EXCEPT
       !.status = NextStatus(action),
       !.slug = IF FirstPublish(seen, action) THEN seen.title
                ELSE IF action = "relist" THEN "none" ELSE @,
       !.publishedAt = @ \/ NextStatus(action) = "published",
       !.soldAt = NextStatus(action) = "sold" \/ (@ /\ seen.status # "sold")]

\* What the update sets, judged by the row that was read.  The update of a
\* first publish leaves soldAt alone.
TransitionPatch(row, seen, action) ==
    [row EXCEPT
       !.status = NextStatus(action),
       !.slug = IF FirstPublish(seen, action) THEN seen.title ELSE @,
       !.publishedAt = @ \/ (NextStatus(action) = "published" /\ ~seen.publishedAt),
       !.soldAt = IF NextStatus(action) = "sold" THEN TRUE
                  ELSE @ /\ (seen.status # "sold" \/ FirstPublish(seen, action))]

Patched(r) ==
    TransitionPatch(listings[request[r].listing], request[r].seen, request[r].action)

\* Update by id, or a constraint refuses it and the request fails.
TransitionUpdate(r) ==
    /\ request[r].pc = "update"
    /\ IF ChecksHold(Patched(r))
       THEN /\ listings' = [listings EXCEPT ![request[r].listing] = Patched(r)]
            /\ request' = [request EXCEPT
                           ![r] = [RequestIdle EXCEPT !.pc = "invalidate",
                                                      !.listing = request[r].listing]]
       ELSE /\ request' = [request EXCEPT ![r] = RequestIdle]
            /\ UNCHANGED listings
    /\ UNCHANGED entitled

\* The request has its answer, or is abandoned.
RequestEnds(r) ==
    /\ request' = [request EXCEPT ![r] = RequestIdle]
    /\ UNCHANGED <<listings, entitled>>

RequestFails(r) == request[r].pc \in {"gate", "update"} /\ RequestEnds(r)

\* The subscription begins, lapses or is renewed.  (Nothing changes the status
\* of a seller, and no seller who is not active passes the gate.)
EntitlementChanges ==
    /\ entitled' = ~entitled
    /\ request' = [r \in Requests |->
                     [request[r] EXCEPT
                        !.wasEntitled = @ \/ (entitled' /\ request[r].pc # "idle")]]
    /\ UNCHANGED listings
=============================================================================
