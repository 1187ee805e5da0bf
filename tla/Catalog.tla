------------------------------- MODULE Catalog -------------------------------
(***************************************************************************)
(* The listings of a seller and the public cache in front of them.  A      *)
(* committed transition invalidates the cache in a later step of the same  *)
(* request; readers fill the cache in between as they like.  The cache key *)
(* of a listing is its id (detail-id:<id>).                                *)
(***************************************************************************)
EXTENDS ListingLifecycle, Integers

CONSTANTS
    Fills,      \* reads of the cache that may be in flight together
    Ttl,        \* CATALOG_TTL_MS in clock ticks
    MaxTime     \* bound: the clock stops here

ASSUME CatalogAssumption == Ttl \in Nat \ {0} /\ MaxTime \in Nat

VARIABLES
    cache, fill, clock,
    lastShown   \* history variable: when the database last showed a view

\* The public detail shows published and sold listings and nothing else.
Hidden == [status |-> "hidden", title |-> "none"]

NoView == [status |-> "none", title |-> "none"]

Views == [status: {"published", "sold"}, title: Titles] \union {Hidden}

Cache == INSTANCE CatalogCache WITH
    Keys <- Listings, Values <- Views, NoValue <- NoView

\* fetchPublicDetail
View(l) ==
    IF listings[l].status \in {"published", "sold"}
    THEN [status |-> listings[l].status, title |-> listings[l].title]
    ELSE Hidden

Never == -1

cacheVars == <<cache, fill, clock>>

vars == <<listingVars, cacheVars, lastShown>>

Init ==
    /\ ListingInit
    /\ Cache!CacheInit
    /\ lastShown = [l \in Listings |-> [v \in Views |-> Never]]

\* A view that this step ends was last shown now.
Remember ==
    lastShown' = [l \in Listings |->
                    IF View(l)' = View(l) THEN lastShown[l]
                    ELSE [lastShown[l] EXCEPT ![View(l)] = clock]]

RowStep ==
    /\ \/ \E l \in Listings : CreateDraft(l) \/ UpdateListing(l)
       \/ \E r \in Requests, l \in Listings, action \in ListingActions :
            TransitionBegin(r, l, action)
       \/ \E r \in Requests : PublishGate(r) \/ TransitionUpdate(r) \/ RequestFails(r)
       \/ EntitlementChanges
    /\ Remember
    /\ UNCHANGED cacheVars

\* Mutant: the cache is cleared before the update and not after it.
AnswerOnly(r) ==
    /\ request[r].pc = "invalidate"
    /\ RequestEnds(r)
    /\ UNCHANGED <<cacheVars, lastShown>>

TransitionInvalidates(r) ==
    /\ request[r].pc = "invalidate"
    /\ RequestEnds(r)
    /\ Cache!InvalidateCatalog
    /\ UNCHANGED lastShown

\* The commit is reported as an error (the connection was lost) or happened in
\* another server process: this process does not invalidate.
TransitionDoesNotInvalidate(r) ==
    /\ request[r].pc = "invalidate"
    /\ RequestEnds(r)
    /\ Cache!MissInvalidation
    /\ UNCHANGED lastShown

CacheStep ==
    /\ \/ \E f \in Fills : \E l \in Listings : Cache!FillBegin(f, l)
       \/ \E f \in Fills : Cache!FillRead(f, View(fill[f].key))
       \/ \E f \in Fills : Cache!FillStore(f)
       \/ \E f \in Fills : Cache!FillFails(f)
       \/ Cache!ClockTick
    /\ UNCHANGED <<listingVars, lastShown>>

Next ==
    \/ RowStep
    \/ \E r \in Requests : TransitionInvalidates(r)
    \/ \E r \in Requests : TransitionDoesNotInvalidate(r)
    \/ CacheStep

Spec == Init /\ [][Next]_vars

-----------------------------------------------------------------------------
(* Invariants of every interleaving of requests, edits and readers *)

LastShownTypeOK == lastShown \in [Listings -> [Views -> Int]]

\* Types of the rows, the requests, the cache and the history.
TypeOK == ListingTypeOK /\ Cache!CacheTypeOK /\ LastShownTypeOK

\* A listing that is or could be made public again has its address and its date, and a
\* sold one the date of its sale, although updates that decided on older rows may have
\* written anything since.
StampsFollowStatus ==
    \A l \in Listings :
        /\ listings[l].status \in {"published", "paused", "sold"} =>
             listings[l].slug # "none" /\ listings[l].publishedAt
        /\ listings[l].status = "sold" => listings[l].soldAt

\* A publish past the gate is not refused by the CHECK constraints: nothing an
\* edit does between the read and the update makes the listing incomplete.
GateSuffices ==
    \A r \in Requests : request[r].pc = "update" => ChecksHold(Patched(r))

\* Every way into the catalogue passes the entitlement gate: a request about to
\* publish belongs to a seller who had a subscription at some moment since it
\* began.
PublishIsEntitled ==
    \A r \in Requests :
        request[r].pc = "update" /\ NextStatus(request[r].action) = "published"
            => request[r].wasEntitled

\* "even a missed invalidation self-heals": whatever a reader is served was the
\* truth less than one TTL ago.
BoundedStaleness ==
    \A l \in Listings :
        Cache!Live(l) /\ cache[l].value # View(l)
            => lastShown[l][cache[l].value] > clock - Ttl

\* A reader is served an outdated view only while the request that changed it
\* has not invalidated yet, or if the value was in hand at an invalidation.
StaleOnlyIfOvertaken ==
    \A l \in Listings :
        Cache!Live(l) /\ cache[l].value # View(l)
            => \/ cache[l].overtaken
               \/ \E r \in Requests : /\ request[r].pc = "invalidate"
                                      /\ request[r].listing = l

-----------------------------------------------------------------------------
(* Action properties *)

\* "A public-field edit is only ever visible after a pause, edit, republish
\* cycle": while a listing stays visible its content does not change.
VisibleContentIsFrozen ==
    [][\A l \in Listings :
         View(l) # Hidden /\ View(l)' # Hidden => View(l)'.title = View(l).title]_vars

\* The public address is "generated once and never changed afterwards".
SlugIsStable ==
    [][\A l \in Listings :
         listings[l].slug # "none" => listings'[l].slug = listings[l].slug]_vars

-----------------------------------------------------------------------------
(* The contract, which requests keep if they find the row as they read it  *)

\* As documented: "soldAt is server-owned and tracks ONLY the current sold state".
SoldAtTracksSold ==
    \A l \in Listings : listings[l].soldAt <=> listings[l].status = "sold"

\* What a request decides on is still so.
Current(q, row) ==
    q.seen.status = row.status /\ q.seen.slug = row.slug /\ q.seen.publishedAt = row.publishedAt

TransitionsAreCurrent ==
    \A r \in Requests :
        request[r].pc \in {"gate", "update"} => Current(request[r], listings[request[r].listing])

Contract == INSTANCE ListingContract WITH row <- listings

\* A request, an edit or whatever else writes a row takes it along one step of the
\* lifecycle, but for requests that decided on a row that is no longer so, and rows
\* with a sale's date that such a request left behind.
CurrentStepsFollowContract ==
    [][TransitionsAreCurrent /\ SoldAtTracksSold => Contract!ContractNext]_listings

\* The steps of a transition are one step of the contract, whatever edits, readers,
\* failures and other listings' requests come in between.
ImplementsContract == Contract!ContractSpec
=============================================================================
