# A TLA+ model of reworn

reworn is a marketplace for second-hand fashion: a Next.js server, a Postgres
database reached through Prisma, an object store for images and a hosted payment
provider. The server keeps almost no state in memory. What makes it hard is that every
request is a handful of database statements under READ COMMITTED, that requests,
webhook deliveries, cron runs and admin actions interleave between those statements,
and that the outside world (provider, browser, cron) repeats, reorders and abandons
calls. The modules here model those interleavings, beside the two places that do keep
state of their own: the browser's forms, which save, retry and roll back, and the small
in-memory stores of the server.

Paths below are relative to the repository root.

## 1. Inventory

| Part | Code | State | Operations |
|---|---|---|---|
| Subscription lifecycle | `src/modules/subscription/` | `subscriptions`, `subscription_events` | create pending, activate, sweep, schedule cancellation, resume |
| Checkout | `src/modules/payment/checkout-service.ts` | `payment_attempts` | `initiateCheckout`: pending row under an advisory lock, reuse or open a session |
| Webhook | `src/modules/payment/webhook-service.ts`, `subscription/provider-events.ts` | `payment_events`, `payment_attempts`, `subscriptions` | one transaction per delivery: record, apply, activate |
| Provider | `src/modules/payment/provider.ts` and its mock | outside | opens sessions, reports outcomes any number of times |
| Entitlement | `subscription/feature-gating.ts`, `catalog/entitlement.ts` | none (reads) | may this seller publish |
| Listing lifecycle | `catalog/listing-service.ts`, `listing-status.ts` | `listings` | create, edit, publish, pause, republish, sell, archive, relist |
| Catalogue cache | `lib/catalog-cache.ts` | one in-process map | fill, invalidate |
| Public catalogue | `catalog/public-catalog.ts`, `cursor.ts` | none (reads) | keyset pages, detail, related |
| Images | `catalog/image-service.ts`, `image-reconcile.ts` | `listing_images`, object store | add, delete, reorder, reconcile |
| Homepage media | `modules/homepage-media/` | `homepage_images`, object store | replace image, change alt text |
| Messaging | `modules/messaging/service.ts` | `conversations`, `messages` | get-or-create, send, page, inbox |
| Saved items | `modules/saved/service.ts` | `saved_items` | save, unsave, page |
| Accounts and roles | `modules/auth/` | `users`, `user_roles`, profiles | provision, grant, revoke, guards |
| Rate limiting | `lib/security/rate-limit.ts` | one in-process map | check, sweep of old buckets |
| Draft controller | `components/seller/draft-controller.ts` | browser memory | bootstrap draft, autosave, publish |
| Request hardening | `lib/security/`, `middleware.ts`, `lib/http/` | none | CSRF, headers, safe redirects, body limits |

How the parts meet:

* Checkout, webhook, sweep and the owner's requests share the subscription tables and
  nothing else. Checkout calls the provider between two statements; the provider calls
  the webhook whenever it likes.
* Publishing a listing reads entitlement, which reads the live subscription row.
* Every successful transition of a listing clears the catalogue cache; fills of the
  cache read the same tables. Edits are allowed in `draft` and `paused` only, by one
  statement with its status predicate, so they change nothing that a cached page shows.
  Image changes ask for the same statuses, but in a check apart: one that passed it can
  still commit after a publish, and no cache is cleared for it. `Catalog` shows titles, not
  photos; a cached page may show an outdated cover for the rest of its lifetime.
* Images live twice, as rows and as objects, and no transaction spans the two. Listing
  photos and homepage images share one bucket, and a command removes from it what no
  listing row names.
* Messaging and saved items read whether a listing is published, at the moment of the
  request: a conversation or a saved item outlives the listing's publication.
* The draft controller is a client of the listing and image operations and retries them.
* Every request passes the middleware: origin check, then the limiter for the sensitive
  paths. Server actions call the same limiter with the user's id.

Hard behaviour, and what is right for each part (the full list, line by line, is
`hazards` in `PROJECT.json`):

* **Subscriptions, checkout, webhook.** Rows are read in one statement and written by
  primary key in another. Right means: one live and one pending row per seller; rows
  move only along the transition table; access is paid for, once, and lasts as long as
  it was paid for; every outcome is recorded exactly once; overdue rows leave.
* **Listings.** `transitionListing` decides on a row it read and updates by id. Right
  means: steps of the table only; a public listing is complete; a public address never
  changes; `soldAt` is set exactly while sold.
* **Cache.** A fill spans an `await`. Right means: what was hidden is not served after
  the request that hid it has returned.
* **Images.** Upload, row and delete are three steps in two stores. Right means: no row
  without an object; positions form a permutation; the limit holds; the reconciler
  never removes a live object.
* **Messaging.** Sends are retried with a client token and conversations are
  get-or-create. Right means: one conversation per listing and buyer, one message per
  token, pages that neither skip nor repeat.
* **Accounts and roles.** Provisioning runs on every sign-in and may run twice at once.
  Revoke counts the remaining admins before it deletes. Right means: one profile, one
  buyer role and one audit entry for it; an admin remains.
* **Saved items.** Hearts are optimistic. Right means: a heart at rest shows the row.
* **Public grid.** Pages come from a cache, cursors from a URL. Right means: a walk
  shows what was there throughout exactly once; the filter bar ends where the user's
  changes lead.
* **Draft controller.** Saves overlap edits. Right means: the last edit is saved, one
  draft is created, publish publishes what is on the screen.
* **Rate limiting.** A sweep prunes every identity's timestamps with the window of
  whoever calls. Right means: exactly the limit passes in a window.

## 2. Plan

| Group | Modules | State of it |
|---|---|---|
| Billing (section 3) | `SubscriptionStatus`, `SubscriptionStore`, `SubscriptionLifecycle`, `Payments`, `Billing`, abstract: `SubscriptionContract` | checked; safety proved, paid periods and access with the hypotheses stated there, the contract but for stale writes |
| Catalogue (section 4) | `ListingStatus`, `ListingLifecycle`, `CatalogCache`, `Catalog`, abstract: `ListingContract` | checked and proved; the contract but for stale writes |
| Media (section 5) | `ImageBucket`, `ImageChecks`, `ListingImages`, `HomepageMedia`, `Media` | checked; everything the run checks is proved |
| Members (section 6) | `Keyset`, `Conversations`, `Reading`, `SavedItems`, `BrowseQuery`, `Browse`, `FilterBar`, `RequestGate`, `Roles`, `Accounts`, `Members` | checked and proved; of the last admin, the only way to lose it |
| Listing form (section 7) | `Desk` | checked; its invariants proved |

Every invariant and action property that a passing run checks is the subject of a theorem,
for every value of the constants. Three sorts of claim, then:

* *Proved without condition*: types, and what holds whatever overlaps (one live
  subscription, access is paid for, rows have objects, pages are complete, and so on). Among
  them are the statements of what the code's races can do: a step leaves a contract, a success
  is taken back, a listing's transition decides on an outdated row, the last admin is lost
  *only* through the overlap that the statement names.
* *Proved under a condition on the behaviour*: that access grows and paid periods end as they
  should, that terminal subscriptions stay so, that histories are chains, that the contracts
  are refined. The code does not enforce the condition, and a run or a history given in the
  section shows what happens without it; the theorem shows that nothing else can break the
  claim.
* *Model-checked only*: the two liveness properties of billing.

What could still be added: an abstract specification of a client that saves (one register,
last write wins), which `Desk` would implement where `SavedUnlessUnheard` holds, and one of a
cache that serves what was true less than a lifetime ago, for `Catalog`.

## 3. Billing

### Modules

| Module | Models | Used by |
|---|---|---|
| `SubscriptionStatus` | the transition table, `EffectiveEnd`, `IsEntitling` (`subscription-status.ts`) | all |
| `SubscriptionStore` | tables `subscriptions` and `subscription_events`, the live-slot index, the clock | the two below |
| `SubscriptionLifecycle` | `sweepSubscriptionLifecycle`, `transitionSubscription`, `scheduleCancellation`, `resumeSubscription` | `Billing` |
| `Payments` | `initiateCheckout`, `createPendingSubscription`, `processWebhookEvent`, `recordProviderEventOnce`, `activatePendingSubscriptionTx`, the provider | `Billing` |
| `Billing` | the composition, fairness, the properties | `MCBilling`, proofs |
| `SubscriptionContract` | what the domain promises of its rows, whoever moves them | refined by `Billing` |
| `MCBilling` | symmetry of the small instances, the scenes of the liveness instance | TLC |
| `BillingProofs`, `BillingTransitions` | theorems: what holds under any concurrency; how rows move | TLAPS |

### State and steps

`subscriptions[s]` is the row with primary key `s` reduced to what the control flow
tests: status, seller, plan, period end, grace end, cancelAt. A key without a row has
status `none`. `subscriptionEvents[s]` is the append-only history of the row.
`attempts[a]` is a `payment_attempts` row; `paymentEvents` is the set of event ids in
`payment_events`; `providerEvents[e]` is what the provider has to tell under id `e`, and
`ignored` the ids that were answered without a record.
`now` counts days; `AttemptTtl` is on the same clock, since only the order of instants
matters.

Each process has a program counter and the values it read: `checkout[c]`, `worker[w]`
(a delivery), `sweeper[w]`, `owner[o]`. One action is one database statement whose
result another process can change, or a commit. Thus `transitionSubscription` is
`SweepRead` (the `findUnique` before the transaction) and `SweepWrite` (update by id and
event, committed together); between the two, anybody may write the row. Reads that see
committed data and are used at once are part of the action that uses them.

What Postgres does is modelled by its effect:

* A unique index is a condition on the write. `LiveSlotFree` is
  `ux_one_live_subscription_per_seller`; `PendingConflict` is the pending index;
  `InsertAttempt` meets the one-open-attempt index.
* An insert that meets an uncommitted row with the same key waits: `InFlight` keeps a
  second delivery of an event id from passing while the first is in its transaction.
* A row lock is read off the program counter of the transaction that holds it
  (`AttemptLocked`), and so is the advisory lock (`AdvisoryLockFree`).
* A transaction that throws leaves nothing; in the model it wrote nothing yet. This is
  sound because nobody can read uncommitted data, and the effects on others (locks) are
  in the program counters.

A crash may happen at any program counter. The provider is the environment: for any
session it opened it may report success (with the right amount or not), failure or expiry,
several of them, and repeats each until it is answered. Nobody can pay before the attempt is
stored, since only then is the session's address given out; a session whose attempt is not
stored, or never will be, can expire. Such an event is answered `ignored_no_attempt` and
nothing is recorded (`IgnoreEvent`); it is not delivered again.

What is left out: the reactivation actions of the table that nothing calls (`recover`,
`suspend`, `reinstate`; `activateSubscription` is called by tests only); events of an unknown
kind, which are answered and change nothing; wording, amounts beyond right or wrong,
signatures. The seller's standing and the plan's availability, checked first, are the sets
`Sellers` and `Plans`. The sweep's batch limit is above the number of rows.

`TimedOut` is the one assumption about time: an activation does not commit when a whole
term has passed since its transaction began. Prisma ends an interactive transaction
after seconds and the shortest term is days.

### Properties

| Property | Says |
|---|---|
| `TypeOK` | the type invariant |
| `OneLivePerSeller` | never two live subscriptions of a seller |
| `NoPendingCollision` | the advisory lock suffices: the pending index is never met |
| `OneOpenAttempt` | at most one open attempt per subscription |
| `AppliedOnce` | a delivery past its insert works on an event nobody applied or is applying |
| `AccessIsPaidFor` | a row that is live or has expired has a recorded matching payment of its own (a cancelled one may have been superseded unpaid) |
| `CurrentStepsFollowContract` | a step is one of `SubscriptionContract`, unless some process holds a decision on a status the row no longer has |
| `SuccessYieldsOnlyToStaleReads` | only a failure or expiry whose delivery read the attempt before the success was committed takes the success back |
| `HistoryIsAChain` | the events of a row chain from creation to its current status |
| `AccessGrowsOnlyByPayment` | the end of access moves later only with a newly recorded payment |
| `PaidPeriodIsKept` | a live row is not cancelled or expired before its time |
| `SuccessIsFinal` | a succeeded attempt stays succeeded |
| `TerminalIsFinal` | expired and cancelled rows are never revived |
| `ImplementsContract` | the composition refines `SubscriptionContract` |
| `OverdueIsSwept` | a live row out of its window leaves the live statuses |
| `EventsAreRecorded` | every outcome the provider has is eventually answered, and recorded once its attempt is stored |

The passing runs check these but for `SuccessIsFinal` and `TerminalIsFinal`, which runs show
violated, and for `ImplementsContract`: it is violated by the same races (two sweeps; or one
checkout and one delivery, as in `plan_change_during_payment`), and is here for the theorem
that says when it holds.

### Runs

| Run | Instance | Shows |
|---|---|---|
| `billing_races` | 1 seller, 2 plans, 2 rows, 2 attempts, 2 events, 2 checkouts, 2 deliveries, 1 sweep, no grace, to the end of the first term | the six invariants and the two action properties under every race of checkouts, deliveries and a sweep |
| `billing_lifecycle` | 1 plan, 2 rows, attempts and events, one process of each kind, 3 days | history, paid periods and access over whole lives with renewal; 2 million states |
| `billing_liveness` | 2 plans, 2 rows, attempts and events, 1 checkout, 2 deliveries, 1 sweep, fair, in two scenes | the two liveness properties |
| `overlapping_sweeps` | 2 sweeps | **violation** of `TerminalIsFinal` |
| `failure_after_success` | 2 deliveries of one attempt | **violation** of `SuccessIsFinal` |
| `plan_change_during_payment` | 1 checkout for a second plan, 1 delivery | **violation** of `PaidPeriodIsKept` |

One seller is enough because no statement and no index relates rows of different
sellers; the theorems below are for any number. Two rows give a superseded row and its
successor, or an expired row and its renewal; two processes of a kind give every
pairwise race, and two events a repeat, a conflict and a reordering. A term, a grace
period and an attempt's life of one day with three days on the clock let a row run
through active, grace and expiry while another lives; zero days of grace, a legal
setting, is used in the other runs. `MaxEvents` bounds only how often owners toggle.

The three violations are races between a read and an update by primary key, each against
a sentence in the code or its documentation (quoted under `findings`):

* Two sweeps overlap (the cron route takes no lock). Both read an active row; one takes
  it to grace and, with no grace left, to expired; the other then writes `grace_period`.
* A failure and a success of one attempt are delivered together. The failure reads the
  attempt as open, the success commits, the failure overwrites it. The subscription
  stays active; the attempt says failed.
* A plan change reads the old pending row under the advisory lock, which the webhook does
  not take. The payment activates the row; the plan change cancels it by id.

None of the three needs many processes: the last one is one checkout and one delivery. Where a
step leaves the contract, what caused it is a stale decision; this is
`CurrentStepsFollowContract` in `billing_races`, whose two plans and two checkouts make it
supersede pending rows, paid ones included. `billing_lifecycle` has one plan, hence no
superseded row, and one process of each kind, hence no overlap of two sweeps or deliveries:
the history, the paid period and the access it shows are those of renewals, grace,
cancellation and resumption.

`billing_liveness` holds two scenes in one instance (`InScene`), since their product would be
too large. Until the first term ends, two rows of two plans are paid for, and two deliveries
wait for each other's rows, meet the occupied live slot, find their row superseded, roll
back and are repeated; a session may expire before its attempt is stored. From then on there
are sweeps that crash, and one delivery at a time. Nothing under fairness is cut off by the
scenes. With one sweep and no owner a sweep can die but nothing in it can throw, so rows left
behind by an illegal transition are not in this run.

### Fairness

`FairSpec` assumes that cron keeps starting sweeps (weak fairness of `SweepBegin`) and
that neither sweeps nor deliveries are killed every time (strong fairness of their
steps: a crash returns the process to the start, so a step is enabled again and again
rather than continuously). The provider redelivers until it is answered 200, hence strong
fairness of a delivery's beginning (`IgnoreEvent`, `RecordProviderEvent`), of any event by any
worker, and of each later statement by any worker; a transaction that has timed out is
closed. Nothing is assumed of users, of the clock, or of the provider ever reporting anything,
nor of one event's deliveries before another's.

### Proofs

`BillingProofs` holds for every value of the constants that satisfies `StoreAssumption` and
`PaymentsAssumption`: any sets of sellers, plans, rows and processes, any term, any grace
including none.

* `TypeCorrect`. `TypeOK` is not inductive: a process writes values it read some steps
  ago. `WellFormed` adds, for every program counter, what the process holds: a sweep
  about to write holds one of its selected rows, and those selected first have a period
  end (so the grace end it computes is an instant); a checkout past the lock holds a
  row; a delivery in its transaction holds an emitted event of a stored attempt. There is
  one lemma per action.
* `EventsAppliedOnce`. Inductive with the fact that an idle worker holds no event.
* `OneLiveSubscription`. `StepMoves` classifies every step by what it does to the rows:
  nothing, one row changes without changing its seller and becomes live only if its slot
  is free, or a pending row is created (and its predecessor cancelled). The invariant then follows from the
  classification alone, with no case on the actions.
* `OneOpenAttemptAlways`. Only `InsertAttempt` opens an attempt and it checks.
* `PendingNeverCollides`. Strengthened by "at most one pending row per seller" and "at
  most one checkout of a seller is between lock and commit" (`LockInv`).
* `ReferencesAreFresh`. A checkout about to insert holds a reference nobody else holds
  and no row has, so the insert overwrites nothing.
* `AccessIsAlwaysPaidFor`. Needs `AppliedOnce`, that attempts keep their subscription,
  and `SweptIsPaid`: what a sweep holds was paid for when it was selected. This is the
  invariant that survives the overlapping sweeps: they can revive a row, never an unpaid one.

`BillingTransitions` is about how rows move. Writes are by primary key with no status
predicate, so not everything the domain promises can hold of the code whatever races. Two
theorems say, without a condition, what the races come down to:

* `SuccessYieldsOnlyToStaleReadsHolds`: the step that takes a success from an attempt is a
  failure or expiry whose delivery has read the attempt in another status. The invariant is
  that a delivery past its read of a failure did not read a success (`UnpaidWasRead`);
  checkouts only retire what is open.
* `CurrentStepsAlwaysFollowContract`: `WritesAreCurrent` says that whatever a sweep, a
  checkout or an activation decided on is still the row's status. Every step from such a
  state, of any number of processes, is a step of `SubscriptionContract` or leaves its
  variables alone. `CurrentStepMoves` classifies the steps, as `StepMoves` above, but with the
  table's rows. Thus stale writes are the only way in which the code leaves its own
  transition table.

Other theorems have a condition on the behaviour, which the code does not enforce:

| Hypothesis | Means | Without it |
|---|---|---|
| `ActivationsApart` | no two deliveries are about to activate one row | the end of a period moves under the sweeps |
| `SupersedesApart` | no checkout is about to supersede a row that a delivery is about to activate | `plan_change_during_payment` |
| `WritesAreCurrent` | no decision on an older status is held | `overlapping_sweeps` |

The chain of results:

* `HoldingsAreSound`, under any concurrency: a sweep holds rows past pending (and they stay
  so, whoever writes them) with a legal move to make.
* `TimesAreConsistent` (`ActivationsApart`): a row has its period end and its grace end
  together, a grace length apart; what a sweep selected has the ends the row has still, and
  they have passed; an activation found its row without a period.
* `AccessGrowsOnlyByPaymentHolds` (`ActivationsApart`, whatever sweeps overlap): by the times,
  no write of a sweep moves an end. Without the hypothesis it is false, with a term of two
  days and no grace: of two deliveries that both find a row pending, one activates it to end
  on day 2; a sweep selects it then; the other delivery, begun on day 1, writes an end on day
  3; a second sweep selects that; the first writes a grace end of 2 and the second one of 3,
  which is later and paid by nobody in that step. The seller had paid for day 3, so the end
  wavers but is not unearned.
* `CheckoutsStayCurrent` (`SupersedesApart`): what a checkout supersedes is still pending. The
  sweeps never hold a pending row, and the advisory lock keeps the seller's other checkouts
  out (`LocksAreExclusive`); only a delivery can come between.
* `PaidPeriodIsAlwaysKept` (`ActivationsApart`, `SupersedesApart`, whatever sweeps overlap).
* `CurrentWritesImplementContract`: the refinement, of behaviours in which writes are current
  throughout. `CurrentWritesKeepTerminal` and `CurrentWritesExtendHistory` follow the same
  way: stale writes are also the only way to revive a row that is over, or to break the chain
  of events.

An earlier form of `SweepAction` and `Outcome` was a CASE whose guards overlapped, as the
source's chain of conditions may be read. CASE leaves open which of two true guards decides,
TLC takes the first, and the proofs could not: they are IF/ELSE now, in the source's order.

Model-checked only: `OverdueIsSwept` and `EventsAreRecorded`. They are liveness under
fairness, which the prover does not do.

## 4. Catalogue

### Modules

| Module | Models | Used by |
|---|---|---|
| `ListingStatus` | the transition table (`listing-status.ts`) | `ListingLifecycle` |
| `ListingLifecycle` | `createDraftListing`, `updateListing`, `transitionListing`, the publish gate, the CHECK constraints of table `listings` | `Catalog` |
| `CatalogCache` | `cachedCatalog` and `invalidateCatalog`, for any keys and values | instantiated by `Catalog` |
| `Catalog` | the composition: what a reader is shown, when the cache is cleared, the properties | `MCCatalog`, proofs |
| `ListingContract` | what the lifecycle promises of its rows, whoever moves them | refined by `Catalog` |
| `MCCatalog` | symmetry of the small instances | TLC |
| `CatalogProofs` | theorems | TLAPS |

### State and steps

`listings[l]` is a row: status, title, whether every mandatory column is filled, slug,
and whether `published_at` and `sold_at` are set. A slug is represented by the title it
was built from, since its other half is the id; the retry with a longer code concerns
collisions between listings and is left out. `request[r]` is a `transitionListing` in
flight. It is four steps, as in the code: `TransitionBegin` reads the row and consults the
table; `PublishGate` (only for targets that are public) reads the subscription and judges
completeness on the row read before; `TransitionUpdate` updates by id, with everything it
writes conditional on the row *read*, and the CHECK constraints judged on the row
*written*; `TransitionInvalidates` clears the cache and answers. `updateListing` is a
single statement with its status predicate, hence a single action.

A draft is created with any columns filled. An edit fills columns and never empties
them: the schema turns an empty field into `undefined`, which the update skips. The
other rules of the publishing schema (lengths, the department) and any other error are
`RequestFails`. The seller is active: nothing changes a seller's status, and one who is
not active passes no gate. Whether the seller has, or needs, a subscription is the
variable `entitled`, which changes whenever it likes: it is what Billing's rows say, or
TRUE while enforcement is off.

A reader that misses the cache is `fill[f]`: `FillBegin` takes the clock and probes the
map, `FillRead` is the query, `FillStore` stores with an expiry counted from `FillBegin`.
`TransitionDoesNotInvalidate` is a commit this process does not answer for: the
connection was lost after the commit, the process died, or another server instance ran
the request (the cache is per process).

`wasEntitled`, `overtaken` and `lastShown` are history variables: no action reads them.

### Properties

| Property | Says |
|---|---|
| `TypeOK` | the type invariant |
| `StampsFollowStatus` | published, paused and sold listings have a slug and a date, and a sold one its `soldAt`, whatever raced |
| `GateSuffices` | a publish past the gate is never refused by the CHECK constraints |
| `PublishIsEntitled` | every way into the catalogue passed the subscription gate |
| `BoundedStaleness` | what a reader is served was true less than one lifetime ago |
| `StaleOnlyIfOvertaken` | it is outdated only while the change has yet to invalidate, or if an invalidation came between the read and the store, or never came |
| `VisibleContentIsFrozen` | the content of a listing does not change while it stays visible |
| `SlugIsStable` | a public address never changes |
| `CurrentStepsFollowContract` | whatever is written takes a row one step along `ListingContract`, unless a request in flight decided on an older row, or one had left a date behind |
| `SoldAtTracksSold` | `soldAt` is set exactly while the listing is sold |
| `ImplementsContract` | the composition refines `ListingContract` |

`catalog` checks these but for `SlugIsStable`, which a run shows violated, and for
`VisibleContentIsFrozen`, `SoldAtTracksSold` and `ImplementsContract`, which only the theorems
are about.

### Runs

| Run | Instance | Shows |
|---|---|---|
| `catalog` | 1 listing, 1 title, 2 requests, 1 reader, lifetime of 2 ticks, clock to 2 | the six invariants and `CurrentStepsFollowContract`; 3.3 million states |
| `slug_overwritten` | 2 titles, 2 requests | **violation** of `SlugIsStable` |

No statement relates two listings and the cache is cleared as a whole, so one listing
suffices. Two requests race in pairs; edits and the subscription move between any two of
their steps. A lifetime of two ticks gives entries that are fresh, half way, and expired
and replaced. Titles matter to the slug and to the content that is shown, hence two of them
in the second run; the theorems are for any number.

`ListingContract` has one action per step a listing may take. A publish is one step there: the
row is complete and gets, or keeps, its address. In the code it is a read, a gate and an
update, with edits and other requests in between. The run and the theorems show that these
are one step of the contract as long as what the request decided on is still so.

The violation: two publish requests of one draft (two tabs, a retried submit) both read
a null slug; the title is edited between their reads; both pass the gate; the second
update writes its slug over the first, already public, one. `schema.prisma` says the slug
is never changed afterwards.

The same shape of race leaves a sale's date behind: a sale and an archive both read a published
listing. The sale is written, with its date. The archive did not see it, so it does not clear
the date (`leavingSold` looks at the row that was read): the listing is archived with `soldAt`
set, and a relist takes the date into a draft. The comment above it (`listing-service.ts:521`)
says that `soldAt` tracks only the current sold state. No reader uses it there; the direction
readers rely on is in `StampsFollowStatus`, which holds whatever overlaps.
`CurrentStepsFollowContract` therefore excepts rows with such a date.

The comment in `catalog-cache.ts` that stale data is never served is about the single
broad tag. `StaleOnlyIfOvertaken` says exactly when it is served all the same, and
`BoundedStaleness` that the lifetime is a sufficient backstop, as the same comment claims.

### Proofs

`CatalogProofs` holds for any sets of listings, titles, requests and readers and any
lifetime (`ListingAssumption`, `CatalogAssumption`).

* Rows and requests (`ListingsHold`). The invariant that makes the update by id harmless
  to most properties is `StillThere`: whatever a request read as present is present
  still when it writes, because no step ever empties a mandatory column, the date or the
  slug. With it go `HasAddress` for rows and for rows read, and `wasEntitled` past the
  gate. `StampsAreThere` (`StampsFollowStatus`), `GateAlwaysSuffices` and
  `EveryPublishIsEntitled` follow.
* Cache (`CacheTellsTheTruth`). `AsOf(l, v, t)`: v is what the database shows of l, or it
  showed it at t or later. Every value in hand satisfies it for the instant its reader
  began, every entry for the instant its expiry counts from. Steps of the rows keep it
  because they record when the view they end was last shown. `StalenessIsBounded` is the
  arithmetic of the two.
* `StalenessHasACause`: every outdated entry or value in hand has a pending invalidation
  or is overtaken; only a committed transition changes a view, and it leaves its request
  with the invalidation to do.
* `ContentIsFrozen` (`VisibleContentIsFrozen`): an action property. An edit finds the row in
  draft or paused only, which the public does not see, and no transition touches the title.
* The contract. `TransitionsAreCurrent` says that a request past its read finds the row with
  the status, the slug and the date it read. `CurrentStepsFollow`
  (`CurrentStepsFollowContract`): from a state where that is so, and sales' dates are right,
  every step writes the rows as `ListingContract` does. The title may have changed and
  columns may have been filled since the read: the contract's publish takes any title for the
  address, and `StillThere` says that the row is complete still.
* `CurrentTransitionsImplementContract`: as long as transitions are current, `Catalog`
  implements `ListingContract`, no address changes and `soldAt` tracks the sold state. The
  invariant is `SoldAtTracksSold` itself with `NewIsBlank` (a key without a row has no
  address): an update that leaves the date alone is right only if the date was right before.
  The two races above are the ways in which a stale read breaks it.
* `TransitionsGoStaleOnlyByOverlap`: how that proviso is lost. Transitions are current in the
  beginning, and the only step from such a state to one where they are not is the update of
  a transition while another request is between its read and its update of the same row
  (`Overlaps`). Edits may come at any moment, since they change none of the columns a
  transition decides on, and so may drafts, gates, failures, readers and requests about other
  listings.

Everything the passing run checks is proved. No liveness is claimed: nobody has to publish
a listing, and the code retries nothing here.

## 5. Media

### Modules

| Module | Models | Used by |
|---|---|---|
| `ImageBucket` | the bucket (`catalog/storage.ts`), the reconcile command (`scripts/storage/`, `catalog/image-reconcile.ts`), time and faults | the two below |
| `ImageChecks` | what is asked of uploaded bytes (`bounded-body.ts`, `image-validation.ts`, `image-processing.ts`) | the two below |
| `ListingImages` | `addListingImage`, `deleteListingImage`, `reorderListingImages` and the photo manager that calls them (`ImageManager.tsx`) | `Media` |
| `HomepageMedia` | `replaceHomepageImage`, `updateHomepageAlt` and the slot editor, for one slot | `Media` |
| `Media` | the composition and the properties | `MCMedia`, proofs |
| `MCMedia` | one small instance in three scenes | TLC |
| `MediaProofs` | theorems | TLAPS |

### State and steps

`rows[k]` is the `listing_images` row of photo `k`, `object[k]` the time its object was
stored. A photo is its storage key, which stands for its id as well: both are fresh
random values. `tab[t]` is a photo manager: what it shows, and its request. An upload is
status, count, object, row, then the refresh (later inserts have later `createdAt`: two rows
inserted within one millisecond, which the database may return in either order, are not
modelled); a delete is status, transaction (read, then
renumber and commit), object; a reorder is status and permutation check, then the
transaction. What a transaction locks is read off the program counters (a delete holds its
row until it commits, so a second delete of it, and every reorder, waits).

`slot` is the `homepage_images` row; `editor[e]` is a save in progress: object, old key,
upsert, removal of the old object. `cleaner` is one run of the reconcile command: rows
first, then the clock, then the listing of the bucket, then the removal.

A fault (`MaxFaults`) is a call that fails before or after its effect, an answer that is
lost, or a crash; it may fall on any step. The bucket never loses an object by itself.

`ClockTick` is the one assumption about time: no request lives as long as `MinAge`
between storing an object and writing its row. The command's default is 24 hours and
routes end after seconds. `--min-age-hours 0`, which the command accepts, voids it: such a
run may remove the object of an upload in progress, and `MediaAssumption` excludes it.

`replyLost`, `slotReplyLost` and `overtaken` are history variables.

### Properties

| Property | Says |
|---|---|
| `TypeOK` | the type invariant |
| `RowsHaveObjects` | a photo that has a row has its object, whoever uploads, deletes or cleans |
| `SlotHasObject` | the homepage shows what its row names, also when replacements overlap |
| `OvershootIsBounded` | the limit is exceeded by at most one per other upload in progress |
| `ShownIsStored` | a tab at rest shows the stored order, whatever was optimistic or rejected |
| `DeleteKeepsOrder` | a delete's renumbering keeps the others' order, even with other requests in between |

The exceptions in the first two are real: when the insert commits and its answer is lost,
the compensation removes the object of a row that is there. The code cannot know.

### Run

`media`: 3 photo keys, 3 homepage keys, 2 tabs, 2 editors, limit 2, `MinAge` 2, clock to 3,
one fault; 930 thousand states. Three scenes keep parts that do not
touch each other apart: two managers without the command; one manager with the command; two
editors with the command. Two tabs give every pair of requests, three keys an add beside
two photos (the shortest list that can be reordered while it changes), a limit of two with
two tabs the overshoot; `MinAge` 2 with a clock of 3 gives orphans that are too young, old
enough, and uploads begun before the command. One fault suffices for each exception;
the proofs are for any number. The run ends when keys run out, hence no deadlock check.

### Proofs

`MediaProofs` holds for any finite sets of photo keys and tabs, any editors, any limit, any
number of faults and any `MinAge` above zero.

* `PhotosSafe` (`RowsHaveObjects`). The inductive invariant adds what every request holds
  (`Held`: the photo an upload is about to record is stored, young, and in nobody else's
  hand; what a compensation or a delete will remove has no row) and what the command may
  take (`Spared`: a row it does not know is younger, at the time it looked, than `MinAge`,
  and what it selected has no row and gets none). One lemma per step.
* `SlotSafe` (`SlotHasObject`). A key on its way into the row is in no other hand
  (`SlotHeld`), and an old key, once replaced, never comes back.
* `LimitIsNearlyKept` (`OvershootIsBounded`). Inductive as it stands: a tab passes the count
  only below the limit, and then at most every tab is uploading; from there an upload turns
  into one row.

* `TabsTellTheTruth` (`ShownIsStored`). The database's `ORDER BY position, createdAt` is
  `ByPosition`: a photo's place is the number of photos before it. The first lemmas show that
  this is a sequence of all the rows in their order, and the only one. Then `TableInv`: no
  two rows have the same `createdAt` (`GoodTable`); a tab that was not overtaken shows the
  table while it reads or uploads, and otherwise the order it is about to write
  (`ShownInv`); and what deletes have read (`OrdersInv`). A delete renumbers from an order it
  read before, with others in between. It may commit only while everything it read is still
  there (the updates of a missing row fail), and for as long as that is so, its order is that
  of the table (`AgreesIn`). To keep this through the commit of another delete one needs the
  third conjunct: of two deletes that may both commit, one read all that the other needs.
* `DeletesKeepOrder` (`DeleteKeepsOrder`): an action property, from the same invariant.
* `MediaTypeCorrect` (`TypeOK`). The rows and tabs are typed by `TableInv`, since what a tab
  shows is typed only if the table orders its photos without ties.

Everything the run checks is proved. No liveness is claimed: every request ends on its own or
is abandoned, and the command runs when an operator asks for it.

## 6. Members

### Modules

| Module | Models | Used by |
|---|---|---|
| `Keyset` | keyset pages and bound cursors (`cursor.ts` of catalogue and messaging) | `Reading`, `Browse` |
| `Conversations` | `getOrCreateConversationForListing`, `sendConversationMessage`, their forms, the index on the token, the activity trigger | `Reading`, proofs |
| `Reading` | walks through the inbox and through a thread | `Members`, proofs |
| `SavedItems` | `saveListing`, `unsaveListing`, the optimistic hearts | `Members`, proofs |
| `BrowseQuery` | `parseBrowseQuery`, `buildBrowseHref`, the filter fingerprint | `Browse`, `FilterBar` |
| `Browse` | the paged public grid over the cache, storefronts | `Members`, proofs |
| `FilterBar` | the filter controls: debounced text boxes, selects, chips, drawer | `Members`, proofs |
| `RequestGate` | middleware, origin check, the sliding-window limiter | `Members`, proofs |
| `Roles` | provisioning, `grantRole`, `revokeRole` statement by statement | `Accounts`, `MCRoles`, proofs |
| `Accounts` | sign-up, sign-in, recovery, sign-out, the guards | `Members`, proofs |
| `Members` | the parts together, and their types | `MCMembers`, proofs |
| `MCMembers` | one small instance, one scene per behaviour | TLC |
| `MCRoles` | two admins, whose roles overlapping requests may revoke | TLC |
| `ConversationsProofs` | theorems about conversations | TLAPS |
| `PagingProofs` | theorems about walks, the grid and the filter bar | TLAPS |
| `MembersProofs` | theorems about sign-ins, hearts, the limiter, the last admin and the types | TLAPS |

### State and steps

**Conversations.** `conversations` and `messages` are the rows; `starting[p]` and
`composer[p]` the two forms of a page; `sends` the requests under way. A send is two steps:
the checks, after which Prisma stamps `createdAt`, and the insert. So messages may commit in
another order than they are stamped. Deleting a listing sets its conversations' listing to
null, as the foreign key does; the unique identity index does not hold between nulls, nor
the submission index between null tokens. A page makes its token after the mount, so a form
posted before hydration has none. The network may repeat a request, the database may fail
before or after its commit, the answer may be lost.

That a successful send remounts the composer, and so makes a new token, is the framework's
behaviour as `MessageComposer.tsx:18-21` describes it (the action redirects, which
remounts the composer); `SentIsStored` breaks without it, which is its mutant.

**Reading.** A walk is the sequence of ids it has shown and its cursor; every page reads the
rows of its moment. The page sizes are constants. A reader keeps to the cursors of its own
walk, so the binding of a cursor to its inbox or thread is met by no other cursor here; in the
grid it is (`MixedUrl`).

**The grid.** `goods[g]` has the columns the grid filters and sorts by; ids are integers
because they break ties. `held` is the cache, one entry per scope, sort, cursor and
fingerprint; a change of a listing clears it or, made by another server instance, does not.
`MixedUrl` is a URL with the cursor of one page and the filters of another. `Named` says
which categories a search text names. The fingerprint is 32 bits of FNV-1a, so two filters may
have the same one, and then they share cached pages and cursors. `Hash` is therefore any
function: nothing is assumed of it.

**The filter bar.** `nav` is the newest navigation under way (a newer one discards it); a
timer holds the query its effect closed over, and fires at any time. `intent` is what the
user's changes amount to. The parser caps prices (`MaxPrice`) and drops a reversed range, the
bar's own reading of a box does neither: a price above the cap means the cap.

**The limiter.** `hits` keeps timestamps as counts per tick. Every check may sweep first.
An identity is a key of the store, which the code makes of the path (or the action) and the
client, so each path counts for itself; the instance has one limit, since keys with another
share nothing but the sweep. All limits of one store have one window in this code, which is why the sweep, although it
prunes everybody by the caller's window, forgets nothing that counts; a second window in the
same store would break `LimitIsExact`.

**Roles and accounts.** `tx[r]` is a transaction: a statement sees what is committed and its
own writes, an insert or delete of a row another transaction is writing waits, and commit
makes rows and audit entry visible together. `Accounts` adds the pages and routes; Supabase
Auth is external: it keeps the accounts, mails links that work once, and sets the cookie.
Nothing under `src/src` calls `grantRole` or `revokeRole`; operators and tests do. Only
`/api/auth/login` and `/api/auth/callback` provision. The comment at
`login/route.ts:59-60`, that a failed provisioning converges "on the next authenticated
action", therefore means the next sign-in.

### Properties

| Property | Says |
|---|---|
| `TypeOK` | the type invariant of all parts |
| `SameListingSameThread` | who asks twice about a listing lands in one conversation |
| `NothingTwice` | a submission is stored once, however often it is retried or delivered |
| `SentIsStored` | what the composer was told is sent is stored |
| `ThreadPagesComplete` | a walk through a thread shows everything that was there exactly once |
| `InboxPagesComplete` | a walk through an inbox repeats nothing and misses only what was active since |
| `HeartTellsTruth` | a heart at rest shows the row unless another one changed it |
| `BrowsePagesComplete` | a walk through the grid shows every untouched match exactly once, unless two filters that were asked for share a fingerprint; by newest nothing is shown twice even then |
| `BarFollowsUser` | changes made one after the other end in the query and the boxes they amount to |
| `LimitIsExact` | the limiter refuses exactly when the window is full, and its reset is a time with room |
| `ProvisioningConverges` | overlapping first sign-ins make one profile, one role, one audit entry |
| `LastAdminRemains` | an admin remains |

The exceptions in the properties are behaviour of the code, worth knowing:

* `SentIsStored`: after a *false* failure (the row was stored) the user may change the text
  and send again under the same token. The code answers success and drops the new text.
* `BarFollowsUser` says nothing of changes that overlap: of two changes within one pause, or
  one made while a navigation is under way, the earlier may be lost, because each starts from
  the query of the page that is shown.
* `BrowsePagesComplete`: two filters with one fingerprint are served each other's cached pages
  and accept each other's cursors, so a walk may show what does not belong there and miss what
  does. With 32 bits this is unlikely, and nothing in the code excludes it.
* `HeartTellsTruth` allows other tabs to be outdated; nothing tells them.

### Runs

| Run | Instance | Shows |
|---|---|---|
| `members` | one scene per behaviour, below | the properties above but the last, and the first three of section 7; 1.9 million states |
| `last_admin` | 2 admins, 2 requests, no fault | **violation** of `LastAdminRemains` |

The parts of `members` share nothing but a listing's status, which each takes as an input
that changes whenever it likes. A run of their product would only multiply their states, so
`scene` chooses one and leaves the others' variables as they began:

| Scene | Instance |
|---|---|
| start | 2 pages, 1 buyer, 3 listings, 3 conversation ids, 1 fault: two pages race for one listing while it is hidden or removed |
| send | 1 page, 2 tokens, 2 texts and an unacceptable one, 1 fault (failure, repeat or lost answer); two requests on their way, three answers: a retry, its repeat, and a send after it |
| thread, inbox | three old rows with every combination of two timestamps, pages of 2 and of 1, messages sent during the walk and out of order |
| hearts | 3 hearts of one user and one listing |
| walk by age, price, rank | 3 listings with equal keys, pages of 1, a second URL to mix cursors with, one listing that changes, three cached pages |
| walk with a shared fingerprint | the same with a kind whose filters have the hash of those of any kind, and the cursors and pages they share |
| bar | one value or two of every filter, a price above the cap, at most three set at once, until the first overlap |
| gate | 2 identities, limit 2 in a window of 2, 5 ticks: windows that fill, empty and slide, with sweeps and a restart |
| accounts | 2 browsers, 1 new user, 1 fault |
| roles | the same with an admin who grants and revokes; three audit entries |
| form | section 7 |

Bounds are named in the scenes' actions in `MCMembers`. Messages, tokens, ticks and keys run
out, so the scenes end: no deadlock check.

The violation: `revokeRole` counts the admins and deletes the row in one READ COMMITTED
transaction without a lock. Two overlapping revocations of the two admins (each by the other, or one by itself) both count two. The header of
`role-service.ts` promises that the last admin is protected. (In TLC's shortest trace one of
them revokes itself; the two counts are the same.) A theorem below shows that no other way
leads there.

### Proofs

`ConversationsProofs` is about `TalkSpec`, conversations from an empty start, for any number
of buyers, listings, pages, tokens, texts, repeats and faults. What `Reading` adds leaves
these variables alone, but for the three old rows its scenes begin with.

* `TalkTypeCorrect`. The type invariant, and `Awaited`: a page waits for one request at most,
  and that request is made of what its composer still holds.
* `OneThreadPerListing` (`SameListingSameThread`). The unique index forgets a removed listing
  (the column becomes null), so it is not inductive by itself. `OnePerSnapshot` is: two rows
  of one buyer and one listing *as it was called at creation* are the same row.
* `StoredOnce` (`NothingTwice`). `OnePerToken`, kept by the submission index.
* `SentMeansStored` (`SentIsStored`). `TokenInv`: two composers never hold the same token;
  under the token a composer holds, everything said so far was said by it and is stored,
  under way, or reported as failed.

`MembersProofs` shows `HeartsTellTruth` (`HeartTellsTruth`) for any number of hearts: the
invariant `HeartSound` says that a heart nobody has outdated shows the row at rest, and the
opposite of the row while its request is under way.

It shows `SignInsConverge` (`ProvisioningConverges`) of `AccountsSpec`, in which
sign-ins and admins' requests interleave freely (the runs keep them in two scenes). The
invariant follows every transaction: what it writes is one row, which no other one is
writing (`Writing`, `Apart`); what it need not insert was there (`Founded`); roles belong to
profiles. `Balanced` counts: a second entry by provisioning needs a removal before it,
because it is written only when the row was inserted, and the row of a later insert must
have gone in between.

It shows `LimiterIsExact` (`LimitIsExact`) for any window, limit, identities and ticks. A log
counts requests per tick, and a total is a number of stamps `<<tick, n>>`, so that totals are
compared by inclusion. `GateInv` relates the store to what really passed: the two agree on
every tick of the window that ends now, although sweeps prune the store and nothing prunes the
truth, and no window holds more than the limit. For the reset: when the log is full, its
oldest live stamp leaves the window at `resetAt` at the latest, so the total is below the
limit by then (`verdict` is kept by every later step but a new answer).

`PagingProofs` shows the four properties of walks and filters.

* *Keyset pages.* The rows in order are `Ranked`: the k-th row has k - 1 rows before it, for
  any finite set of rows in which key and id order strictly. `PageSplits` is the lemma all
  walks rest on: a page and what follows its cursor divide what followed the cursor before,
  and nothing on the page is after its last row.
* `ThreadsAreReadWhole` and `InboxesAreReadWhole`, of `ReadSpec`: messages sent, conversations
  started and listings removed while somebody walks. `SoFar` is the invariant of a walk at its
  cursor: what it has seen is not after the cursor, and what was there in the beginning was
  seen once, has since moved to the front, or is after the cursor still. It is kept because
  rows are only inserted, and a key only grows; a message stamped early and committed late
  is missed if it was not there in the beginning, which is why the property speaks of
  `start`.
* `GridIsReadWhole` (`BrowsePagesComplete`), of `BrowseSpec`, in which listings change, the
  cache forgets or does not, and cursors meet URLs they were not made for. A page is `Exact`
  for the key it is cached under: of the listings nobody touched it has exactly those that
  belong there and lie between its cursor and the next. This does not depend on when the page was
  filled, so it survives in the cache, and pages of different ages fit together.
  A cursor of another fingerprint decodes to none, and a walk that falls back to the first page
  starts again. The invariant has two halves. That pages are in order and between their
  cursors (`CacheOrdered`, `ShownInOrder`) needs nothing of the hash, since a page under a
  shared key is still ordered by the same sort; that they have exactly what belongs there
  (`CacheExact`, `ShownExactly`) needs that the hash tells the filters apart that were
  asked for (`HashTells`, with `CacheAsked`: every cached page is of one of these).
* `BarAlwaysFollows` (`BarFollowsUser`), of `BarSpec`. `Following`: unless changes overlapped,
  either nothing is under way, the page shows what the user means, and at most one box is
  ahead of it with a timer that closed over this very page; or the one navigation under
  way is to what they mean. It needs that the parser is the left inverse of the link builder
  on the queries that pages have (`Canonical`).

The rows of a page and the totals were first written with the library's sorting and sums. They
count ranks and stamps now, which says the same and can be proved about, since the library's
operators are recursive.

*The last admin.* `LastAdminIsLostOnlyByOverlap`, of `AccountsSpec` with at least one founder
and any number of users, requests and faults. `LastAdminRemains` is not inductive: a
transaction past its count deletes a row on the word of what it saw. `CountsHold` adds that
whoever is about to take the role away leaves another admin, or has yet to count. It holds in
the beginning, and the only step that loses it is the commit of one such transaction while
another is open (`RevocationsOverlap`). Grants and sign-ins only add rows; a single
revocation, of anybody by anybody, keeps it, because nothing changes between its count and
its commit but what another revocation does. `last_admin` shows that the overlap does happen.

*Types.* `MembersTypeCorrect` (`TypeOK`), of `MembersSpec`, which is all parts side by side.
It follows from the invariants above: what a walk shows is typed only because pages are, and
the limiter's answer because its log is. The scenes of
`MCMembers` begin in the middle and stay in one part, so that run checks instances of the parts
and the theorem is about the parts from their beginnings.

## 7. The listing form

`Desk` models, and `DeskProofs` proves about, the form of a new or edited listing:
`DraftController` (bootstrap, queue of saves, flush, retry), the form's timer and buttons (`CreateListingForm`), the create, update
and transition they send, and the lifecycle buttons of the same listing on another page
(`ListingLifecycleActions`). It uses the transition table of `ListingStatus`.

`form` is what the seller sees, `ctl` the controller's fields, `row` the listing. The form's
fields are one text: the controller compares whole payloads. What `buildPayload` leaves out of
them, such as a price it cannot read, is therefore not seen: the label may say "Saved" while
such a field is not in the row. The controller is a promise
chain, so at most one save runs and the others wait (`MaxQueue`); `flow[f].due` counts the
saves a click's flush waits for. A request is one step, at its answer: nobody else on these
pages reads the row between. A refusal returns an error result; a lost answer rejects the
promise, and the two end differently in the code, so they are different actions
(`BootstrapRefused`, `BootstrapLost`, `UpdateRefused`, `UpdateLost`), each possibly after the
effect (`MaxDeskFaults`).

| Property | Says |
|---|---|
| `OneDraftPerForm` | a form session makes one draft, however often the create is asked for |
| `SavedUnlessUnheard` | at rest, "Saved" means the row holds what the form shows, with the two exceptions below |
| `PublishedAsShown` | what is published is what the form showed |
| `SavedMeansStored` | the same without the exceptions, as the comments promise |

`unheard` is the exception: an edit made between the create and its answer, or an update that
took effect and was reported as failed. The first is the violation `lost_edit`: `ensureDraft`
takes the payload of the moment of the *answer* as saved though an older one was sent, so the
next save is skipped as having nothing to do. The second no client can know about.
`SavedUnlessUnheard` shows that these are the only two.

| Run | Instance | Shows |
|---|---|---|
| `members`, scene form | 2 texts, queue of 2, 1 fault | the first three |
| `lost_edit` | no fault | **violation** of `SavedMeansStored` |

Two texts and blank distinguish what was sent, what is shown and what was saved; two waiting
saves beside the running one are a timer's save and a click's.

A create whose answer is lost leaves a rejected promise that is never replaced
(`draft-controller.ts:77`): from then on every save of the form fails, and the label says so.
`BootstrapLost` models it; nothing promises more, so there is no property of it.

### Proofs

`DeskProofs` proves the first three, and the types (`DeskTypeCorrect`), of `DeskSpec` for any
set of texts, any queue length and any number of faults. `DeskAssumption` asks
that the value standing for "nothing saved yet" is no text and that the two bounds are
naturals. The inductive invariant has five parts:

* `Ensuring`: a create is asked for only while the controller has no id, and nothing is
  updated or called saved before there is one (`OneDraft`);
* `Kept`: what the controller takes as saved is what the row holds, unless `unheard`;
* `Resent`: an update under way sends what the form shows, or a later save is scheduled (the
  timer, the queue, or leaving the page);
* `Honest`: "Saved" is true, or a later save is scheduled (`SavedIsSaved`);
* `Flushed`: the last save a publish waits for sends what the form shows, and once it is
  asked for nothing is unsaved (`PublishesWhatIsShown`).

## 8. Not modelled

* *Public catalogue*: related listings, seller profiles, and counts are single
  reads without a walk or a cursor.
* *Entitlement*: weekly quotas are declared in the plans and enforced nowhere.
* *Providers*: signatures and configuration.
* *Request hardening*: headers, nonces and `safe-redirect` are pure functions of one request,
  tested on their own. Only the order of the middleware and the origin check are modelled.
* *Pages and components*: those that drive an operation are in its module; the rest renders.
  Also the `/sell` routing, the install banner, legal pages and translation.
* *Scripts*, seeds and performance tools: developer tooling, but for the reconcile command.
* *Image processing, slug construction, search ranking*: their results are classes (accepted
  or not, a slug per title, a rank per match).
* *Liveness* beyond billing: nothing else in this program must eventually happen on its own.
  The browser's saves are asked for by the user and give up on a failure.
