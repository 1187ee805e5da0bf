------------------------------ MODULE Payments ------------------------------
(***************************************************************************)
(* Checkout initiation and webhook processing:                             *)
(* src/modules/payment/checkout-service.ts and webhook-service.ts with     *)
(* createPendingSubscription and activatePendingSubscriptionTx of the      *)
(* subscription service and recordProviderEventOnce.  One action per       *)
(* statement that reads what another process may change, or commits.       *)
(* Row locks, the advisory lock and unique-index waits are derived from    *)
(* the program counters of the transactions that hold them.                *)
(***************************************************************************)
EXTENDS SubscriptionStore

CONSTANTS
    Attempts,   \* keys (merchant references) a payment_attempts row may get
    EventIds,   \* provider event ids
    Checkouts,  \* checkout requests in flight together
    Workers,    \* webhook deliveries in flight together
    AttemptTtl  \* PAYMENT_ATTEMPT_TTL_MINUTES in clock ticks

ASSUME PaymentsAssumption ==
    /\ AttemptTtl \in Nat \ {0}
    /\ "none" \notin Attempts \union EventIds

VARIABLES
    attempts,       \* payment_attempts
    sessions,       \* merchant references the provider has opened a session under
    providerEvents, \* what the provider has to tell, by event id
    paymentEvents,  \* payment_events: the ids recorded
    ignored,        \* the ids answered 200 with no attempt to record them under
    checkout,
    worker

paymentVars == <<attempts, sessions, providerEvents, paymentEvents, ignored, checkout, worker>>

AttemptStatuses == {"pending", "succeeded", "failed", "expired"}

NoAttempt == [status |-> "none", sub |-> "none", expiresAt |-> 0]

EventKinds == {"payment_succeeded", "payment_failed", "checkout_expired"}

\* exact: the amount and currency charged are the ones expected.
ProviderEvent == [kind: EventKinds, attempt: Attempts, exact: BOOLEAN]

NotEmitted == [kind |-> "none", attempt |-> "none", exact |-> FALSE]

CheckoutIdle == [ pc |-> "idle", seller |-> "none", plan |-> "none",
                  sub |-> "none", attempt |-> "none", at |-> 0 ]

\* seen: the status of the attempt as the delivery read it.
WorkerIdle == [pc |-> "idle", event |-> "none", seen |-> "none", at |-> 0]

AttemptRow ==
    [ status: AttemptStatuses \union {"none"},
      sub: Subs \union {"none"},
      expiresAt: Nat ]

CheckoutRequest ==
    [ pc: {"idle", "locked", "reuse", "stale", "insert"},
      seller: Sellers \union {"none"},
      plan: Plans \union {"none"},
      sub: Subs \union {"none"},
      attempt: Attempts \union {"none"},
      at: Nat ]

Delivery ==
    [ pc: {"idle", "recorded", "paid", "activating"},
      event: EventIds \union {"none"},
      seen: AttemptStatuses \union {"none"},
      at: Nat ]

PaymentsTypeOK ==
    /\ attempts \in [Attempts -> AttemptRow]
    /\ sessions \subseteq Attempts
    /\ providerEvents \in [EventIds -> ProviderEvent \union {NotEmitted}]
    /\ paymentEvents \subseteq EventIds
    /\ ignored \subseteq EventIds
    /\ checkout \in [Checkouts -> CheckoutRequest]
    /\ worker \in [Workers -> Delivery]

PaymentsInit ==
    /\ attempts = [a \in Attempts |-> NoAttempt]
    /\ sessions = {}
    /\ providerEvents = [e \in EventIds |-> NotEmitted]
    /\ paymentEvents = {}
    /\ ignored = {}
    /\ checkout = [c \in Checkouts |-> CheckoutIdle]
    /\ worker = [w \in Workers |-> WorkerIdle]

\* The row lock of an attempt updated to succeeded but not yet committed.
AttemptLocked(a) ==
    \E w \in Workers : /\ worker[w].pc \in {"paid", "activating"}
                       /\ providerEvents[worker[w].event].attempt = a

-----------------------------------------------------------------------------
(* createPendingSubscription: pg_advisory_xact_lock, read, supersede, create *)

\* Mutant: no advisory lock.
NoAdvisoryLock(seller) == seller \in Sellers

AdvisoryLockFree(seller) ==
    \A c \in Checkouts : ~(checkout[c].pc = "locked" /\ checkout[c].seller = seller)

\* The lock is taken and the pending row read.  The same plan is reused and
\* the transaction ends; otherwise the lock is held until the commit below.
BeginCheckout(c, seller, plan) ==
    /\ checkout[c].pc = "idle"
    /\ AdvisoryLockFree(seller)
    /\ \E s \in IF RowsOf(seller, {"pending"}) = {} THEN {"none"}
                                                   ELSE RowsOf(seller, {"pending"}) :
         checkout' = [checkout EXCEPT
                        ![c] = [CheckoutIdle EXCEPT
                                  !.pc = IF s = "none" THEN "locked"
                                         ELSE IF subscriptions[s].plan = plan
                                              THEN "reuse" ELSE "locked",
                                  !.sub = s, !.seller = seller, !.plan = plan]]
    /\ UNCHANGED <<storeVars, attempts, sessions, providerEvents, paymentEvents, ignored, worker>>

PendingRow(seller, plan) ==
    [NoSubscription EXCEPT !.status = "pending", !.seller = seller, !.plan = plan]

\* Inserting s would violate ux_one_pending_subscription_per_seller.
PendingConflict(c) ==
    RowsOf(checkout[c].seller, {"pending"}) \ {checkout[c].sub} # {}

\* Mutant: a plan change leaves the old pending row as it is.
SupersededStays(row) == row

Superseded(row) == [row EXCEPT !.status = "cancelled"]

\* The superseded row is cancelled by id, whatever it has become since.
CreatePendingSubscription(c, s) ==
    /\ checkout[c].pc = "locked"
    /\ subscriptions[s].status = "none"
    /\ ~PendingConflict(c)
    /\ LET old == checkout[c].sub
           created == PendingRow(checkout[c].seller, checkout[c].plan)
           event(from, to) == [from |-> from, to |-> to]
       IN /\ subscriptions' =
               [x \in Subs |-> IF x = s THEN created
                               ELSE IF x = old THEN Superseded(subscriptions[x])
                               ELSE subscriptions[x]]
          /\ subscriptionEvents' =
               [x \in Subs |->
                  IF x = s THEN Append(subscriptionEvents[x], event("none", "pending"))
                  ELSE IF x = old
                  THEN Append(subscriptionEvents[x], event("pending", "cancelled"))
                  ELSE subscriptionEvents[x]]
    /\ checkout' = [checkout EXCEPT ![c].pc = "reuse", ![c].sub = s]
    /\ UNCHANGED <<now, attempts, sessions, providerEvents, paymentEvents, ignored, worker>>

-----------------------------------------------------------------------------
(* initiateCheckout after the pending row is known *)

OpenAttempts(s) == { a \in Attempts : attempts[a].sub = s /\ attempts[a].status = "pending" }

Unexpired(s, t) == { a \in OpenAttempts(s) : attempts[a].expiresAt > t }

\* An open, unexpired session is handed out again; nothing changes.
ReuseSession(c) ==
    /\ checkout[c].pc = "reuse"
    /\ Unexpired(checkout[c].sub, now) # {}
    /\ checkout' = [checkout EXCEPT ![c] = CheckoutIdle]
    /\ UNCHANGED <<storeVars, attempts, sessions, providerEvents, paymentEvents, ignored, worker>>

NoReusableSession(c) ==
    /\ checkout[c].pc = "reuse"
    /\ Unexpired(checkout[c].sub, now) = {}
    /\ checkout' = [checkout EXCEPT ![c].pc = "stale", ![c].at = now]
    /\ UNCHANGED <<storeVars, attempts, sessions, providerEvents, paymentEvents, ignored, worker>>

\* A merchant reference no session was ever opened under (randomUUID).
Fresh(a) == a \notin sessions

\* updateMany retires what is open and past its time, then the provider opens
\* a session under a fresh merchant reference (no row refers to it yet, and none
\* will if the request dies or loses the insert below).
ExpireStaleAndOpenSession(c, a) ==
    /\ checkout[c].pc = "stale"
    /\ Fresh(a)
    /\ LET stale == OpenAttempts(checkout[c].sub)
                      \ Unexpired(checkout[c].sub, checkout[c].at)
       IN /\ \A x \in stale : ~AttemptLocked(x)
          /\ attempts' = [x \in Attempts |->
                            IF x \in stale THEN [attempts[x] EXCEPT !.status = "expired"]
                                           ELSE attempts[x]]
    /\ sessions' = sessions \union {a}
    /\ checkout' = [checkout EXCEPT ![c].pc = "insert", ![c].attempt = a]
    /\ UNCHANGED <<storeVars, providerEvents, paymentEvents, ignored, worker>>

\* Mutant: no one-open-attempt index.
InsertAttemptUnchecked(c) ==
    /\ checkout[c].pc = "insert"
    /\ attempts' = [attempts EXCEPT
                      ![checkout[c].attempt] =
                         [ status |-> "pending", sub |-> checkout[c].sub,
                           expiresAt |-> checkout[c].at + AttemptTtl ]]
    /\ checkout' = [checkout EXCEPT ![c] = CheckoutIdle]
    /\ UNCHANGED <<storeVars, sessions, providerEvents, paymentEvents, ignored, worker>>

\* The insert waits for a transaction holding the open row, then the one-open
\* index decides: the row is stored, or the winner's session is used if it is
\* unexpired, or the request fails.  Losing changes nothing in the database.
InsertAttempt(c) ==
    /\ checkout[c].pc = "insert"
    /\ \A a \in OpenAttempts(checkout[c].sub) : ~AttemptLocked(a)
    /\ attempts' = IF OpenAttempts(checkout[c].sub) = {}
                   THEN [attempts EXCEPT
                           ![checkout[c].attempt] =
                              [ status |-> "pending", sub |-> checkout[c].sub,
                                expiresAt |-> checkout[c].at + AttemptTtl ]]
                   ELSE attempts
    /\ checkout' = [checkout EXCEPT ![c] = CheckoutIdle]
    /\ UNCHANGED <<storeVars, sessions, providerEvents, paymentEvents, ignored, worker>>

\* The request dies or the provider refuses; an open transaction rolls back.
CheckoutCrash(c) ==
    /\ checkout[c].pc # "idle"
    /\ checkout' = [checkout EXCEPT ![c] = CheckoutIdle]
    /\ UNCHANGED <<storeVars, attempts, sessions, providerEvents, paymentEvents, ignored, worker>>

-----------------------------------------------------------------------------
(* The provider: any outcome of a session it was asked to open, in any     *)
(* order, delivered any number of times until it is answered 200.          *)

\* Nobody can pay in a session before its attempt is stored, for only then does
\* initiateCheckout hand out the session's address; it may expire before that.
ProviderEmits(e, a) ==
    /\ providerEvents[e] = NotEmitted
    /\ a \in sessions
    /\ \E kind \in EventKinds, exact \in BOOLEAN :
         /\ exact \/ kind = "payment_succeeded"
         /\ attempts[a].status = "none" => kind = "checkout_expired"
         /\ providerEvents' = [providerEvents EXCEPT
                                 ![e] = [kind |-> kind, attempt |-> a, exact |-> exact]]
    /\ UNCHANGED <<storeVars, attempts, sessions, paymentEvents, ignored, checkout, worker>>

-----------------------------------------------------------------------------
(* processWebhookEvent: one transaction per delivery *)

DeliveredTo(w) == providerEvents[worker[w].event]

\* findAttempt finds the row of the event's session.
AttemptKnown(e) ==
    /\ providerEvents[e] # NotEmitted
    /\ attempts[providerEvents[e].attempt].status # "none"

\* ignored_no_attempt: the event is answered 200 and nothing is recorded, so the
\* provider does not deliver it again.
IgnoreEvent(e) ==
    /\ providerEvents[e] # NotEmitted
    /\ ~AttemptKnown(e)
    /\ e \notin ignored
    /\ ignored' = ignored \union {e}
    /\ UNCHANGED <<storeVars, attempts, sessions, providerEvents, paymentEvents, checkout, worker>>

\* Mutants: the charged amount is not compared; a failure is always applied.
NoEffectAnyAmount(event, status) ==
    CASE event.kind = "payment_succeeded" -> status = "succeeded"
      [] event.kind = "payment_failed"    -> status = "succeeded"
      [] OTHER                            -> status # "pending"

NoEffectFailureApplies(event, status) ==
    CASE event.kind = "payment_succeeded" -> status = "succeeded" \/ ~event.exact
      [] event.kind = "payment_failed"    -> FALSE
      [] OTHER                            -> status # "pending"

\* The event has no effect on an attempt of this status.
NoEffect(event, status) ==
    CASE event.kind = "payment_succeeded" -> status = "succeeded" \/ ~event.exact
      [] event.kind = "payment_failed"    -> status = "succeeded"
      [] OTHER                            -> status # "pending"

\* Mutant: the id is looked up instead of inserted first, so a delivery in
\* flight is not noticed.
InFlightUnseen(e) == e \notin EventIds

\* Another transaction has inserted the event id and is still open.
InFlight(e) == \E v \in Workers : worker[v].event = e

\* A delivery past its insert and its read of the attempt.
Recorded(e) == [ pc |-> "recorded", event |-> e,
                 seen |-> attempts[providerEvents[e].attempt].status, at |-> 0 ]

\* recordProviderEventOnce inserts the event row first.  The unique index makes
\* a second delivery of the id wait for the first and then fail as a replay,
\* so a transaction gets past the insert only if the id is neither committed
\* nor in flight.  Then the attempt is read again (a row found stays found).
RecordProviderEvent(w, e) ==
    /\ worker[w].pc = "idle"
    /\ AttemptKnown(e)
    /\ e \notin paymentEvents
    /\ ~InFlight(e)
    /\ IF NoEffect(providerEvents[e], attempts[providerEvents[e].attempt].status)
       THEN /\ paymentEvents' = paymentEvents \union {e}
            /\ UNCHANGED worker
       ELSE /\ worker' = [worker EXCEPT ![w] = Recorded(e)]
            /\ UNCHANGED paymentEvents
    /\ UNCHANGED <<storeVars, attempts, sessions, providerEvents, ignored, checkout>>

\* Mutant: the event's type is stored where its status belongs.
CommitAttemptType(w, status) ==
    /\ attempts' = [attempts EXCEPT
                      ![DeliveredTo(w).attempt].status =
                         IF status = "succeeded" THEN "verified" ELSE status]
    /\ paymentEvents' = paymentEvents \union {worker[w].event}
    /\ worker' = [worker EXCEPT ![w] = WorkerIdle]

\* The attempt's new status, the event row and the end of the transaction.
CommitAttempt(w, status) ==
    /\ attempts' = [attempts EXCEPT ![DeliveredTo(w).attempt].status = status]
    /\ paymentEvents' = paymentEvents \union {worker[w].event}
    /\ worker' = [worker EXCEPT ![w] = WorkerIdle]

\* applyFailed and applyExpired, after their check of the status read.
ApplyUnpaid(w) ==
    /\ worker[w].pc = "recorded"
    /\ DeliveredTo(w).kind # "payment_succeeded"
    /\ ~AttemptLocked(DeliveredTo(w).attempt)
    /\ CommitAttempt(w, IF DeliveredTo(w).kind = "payment_failed" THEN "failed" ELSE "expired")
    /\ UNCHANGED <<storeVars, sessions, providerEvents, ignored, checkout>>

\* Mutant: a payment that cannot activate anything fails the delivery.
ApplySucceededOrFail(w) ==
    /\ worker[w].pc = "recorded"
    /\ DeliveredTo(w).kind = "payment_succeeded"
    /\ ~AttemptLocked(DeliveredTo(w).attempt)
    /\ LET s == attempts[DeliveredTo(w).attempt].sub IN
       worker' = [worker EXCEPT
                    ![w] = IF subscriptions[s].status = "pending" /\ LiveSlotFree(s)
                           THEN [@ EXCEPT !.pc = "paid", !.at = now] ELSE WorkerIdle]
    /\ UNCHANGED <<storeVars, attempts, sessions, providerEvents, paymentEvents, ignored, checkout>>

\* applySucceeded: the update locks the attempt, then the subscription and the
\* seller's live slot are read.  No pending subscription or an occupied slot
\* ends the transaction with the payment recorded and nothing activated.
ApplySucceeded(w) ==
    /\ worker[w].pc = "recorded"
    /\ DeliveredTo(w).kind = "payment_succeeded"
    /\ ~AttemptLocked(DeliveredTo(w).attempt)
    /\ LET s == attempts[DeliveredTo(w).attempt].sub IN
       IF subscriptions[s].status = "pending" /\ LiveSlotFree(s)
       THEN /\ worker' = [worker EXCEPT ![w].pc = "paid", ![w].at = now]
            /\ UNCHANGED <<attempts, paymentEvents>>
       ELSE CommitAttempt(w, "succeeded")
    /\ UNCHANGED <<storeVars, sessions, providerEvents, ignored, checkout>>

\* activatePendingSubscriptionTx reads the row again; no longer pending throws
\* and the whole transaction rolls back (500, the provider delivers again).
ActivateRead(w) ==
    /\ worker[w].pc = "paid"
    /\ worker' = [worker EXCEPT
                    ![w] = IF CanTransition(
                                subscriptions[attempts[DeliveredTo(w).attempt].sub].status,
                                "activate")
                           THEN [@ EXCEPT !.pc = "activating"]
                           ELSE WorkerIdle]
    /\ UNCHANGED <<storeVars, attempts, sessions, providerEvents, paymentEvents, ignored, checkout>>

ActiveRow(row, at) ==
    [row EXCEPT !.status = "active",
                !.currentPeriodEnd = at + TermDays,
                !.graceEndsAt = at + TermDays + GraceDays]

\* Prisma closes an interactive transaction after seconds, so one that began
\* at worker[w].at is rolled back long before a term that began then is over.
TimedOut(w) == worker[w].pc = "activating" /\ now >= worker[w].at + TermDays

\* Update by id and commit; the live-slot index may still roll all of it back.
ActivateWrite(w) ==
    /\ worker[w].pc = "activating"
    /\ ~TimedOut(w)
    /\ LET s == attempts[DeliveredTo(w).attempt].sub IN
       IF LiveSlotFree(s)
       THEN /\ subscriptions' = [subscriptions EXCEPT ![s] = ActiveRow(@, worker[w].at)]
            /\ RecordEvent(s, "pending", "active")
            /\ CommitAttempt(w, "succeeded")
       ELSE /\ worker' = [worker EXCEPT ![w] = WorkerIdle]
            /\ UNCHANGED <<subscriptions, subscriptionEvents, attempts, paymentEvents>>
    /\ UNCHANGED <<now, sessions, providerEvents, ignored, checkout>>

\* The delivery dies or the transaction times out: rolled back.
WebhookCrash(w) ==
    /\ worker[w].pc # "idle"
    /\ worker' = [worker EXCEPT ![w] = WorkerIdle]
    /\ UNCHANGED <<storeVars, attempts, sessions, providerEvents, paymentEvents, ignored, checkout>>

CheckoutStep(c) ==
    \/ \E seller \in Sellers, plan \in Plans : BeginCheckout(c, seller, plan)
    \/ \E s \in Subs : CreatePendingSubscription(c, s)
    \/ ReuseSession(c)
    \/ NoReusableSession(c)
    \/ \E a \in Attempts : ExpireStaleAndOpenSession(c, a)
    \/ InsertAttempt(c)
    \/ CheckoutCrash(c)

WebhookStep(w) ==
    \/ \E e \in EventIds : RecordProviderEvent(w, e)
    \/ ApplyUnpaid(w)
    \/ ApplySucceeded(w)
    \/ ActivateRead(w)
    \/ ActivateWrite(w)
    \/ WebhookCrash(w)
=============================================================================
