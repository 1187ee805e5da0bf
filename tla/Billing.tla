------------------------------- MODULE Billing -------------------------------
(***************************************************************************)
(* The billing system: checkouts, webhook deliveries, sweeps and owners'   *)
(* requests interleave over the subscription tables.  The state is that of *)
(* the three modules below; every step is a step of one process, of the    *)
(* provider or of the clock.                                               *)
(***************************************************************************)
EXTENDS SubscriptionLifecycle, Payments

vars == <<storeVars, lifecycleVars, paymentVars>>

Init == StoreInit /\ LifecycleInit /\ PaymentsInit

Next ==
    \/ \E c \in Checkouts : CheckoutStep(c) /\ UNCHANGED lifecycleVars
    \/ \E w \in Workers : WebhookStep(w) /\ UNCHANGED lifecycleVars
    \/ \E e \in EventIds, a \in Attempts :
         ProviderEmits(e, a) /\ UNCHANGED lifecycleVars
    \/ \E e \in EventIds : IgnoreEvent(e) /\ UNCHANGED lifecycleVars
    \/ \E w \in Sweepers : SweepStep(w) /\ UNCHANGED paymentVars
    \/ \E o \in Owners : OwnerStep(o) /\ UNCHANGED paymentVars
    \/ Tick /\ UNCHANGED <<lifecycleVars, paymentVars>>

Spec == Init /\ [][Next]_vars

\* Cron starts a sweep again and again while a row is overdue, and a started sweep
\* is not killed every time; the provider redelivers until it gets its 200, and of
\* the deliveries that reach a statement not every one is killed there
\* (docs/PAYMENTS.md: 500 on an error, the retry is deduplicated).  A transaction
\* past its time limit is rolled back.  Nothing is assumed of users or of the clock.
Fairness ==
    /\ \A w \in Sweepers :
         /\ WF_vars(/\ Ended(now) \union Elapsed(now) # {}
                    /\ SweepBegin(w)
                    /\ UNCHANGED paymentVars)
         /\ SF_vars((SweepSelectElapsed(w) \/ SweepEnd(w)) /\ UNCHANGED paymentVars)
         /\ SF_vars(SweepRead(w) /\ UNCHANGED paymentVars)
         /\ SF_vars(SweepWrite(w) /\ UNCHANGED paymentVars)
    /\ SF_vars(/\ \E e \in EventIds \ ignored :
                    IgnoreEvent(e) \/ \E w \in Workers : RecordProviderEvent(w, e)
               /\ UNCHANGED lifecycleVars)
    /\ SF_vars(/\ \E w \in Workers : ApplyUnpaid(w) \/ ApplySucceeded(w)
               /\ UNCHANGED lifecycleVars)
    /\ SF_vars((\E w \in Workers : ActivateRead(w)) /\ UNCHANGED lifecycleVars)
    /\ SF_vars((\E w \in Workers : ActivateWrite(w)) /\ UNCHANGED lifecycleVars)
    /\ WF_vars(/\ \E w \in Workers : TimedOut(w) /\ WebhookCrash(w)
               /\ UNCHANGED lifecycleVars)

FairSpec == Spec /\ Fairness

-----------------------------------------------------------------------------
(* Invariants of every interleaving *)

\* Types of every table and of what each process holds: rows are written from
\* values read earlier, so this also says nothing vanished in between.
TypeOK == StoreTypeOK /\ LifecycleTypeOK /\ PaymentsTypeOK

\* A seller never holds two live subscriptions, whichever of checkout,
\* webhook and sweep raced (ux_one_live_subscription_per_seller).
OneLivePerSeller ==
    \A s, t \in Subs :
        /\ subscriptions[s].status \in LiveStatuses
        /\ subscriptions[t].status \in LiveStatuses
        /\ subscriptions[s].seller = subscriptions[t].seller
        => s = t

\* createPendingSubscription: the advisory lock alone makes the insert of a
\* pending row safe, so ux_one_pending_subscription_per_seller is never hit
\* ("no find-then-insert race and no ping-pong").
NoPendingCollision ==
    \A c \in Checkouts : checkout[c].pc = "locked" => ~PendingConflict(c)

\* A pending subscription has at most one open checkout attempt, although
\* concurrent initiations retire, create and insert in separate statements.
OneOpenAttempt ==
    \A a, b \in Attempts :
        /\ attempts[a].status = "pending"
        /\ attempts[b].status = "pending"
        /\ attempts[a].sub = attempts[b].sub
        => a = b

\* recordProviderEventOnce: a delivery that is past its insert works on an
\* event nobody else has applied or is applying, so redeliveries and
\* concurrent deliveries of one id have their effect once.
AppliedOnce ==
    \A w \in Workers : worker[w].pc # "idle" =>
        /\ worker[w].event \notin paymentEvents
        /\ \A v \in Workers \ {w} : worker[v].event # worker[w].event

PaymentRecorded(s) ==
    \E e \in paymentEvents :
        /\ providerEvents[e].kind = "payment_succeeded"
        /\ providerEvents[e].exact
        /\ attempts[providerEvents[e].attempt].sub = s

\* A row that is live or has expired is backed by a recorded, matching payment
\* for that very row: no checkout, failure, mismatch, sweep or race grants
\* access.  (A cancelled row may have been superseded before it was paid.)
AccessIsPaidFor ==
    \A s \in Subs :
        subscriptions[s].status \notin {"none", "pending", "cancelled"}
            => PaymentRecorded(s)

-----------------------------------------------------------------------------
(* Action properties *)

\* "it can never extend access": the end of a row's entitlement moves later
\* only in the transaction that records a matching payment for the row.
AccessGrowsOnlyByPayment ==
    [][\A s \in Subs :
         EffectiveEnd(subscriptions'[s]) > EffectiveEnd(subscriptions[s]) =>
           \E e \in paymentEvents' \ paymentEvents :
             /\ providerEvents[e].kind = "payment_succeeded"
             /\ providerEvents[e].exact
             /\ attempts[providerEvents[e].attempt].sub = s]_vars

\* A seller keeps what was paid for: a live row is cancelled only once its paid
\* period is over and expired only once its grace is over.
PaidPeriodIsKept ==
    [][\A s \in Subs :
         subscriptions[s].status \in LiveStatuses =>
           /\ subscriptions'[s].status = "cancelled"
                => now >= subscriptions[s].currentPeriodEnd
           /\ subscriptions'[s].status = "expired"
                => now >= subscriptions[s].graceEndsAt]_vars

\* "expired/cancelled rows are never revived."
TerminalIsFinal ==
    [][\A s \in Subs :
         subscriptions[s].status \in TerminalStatuses
            => subscriptions'[s].status = subscriptions[s].status]_vars

\* "success is terminal for the attempt."
SuccessIsFinal ==
    [][\A a \in Attempts :
         attempts[a].status = "succeeded" => attempts'[a].status = "succeeded"]_vars

\* What is true of it: the one step that takes success from an attempt commits a
\* failure or expiry whose delivery read the attempt before the success was
\* committed.  No checkout retires a paid attempt, and no delivery that begins
\* after the payment is recorded undoes it, in whatever order events arrive.
SuccessYieldsOnlyToStaleReads ==
    [][\A a \in Attempts :
         attempts[a].status = "succeeded" /\ attempts'[a].status # "succeeded" =>
           \E w \in Workers :
             /\ worker[w].pc = "recorded"
             /\ worker[w].seen # "succeeded"
             /\ DeliveredTo(w).attempt = a
             /\ DeliveredTo(w).kind # "payment_succeeded"
             /\ paymentEvents' = paymentEvents \union {worker[w].event}]_vars

\* The status events of a row form one chain from its creation to its current
\* status: nothing was overwritten unseen.
Changes(s) ==
    { i \in DOMAIN subscriptionEvents[s] :
        subscriptionEvents[s][i].from # subscriptionEvents[s][i].to }

\* The changes before the n-th event left the row in this status.
LedTo(s, n, status) ==
    LET before == { i \in Changes(s) : i < n } IN
    \/ before = {} /\ status = "none"
    \/ \E i \in before : /\ \A j \in before : j <= i
                         /\ subscriptionEvents[s][i].to = status

Chained(s) ==
    /\ \A i \in Changes(s) : LedTo(s, i, subscriptionEvents[s][i].from)
    /\ LedTo(s, Len(subscriptionEvents[s]) + 1, subscriptions[s].status)

HistoryIsAChain == \A s \in Subs : Chained(s)

-----------------------------------------------------------------------------
(* The contract, and liveness *)

Contract == INSTANCE SubscriptionContract WITH
    status <- [s \in Subs |-> subscriptions[s].status],
    seller <- [s \in Subs |-> subscriptions[s].seller]

\* Rows are written by id with no status predicate.  What a sweep, a checkout
\* holding the advisory lock and an activation are about to write was decided on
\* the status the row still has.
SweepsAreCurrent ==
    \A w \in Sweepers : sweeper[w].pc \in {"active_write", "grace_write"} =>
        subscriptions[sweeper[w].item.id].status = sweeper[w].seen

CheckoutsAreCurrent ==
    \A c \in Checkouts : checkout[c].pc = "locked" /\ checkout[c].sub # "none" =>
        subscriptions[checkout[c].sub].status = "pending"

ActivationsAreCurrent ==
    \A w \in Workers : worker[w].pc = "activating" =>
        subscriptions[attempts[DeliveredTo(w).attempt].sub].status = "pending"

WritesAreCurrent == SweepsAreCurrent /\ CheckoutsAreCurrent /\ ActivationsAreCurrent

\* createPendingSubscription, the webhook and the sweep move and create rows as
\* the contract says, whatever else is under way, in every step from a state in
\* which no process holds a decision on a status the row no longer has.
CurrentStepsFollowContract ==
    [][WritesAreCurrent => Contract!ContractNext]_(Contract!contractVars)

\* Every step moves rows as the contract says.  The code does not promise this:
\* two sweeps, or a plan change during a payment, write over what they did not see.
ImplementsContract == Contract!ContractSpec

\* A live row whose window has passed does not stay live: the stored status catches
\* up with isEntitling, although sweeps crash and throw.
OverdueIsSwept ==
    \A s \in Subs :
        (/\ subscriptions[s].status \in LiveStatuses
         /\ ~IsEntitling(subscriptions[s], now))
            ~> subscriptions[s].status \notin LiveStatuses

\* Every outcome the provider has to tell is eventually answered, and recorded if
\* its attempt was stored before that, although deliveries crash, wait for each
\* other's rows, lose the live slot or their pending row, roll back and are repeated.
EventsAreRecorded ==
    \A e \in EventIds :
        /\ providerEvents[e] # NotEmitted ~> e \in paymentEvents \union ignored
        /\ AttemptKnown(e) /\ e \notin ignored ~> e \in paymentEvents
=============================================================================
