-------------------------- MODULE SubscriptionStore --------------------------
(***************************************************************************)
(* The rows every billing process shares: the tables subscriptions and     *)
(* subscription_events and the wall clock.  Postgres runs READ COMMITTED,  *)
(* so a process reads committed rows one statement at a time and keeps     *)
(* what it read; an update by primary key carries no status predicate and  *)
(* overwrites whatever was committed in between.  A transaction's last     *)
(* write and its commit are one action: nobody can see between them.       *)
(***************************************************************************)
EXTENDS SubscriptionStatus, Sequences

CONSTANTS
    Sellers,    \* seller_profiles in good standing
    Plans,      \* active subscription_plans
    Subs,       \* primary keys a subscriptions row may get
    TermDays,   \* subscription_plans.term_days
    GraceDays,  \* SUBSCRIPTION_GRACE_PERIOD_DAYS, 0 allowed
    MaxTime     \* bound: the clock stops here

ASSUME StoreAssumption ==
    /\ TermDays \in Nat \ {0}
    /\ GraceDays \in Nat
    /\ MaxTime \in Nat
    /\ "none" \notin Sellers \union Plans \union Subs

VARIABLES
    subscriptions,      \* [Subs -> row]
    subscriptionEvents, \* [Subs -> append-only sequence of status events]
    now

storeVars == <<subscriptions, subscriptionEvents, now>>

Times == Nat \union {NoTime}

SubscriptionRow ==
    [ status: SubscriptionStatuses \union {"none"},
      seller: Sellers \union {"none"},
      plan: Plans \union {"none"},
      currentPeriodEnd: Times,
      graceEndsAt: Times,
      cancelAt: Times ]

\* A primary key no row has yet.
NoSubscription ==
    [ status |-> "none", seller |-> "none", plan |-> "none",
      currentPeriodEnd |-> NoTime, graceEndsAt |-> NoTime,
      cancelAt |-> NoTime ]

\* subscription_events.from_status is NULL for the creation event.
StatusEvent ==
    [ from: SubscriptionStatuses \union {"none"}, to: SubscriptionStatuses ]

StoreTypeOK ==
    /\ subscriptions \in [Subs -> SubscriptionRow]
    /\ subscriptionEvents \in [Subs -> Seq(StatusEvent)]
    /\ now \in Nat

StoreInit ==
    /\ subscriptions = [s \in Subs |-> NoSubscription]
    /\ subscriptionEvents = [s \in Subs |-> <<>>]
    /\ now = 0

RowsOf(seller, statuses) ==
    { s \in Subs : /\ subscriptions[s].seller = seller
                   /\ subscriptions[s].status \in statuses }

\* Mutant: the partial index lists one of the two live statuses only.
LiveSlotIgnoresActive(s) == RowsOf(subscriptions[s].seller, {"grace_period"}) \subseteq {s}

\* ux_one_live_subscription_per_seller would accept s in a live status.
LiveSlotFree(s) == RowsOf(subscriptions[s].seller, LiveStatuses) \subseteq {s}

\* recordEvent: one immutable row, written by the caller's transaction.
RecordEvent(s, from, to) ==
    subscriptionEvents' = [subscriptionEvents EXCEPT
                             ![s] = Append(@, [from |-> from, to |-> to])]

Tick ==
    /\ now < MaxTime
    /\ now' = now + 1
    /\ UNCHANGED <<subscriptions, subscriptionEvents>>
=============================================================================
