------------------------- MODULE BillingTransitions -------------------------
(***************************************************************************)
(* How rows move: every write of Billing follows the contract and extends  *)
(* the history, provided the status it was decided on is still there.      *)
(* Writes are by id with no status predicate, so this proviso is what the  *)
(* code relies on, and nothing but a write that has lost it can leave the  *)
(* contract.  Each theorem states what it needs of concurrency, if any.    *)
(***************************************************************************)
EXTENDS BillingProofs

\* The row of a delivery under way.
RowOf(w) == attempts[DeliveredTo(w).attempt].sub

\* No two deliveries are about to activate one row.
ActivationsApart ==
    \A v, w \in Workers :
        /\ worker[v].pc = "activating"
        /\ worker[w].pc = "activating"
        /\ RowOf(v) = RowOf(w)
        => v = w

\* No checkout is about to supersede a row that a delivery is about to activate.
SupersedesApart ==
    \A c \in Checkouts, w \in Workers :
        checkout[c].pc = "locked" /\ worker[w].pc = "activating" => RowOf(w) # checkout[c].sub

-----------------------------------------------------------------------------
(* What processes hold of rows, under any concurrency *)

\* A row a sweep has selected exists and is past pending, for ever.
SweptIsOld ==
    \A w \in Sweepers : \A i \in sweeper[w].todo :
        subscriptions[i.id].status \notin {"none", "pending"}

\* The status a sweep decided on was live, and its transition legal from it.
SeenIsLegal ==
    \A w \in Sweepers : sweeper[w].pc \in {"active_write", "grace_write"} =>
        /\ sweeper[w].seen \in LiveStatuses
        /\ CanTransition(sweeper[w].seen, SweepAction(sweeper[w], sweeper[w].item))

\* The pending row a checkout is about to supersede is its own seller's.
LockedIsOwn ==
    \A c \in Checkouts : checkout[c].pc = "locked" /\ checkout[c].sub # "none" =>
        /\ checkout[c].sub \in Subs
        /\ subscriptions[checkout[c].sub].status # "none"
        /\ subscriptions[checkout[c].sub].seller = checkout[c].seller

HoldingsInv == SweptIsOld /\ SeenIsLegal /\ LockedIsOwn

-----------------------------------------------------------------------------
(* Period and grace ends, with one delivery at a time *)

\* A row has both ends or neither, a grace length apart, as its status says.
RowTimes(row) ==
    \/ /\ row.status \in {"none", "pending", "cancelled"}
       /\ row.currentPeriodEnd = NoTime
       /\ row.graceEndsAt = NoTime
    \/ /\ row.status \in {"active", "grace_period", "expired", "cancelled"}
       /\ row.currentPeriodEnd \in Nat
       /\ row.graceEndsAt = row.currentPeriodEnd + GraceDays

RowsHaveTimes == \A s \in Subs : RowTimes(subscriptions[s])

\* An activation about to write found its row pending: it never had a period.
ActivatingIsNew ==
    \A w \in Workers : worker[w].pc = "activating" =>
        subscriptions[attempts[DeliveredTo(w).attempt].sub].currentPeriodEnd = NoTime

\* A sweep holds the period ends its rows still have, and those have passed.
SweptTimes ==
    \A w \in Sweepers :
        /\ sweeper[w].at <= now
        /\ \A i \in sweeper[w].todo :
             /\ i.currentPeriodEnd \in Nat
             /\ i.currentPeriodEnd = subscriptions[i.id].currentPeriodEnd
             /\ sweeper[w].pc \in {"active", "active_write"} =>
                  i.currentPeriodEnd <= sweeper[w].at
             /\ sweeper[w].pc \in {"grace", "grace_write"} =>
                  subscriptions[i.id].graceEndsAt <= sweeper[w].at

TimesInv == RowsHaveTimes /\ ActivatingIsNew /\ SweptTimes

-----------------------------------------------------------------------------
(* What a sweep's step does to what it holds *)

\* The new record of sweep w: over, selecting, about to write, or past it.
SweepStops(w) == sweeper'[w] = SweepIdle

SweepStarts(w) ==
    /\ sweeper'[w].pc = "active"
    /\ sweeper'[w].at = now
    /\ sweeper'[w].todo = Selected(Ended(now))

SweepDecides(w) ==
    /\ sweeper'[w].pc = IF sweeper[w].pc = "active" THEN "active_write" ELSE "grace_write"
    /\ sweeper[w].pc \in {"active", "grace"}
    /\ sweeper'[w].at = sweeper[w].at
    /\ sweeper'[w].todo = sweeper[w].todo
    /\ sweeper'[w].item \in sweeper[w].todo
    /\ sweeper'[w].seen = subscriptions[sweeper'[w].item.id].status
    /\ CanTransition(sweeper'[w].seen, SweepAction(sweeper'[w], sweeper'[w].item))

SweepGoesOn(w) ==
    /\ sweeper'[w].pc = IF sweeper[w].pc = "active_write" THEN "active" ELSE "grace"
    /\ sweeper[w].pc \in {"active_write", "grace_write"}
    /\ sweeper'[w].at = sweeper[w].at
    /\ sweeper'[w].todo \subseteq sweeper[w].todo

SweepTurnsToGrace(w) ==
    /\ sweeper'[w].pc = "grace"
    /\ sweeper'[w].at = sweeper[w].at
    /\ sweeper'[w].todo = Selected(Elapsed(sweeper[w].at))

\* The decision of a sweep: the row's status now, from which the move is legal.
LEMMA SweepReadDecides ==
    ASSUME WellFormed, NEW w \in Sweepers, SweepRead(w)
    PROVE  SweepStops(w) \/ SweepDecides(w)
  <1>1. sweeper \in [Sweepers -> SweepRun] /\ sweeper[w] \in SweepRun
    BY DEF WellFormed, TypeOK, LifecycleTypeOK
  <1>2. sweeper[w].pc \in {"active", "grace"}
    BY DEF SweepRead
  <1>3. PICK item \in sweeper[w].todo :
          LET seen == subscriptions[item.id].status IN
          IF CanTransition(seen, SweepAction(sweeper[w], item))
          THEN sweeper' = [sweeper EXCEPT
                             ![w].pc = IF @ = "active" THEN "active_write"
                                                       ELSE "grace_write",
                             ![w].item = item,
                             ![w].seen = seen]
          ELSE sweeper' = [sweeper EXCEPT ![w] = SweepIdle]
    BY DEF SweepRead
  <1> DEFINE seen == subscriptions[item.id].status
  <1>4. CASE ~CanTransition(seen, SweepAction(sweeper[w], item))
    BY <1>1, <1>3, <1>4 DEF SweepStops
  <1>5. CASE CanTransition(seen, SweepAction(sweeper[w], item))
    <2>1. sweeper' = [sweeper EXCEPT
                             ![w].pc = IF @ = "active" THEN "active_write"
                                                       ELSE "grace_write",
                             ![w].item = item,
                             ![w].seen = seen]
      BY <1>3, <1>5
    <2>2. /\ sweeper'[w].pc = IF sweeper[w].pc = "active" THEN "active_write"
                                                          ELSE "grace_write"
          /\ sweeper'[w].at = sweeper[w].at
          /\ sweeper'[w].todo = sweeper[w].todo
          /\ sweeper'[w].item = item
          /\ sweeper'[w].seen = seen
      BY <1>1, <2>1 DEF SweepRun
    <2>3. SweepAction(sweeper'[w], item) = SweepAction(sweeper[w], item)
      BY <1>2, <2>2 DEF SweepAction
    <2> QED
      BY <1>2, <1>3, <1>5, <2>2, <2>3 DEF SweepDecides
  <1> QED
    BY <1>4, <1>5

\* Every step of a sweep, by what it does to the sweep's own record.
LEMMA SweepStepHolds ==
    ASSUME WellFormed, NEW w \in Sweepers, SweepStep(w)
    PROVE  /\ \A v \in Sweepers \ {w} : sweeper'[v] = sweeper[v]
           /\ \/ SweepStops(w)
              \/ SweepStarts(w)
              \/ SweepDecides(w)
              \/ SweepWrite(w) /\ SweepGoesOn(w)
              \/ SweepTurnsToGrace(w)
  <1>1. sweeper \in [Sweepers -> SweepRun] /\ sweeper[w] \in SweepRun
    BY DEF WellFormed, TypeOK, LifecycleTypeOK
  <1>2. \A v \in Sweepers \ {w} : sweeper'[v] = sweeper[v]
    BY <1>1 DEF SweepStep, SweepBegin, SweepRead, SweepWrite, SweepSelectElapsed,
                SweepEnd, SweepCrash
  <1>3. SweepBegin(w) => SweepStarts(w)
    BY <1>1 DEF SweepBegin, SweepStarts, SweepIdle
  <1>4. SweepRead(w) => SweepStops(w) \/ SweepDecides(w)
    BY SweepReadDecides
  <1>5. SweepWrite(w) => SweepStops(w) \/ SweepGoesOn(w)
    BY <1>1 DEF SweepWrite, SweepStops, SweepGoesOn, SweepRun
  <1>6. SweepSelectElapsed(w) => SweepTurnsToGrace(w)
    BY <1>1 DEF SweepSelectElapsed, SweepTurnsToGrace, SweepRun
  <1>7. SweepEnd(w) \/ SweepCrash(w) => SweepStops(w)
    BY <1>1 DEF SweepEnd, SweepCrash, SweepStops
  <1> QED
    BY <1>2, <1>3, <1>4, <1>5, <1>6, <1>7 DEF SweepStep

\* Who changes what sweeps hold: sweeps only.
LEMMA OthersLeaveSweeps ==
    ASSUME [Next]_vars, ~\E w \in Sweepers : SweepStep(w)
    PROVE  UNCHANGED sweeper
  <1>1. ASSUME NEW o \in Owners, OwnerStep(o)
        PROVE  UNCHANGED sweeper
    BY <1>1 DEF OwnerStep, ScheduleCancellation, ResumeSubscription, OwnerReads,
                OwnerCommit, OwnerCrash
  <1> QED
    BY <1>1 DEF Next, vars, lifecycleVars

\* A row that exists is never a new row again, and a row keeps its seller.
LEMMA RowsStayOld ==
    ASSUME WellFormed, [Next]_vars, NEW s \in Subs, subscriptions[s].status # "none"
    PROVE  /\ subscriptions'[s].status # "none"
           /\ subscriptions'[s].seller = subscriptions[s].seller
           /\ subscriptions[s].status # "pending" => subscriptions'[s].status # "pending"
  BY StoreAssumption, StepMoves DEF CreatesPending, MovesOne, MovesNone

\* What a sweep selects are live rows.
LEMMA SelectedIsLive ==
    ASSUME WellFormed, NEW t,
           NEW i \in Selected(Ended(t)) \union Selected(Elapsed(t))
    PROVE  i.id \in Subs /\ subscriptions[i.id].status \in LiveStatuses
  BY DEF Selected, Ended, Elapsed, LiveStatuses

\* Selected rows stay past pending and decisions stay legal.
LEMMA NextSweptIsOld ==
    ASSUME WellFormed, HoldingsInv, [Next]_vars
    PROVE  SweptIsOld' /\ SeenIsLegal'
  <1>1. \A w \in Sweepers : \A i \in sweeper[w].todo : i.id \in Subs
    BY DEF WellFormed, TypeOK, LifecycleTypeOK, SweepRun, SweepItem
  <1>2. \A w \in Sweepers : \A i \in sweeper[w].todo :
          subscriptions'[i.id].status \notin {"none", "pending"}
    BY <1>1, RowsStayOld DEF HoldingsInv, SweptIsOld
  <1>3. CASE UNCHANGED sweeper
    BY <1>2, <1>3 DEF HoldingsInv, SweptIsOld, SeenIsLegal
  <1>4. ASSUME NEW w \in Sweepers, SweepStep(w)
        PROVE  SweptIsOld' /\ SeenIsLegal'
    <2>1. \A v \in Sweepers \ {w} : sweeper'[v] = sweeper[v]
      BY <1>4, SweepStepHolds
    <2>2. SUFFICES /\ \A i \in sweeper'[w].todo :
                        subscriptions'[i.id].status \notin {"none", "pending"}
                   /\ sweeper'[w].pc \in {"active_write", "grace_write"} =>
                        /\ sweeper'[w].seen \in LiveStatuses
                        /\ CanTransition(sweeper'[w].seen,
                                         SweepAction(sweeper'[w], sweeper'[w].item))
      BY <1>2, <2>1 DEF HoldingsInv, SweptIsOld, SeenIsLegal
    <2>3. CASE SweepStops(w)
      BY <2>3 DEF SweepStops, SweepIdle
    <2>4. CASE SweepStarts(w) \/ SweepTurnsToGrace(w)
      <3>1. \A i \in sweeper'[w].todo :
              i.id \in Subs /\ subscriptions[i.id].status \in LiveStatuses
        BY <2>4, SelectedIsLive DEF SweepStarts, SweepTurnsToGrace
      <3>2. \A i \in sweeper'[w].todo :
              subscriptions'[i.id].status \notin {"none", "pending"}
        BY <3>1, RowsStayOld DEF LiveStatuses
      <3> QED
        BY <2>4, <3>2 DEF SweepStarts, SweepTurnsToGrace
    <2>5. CASE SweepDecides(w)
      <3>1. sweeper'[w].seen \notin {"none", "pending"}
        BY <2>5 DEF SweepDecides, HoldingsInv, SweptIsOld
      <3>2. SweepAction(sweeper'[w], sweeper'[w].item) \in {"expire", "cancel", "enter_grace"}
        BY DEF SweepAction
      <3>3. sweeper'[w].seen \in LiveStatuses
        BY <2>5, <3>1, <3>2
        DEF SweepDecides, CanTransition, SubscriptionTransitions, LiveStatuses
      <3> QED
        BY <1>2, <2>5, <3>3 DEF SweepDecides
    <2>6. CASE SweepGoesOn(w)
      BY <1>2, <2>6 DEF SweepGoesOn
    <2> QED
      BY <1>4, <2>3, <2>4, <2>5, <2>6, SweepStepHolds
  <1> QED
    BY <1>3, <1>4, OthersLeaveSweeps

\* Who takes the advisory lock: a checkout that begins.
LEMMA LockedWasLocked ==
    ASSUME WellFormed, [Next]_vars, NEW c \in Checkouts, checkout'[c].pc = "locked",
           ~\E seller \in Sellers, plan \in Plans : BeginCheckout(c, seller, plan)
    PROVE  checkout'[c] = checkout[c]
  <1>1. ASSUME NEW w \in Workers, WebhookStep(w)
        PROVE  UNCHANGED checkout
    BY <1>1 DEF WebhookStep, RecordProviderEvent, ApplyUnpaid, ApplySucceeded,
                ActivateRead, ActivateWrite, WebhookCrash
  <1>2. ASSUME NEW e \in EventIds, NEW a \in Attempts, ProviderEmits(e, a)
        PROVE  UNCHANGED checkout
    BY <1>2 DEF ProviderEmits
  <1>3. ASSUME NEW d \in Checkouts, CheckoutStep(d)
        PROVE  checkout'[c] = checkout[c]
    <2>1. checkout \in [Checkouts -> CheckoutRequest]
      BY DEF WellFormed, TypeOK, PaymentsTypeOK
    <2>2. CASE d # c
      BY <1>3, <2>1, <2>2
      DEF CheckoutStep, BeginCheckout, CreatePendingSubscription, ReuseSession,
          NoReusableSession, ExpireStaleAndOpenSession, InsertAttempt, CheckoutCrash
    <2>3. CASE d = c
      BY <1>3, <2>1, <2>3
      DEF CheckoutStep, CreatePendingSubscription, ReuseSession, NoReusableSession,
          ExpireStaleAndOpenSession, InsertAttempt, CheckoutCrash, CheckoutIdle,
          CheckoutRequest
    <2> QED
      BY <2>2, <2>3
  <1>4. ASSUME NEW e \in EventIds, IgnoreEvent(e)
        PROVE  UNCHANGED checkout
    BY <1>4 DEF IgnoreEvent
  <1> QED
    BY <1>1, <1>2, <1>4, <1>3 DEF Next, vars, paymentVars

\* The row a checkout begins with: none, or a pending row of its seller.
LEMMA BeginCheckoutHolds ==
    ASSUME WellFormed, NEW c \in Checkouts, NEW seller \in Sellers, NEW plan \in Plans,
           BeginCheckout(c, seller, plan)
    PROVE  /\ UNCHANGED subscriptions
           /\ checkout'[c].seller = seller
           /\ checkout'[c].sub # "none" =>
                /\ checkout'[c].sub \in RowsOf(seller, {"pending"})
                /\ checkout'[c].pc = "locked" =>
                     subscriptions[checkout'[c].sub].plan # plan
  <1>1. PICK s \in IF RowsOf(seller, {"pending"}) = {} THEN {"none"}
                                                       ELSE RowsOf(seller, {"pending"}) :
          checkout' = [checkout EXCEPT
                        ![c] = [CheckoutIdle EXCEPT
                                  !.pc = IF s = "none" THEN "locked"
                                         ELSE IF subscriptions[s].plan = plan
                                              THEN "reuse" ELSE "locked",
                                  !.sub = s, !.seller = seller, !.plan = plan]]
    BY DEF BeginCheckout
  <1>2. /\ checkout'[c].pc = IF s = "none" THEN "locked"
                             ELSE IF subscriptions[s].plan = plan THEN "reuse" ELSE "locked"
        /\ checkout'[c].sub = s
        /\ checkout'[c].seller = seller
    BY <1>1 DEF WellFormed, TypeOK, PaymentsTypeOK, CheckoutIdle
  <1>3. s # "none" => s \in RowsOf(seller, {"pending"})
    OBVIOUS
  <1>4. UNCHANGED subscriptions
    BY DEF BeginCheckout, storeVars
  <1> QED
    BY <1>2, <1>3, <1>4

\* The row a checkout holds stays its seller's.
LEMMA NextLockedIsOwn ==
    ASSUME WellFormed, HoldingsInv, [Next]_vars
    PROVE  LockedIsOwn'
  <1> SUFFICES ASSUME NEW c \in Checkouts, checkout'[c].pc = "locked",
                      checkout'[c].sub # "none"
               PROVE  /\ checkout'[c].sub \in Subs
                      /\ subscriptions'[checkout'[c].sub].status # "none"
                      /\ subscriptions'[checkout'[c].sub].seller = checkout'[c].seller
    BY DEF LockedIsOwn
  <1>1. CASE \E seller \in Sellers, plan \in Plans : BeginCheckout(c, seller, plan)
    <2>1. PICK seller \in Sellers, plan \in Plans : BeginCheckout(c, seller, plan)
      BY <1>1
    <2> QED
      BY <2>1, BeginCheckoutHolds DEF RowsOf
  <1>2. CASE ~\E seller \in Sellers, plan \in Plans : BeginCheckout(c, seller, plan)
    <2>1. checkout'[c] = checkout[c]
      BY <1>2, LockedWasLocked
    <2>2. /\ checkout[c].sub \in Subs
          /\ subscriptions[checkout[c].sub].status # "none"
          /\ subscriptions[checkout[c].sub].seller = checkout[c].seller
      BY <2>1 DEF HoldingsInv, LockedIsOwn
    <2> QED
      BY <2>1, <2>2, RowsStayOld
  <1> QED
    BY <1>1, <1>2

\* Whatever runs together, a sweep holds rows past pending with a legal move to
\* make, and a checkout only ever supersedes a row of its own seller.
THEOREM HoldingsAreSound == Spec => []HoldingsInv
  <1>1. Init => HoldingsInv
    BY DEF Init, StoreInit, LifecycleInit, PaymentsInit, HoldingsInv, SweptIsOld,
           SeenIsLegal, LockedIsOwn, SweepIdle, CheckoutIdle
  <1>2. WellFormed /\ HoldingsInv /\ [Next]_vars => HoldingsInv'
    BY NextSweptIsOld, NextLockedIsOwn DEF HoldingsInv
  <1> QED
    BY <1>1, <1>2, AlwaysWellFormed, PTL DEF Spec

-----------------------------------------------------------------------------
(* The ends of periods, step by step *)

TimesKept ==
    \A x \in Subs :
        /\ subscriptions'[x].currentPeriodEnd = subscriptions[x].currentPeriodEnd
        /\ subscriptions'[x].graceEndsAt = subscriptions[x].graceEndsAt

\* Delivery w commits the activation of its attempt's row.
Activates(w) ==
    LET s == attempts[DeliveredTo(w).attempt].sub IN
    /\ ActivateWrite(w)
    /\ CommitAttempt(w, "succeeded")
    /\ s \in Subs
    /\ LiveSlotFree(s)
    /\ RecordEvent(s, "pending", "active")
    /\ subscriptions'[s] = ActiveRow(subscriptions[s], worker[w].at)
    /\ \A x \in Subs \ {s} : subscriptions'[x] = subscriptions[x]

\* An activation's write either commits all of it or changes no table.
LEMMA ActivateWriteCommits ==
    ASSUME WellFormed, NEW w \in Workers, ActivateWrite(w)
    PROVE  \/ Activates(w)
           \/ UNCHANGED <<subscriptions, subscriptionEvents, attempts, paymentEvents>>
  <1> DEFINE s == attempts[DeliveredTo(w).attempt].sub
             row == ActiveRow(subscriptions[s], worker[w].at)
  <1>1. s \in Subs
    BY DeliveryHolds DEF ActivateWrite
  <1>2. CASE LiveSlotFree(s)
    <2>1. /\ subscriptions' = [subscriptions EXCEPT ![s] = row]
          /\ CommitAttempt(w, "succeeded")
          /\ RecordEvent(s, "pending", "active")
      BY <1>2 DEF ActivateWrite
    <2> HIDE DEF row
    <2>2. subscriptions'[s] = row /\ \A x \in Subs \ {s} : subscriptions'[x] = subscriptions[x]
      BY <1>1, <2>1 DEF WellFormed, TypeOK, StoreTypeOK
    <2> USE DEF row
    <2> QED
      BY <1>1, <1>2, <2>1, <2>2 DEF Activates
  <1>3. CASE ~LiveSlotFree(s)
    BY <1>3 DEF ActivateWrite
  <1> QED
    BY <1>2, <1>3

\* The fields of an activated row.
LEMMA ActiveRowFields ==
    ASSUME StoreAssumption, NEW row \in SubscriptionRow, NEW at \in Nat
    PROVE  /\ ActiveRow(row, at).status = "active"
           /\ ActiveRow(row, at).seller = row.seller
           /\ ActiveRow(row, at).currentPeriodEnd = at + TermDays
           /\ ActiveRow(row, at).graceEndsAt = at + TermDays + GraceDays
           /\ RowTimes(ActiveRow(row, at))
  <1>1. /\ ActiveRow(row, at).status = "active"
        /\ ActiveRow(row, at).seller = row.seller
        /\ ActiveRow(row, at).currentPeriodEnd = at + TermDays
        /\ ActiveRow(row, at).graceEndsAt = at + TermDays + GraceDays
    BY DEF ActiveRow, SubscriptionRow
  <1>2. at + TermDays \in Nat
    BY DEF StoreAssumption
  <1> QED
    BY <1>1, <1>2 DEF RowTimes

\* An activation gives its row both ends.
LEMMA ActivatesTimes ==
    ASSUME StoreAssumption, WellFormed, RowsHaveTimes, NEW w \in Workers, Activates(w)
    PROVE  RowsHaveTimes'
  <1> DEFINE s == attempts[DeliveredTo(w).attempt].sub
  <1>1. s \in Subs /\ worker[w].at \in Nat /\ subscriptions[s] \in SubscriptionRow
    BY DEF Activates, WellFormed, TypeOK, StoreTypeOK, PaymentsTypeOK, Delivery
  <1>2. RowTimes(ActiveRow(subscriptions[s], worker[w].at))
    BY <1>1, ActiveRowFields
  <1> QED
    BY <1>2 DEF Activates, RowsHaveTimes, RowTimes

\* What a sweep patches: the status, and a grace end that was there already.
LEMMA SweepPatchTimes ==
    ASSUME NEW row \in SubscriptionRow, RowTimes(row), row.currentPeriodEnd \in Nat,
           NEW run, NEW item, item.currentPeriodEnd = row.currentPeriodEnd
    PROVE  /\ SweepPatch(row, run, item).currentPeriodEnd = row.currentPeriodEnd
           /\ SweepPatch(row, run, item).graceEndsAt = row.graceEndsAt
           /\ RowTimes(SweepPatch(row, run, item))
  <1>1. row.graceEndsAt = row.currentPeriodEnd + GraceDays
    BY DEF RowTimes, NoTime
  <1>2. SweepAction(run, item) \in {"expire", "cancel", "enter_grace"}
    BY DEF SweepAction
  <1>3. /\ TransitionTarget("expire") = "expired"
        /\ TransitionTarget("cancel") = "cancelled"
    BY DEF TransitionTarget, SubscriptionTransitions
  <1>4. /\ SweepPatch(row, run, item).currentPeriodEnd = row.currentPeriodEnd
        /\ SweepPatch(row, run, item).graceEndsAt = row.graceEndsAt
        /\ SweepPatch(row, run, item).status \in {"grace_period", "expired", "cancelled"}
    BY <1>1, <1>2, <1>3 DEF SweepPatch, SubscriptionRow
  <1> QED
    BY <1>1, <1>4 DEF RowTimes

\* A sweep's write moves no end of any period.
LEMMA SweepWriteTimes ==
    ASSUME WellFormed, TimesInv, NEW w \in Sweepers, SweepWrite(w)
    PROVE  TimesKept /\ RowsHaveTimes'
  <1> DEFINE item == sweeper[w].item
             s == item.id
             row == SweepPatch(subscriptions[s], sweeper[w], item)
  <1>1. item \in sweeper[w].todo
    BY DEF WellFormed, SweepHolds, SweepWrite
  <1>2. s \in Subs /\ subscriptions[s] \in SubscriptionRow
    BY <1>1 DEF WellFormed, TypeOK, StoreTypeOK, LifecycleTypeOK, SweepRun, SweepItem
  <1>3. /\ RowTimes(subscriptions[s])
        /\ subscriptions[s].currentPeriodEnd \in Nat
        /\ item.currentPeriodEnd = subscriptions[s].currentPeriodEnd
    BY <1>1, <1>2 DEF TimesInv, RowsHaveTimes, SweptTimes
  <1>4. /\ row.currentPeriodEnd = subscriptions[s].currentPeriodEnd
        /\ row.graceEndsAt = subscriptions[s].graceEndsAt
        /\ RowTimes(row)
    BY <1>2, <1>3, SweepPatchTimes
  <1>5. UNCHANGED subscriptions \/ subscriptions' = [subscriptions EXCEPT ![s] = row]
    BY DEF SweepWrite, storeVars
  <1> HIDE DEF row
  <1>6. CASE UNCHANGED subscriptions
    BY <1>6 DEF TimesKept, TimesInv, RowsHaveTimes
  <1>7. CASE subscriptions' = [subscriptions EXCEPT ![s] = row]
    <2>1. subscriptions'[s] = row /\ \A x \in Subs \ {s} : subscriptions'[x] = subscriptions[x]
      BY <1>2, <1>7 DEF WellFormed, TypeOK, StoreTypeOK
    <2> QED
      BY <1>4, <2>1 DEF TimesKept, TimesInv, RowsHaveTimes
  <1> QED
    BY <1>5, <1>6, <1>7

\* An owner's commit moves no end of any period.
LEMMA OwnerCommitTimes ==
    ASSUME WellFormed, RowsHaveTimes, NEW o \in Owners, OwnerCommit(o)
    PROVE  TimesKept /\ RowsHaveTimes'
  <1>1. subscriptions' = [subscriptions EXCEPT ![owner[o].sub].cancelAt = owner[o].cancelAt]
    BY DEF OwnerCommit
  <1>2. subscriptions \in [Subs -> SubscriptionRow]
    BY DEF WellFormed, TypeOK, StoreTypeOK
  <1>3. \A x \in Subs :
          /\ subscriptions'[x].currentPeriodEnd = subscriptions[x].currentPeriodEnd
          /\ subscriptions'[x].graceEndsAt = subscriptions[x].graceEndsAt
          /\ subscriptions'[x].status = subscriptions[x].status
    BY <1>1, <1>2 DEF SubscriptionRow
  <1> QED
    BY <1>3 DEF TimesKept, RowsHaveTimes, RowTimes

\* A new pending row has no period, like the key it takes; a superseded one
\* keeps what it had.
LEMMA CreatePendingTimes ==
    ASSUME WellFormed, RowsHaveTimes, NEW c \in Checkouts, NEW s \in Subs,
           CreatePendingSubscription(c, s)
    PROVE  TimesKept /\ RowsHaveTimes'
  <1> DEFINE created == PendingRow(checkout[c].seller, checkout[c].plan)
             retired(x) == Superseded(subscriptions[x])
  <1>1. /\ created.status = "pending"
        /\ created.currentPeriodEnd = NoTime
        /\ created.graceEndsAt = NoTime
    BY DEF PendingRow, NoSubscription
  <1>2. \A x \in Subs : /\ retired(x).status = "cancelled"
                        /\ retired(x).currentPeriodEnd = subscriptions[x].currentPeriodEnd
                        /\ retired(x).graceEndsAt = subscriptions[x].graceEndsAt
    BY DEF Superseded, WellFormed, TypeOK, StoreTypeOK, SubscriptionRow
  <1>3. subscriptions' = [x \in Subs |-> IF x = s THEN created
                                         ELSE IF x = checkout[c].sub THEN retired(x)
                                         ELSE subscriptions[x]]
    BY DEF CreatePendingSubscription
  <1>4. RowTimes(subscriptions[s]) /\ subscriptions[s].status = "none"
    BY DEF RowsHaveTimes, CreatePendingSubscription
  <1> HIDE DEF created, retired
  <1>5. subscriptions'[s] = created
    BY <1>3
  <1>6. \A x \in Subs \ {s} : subscriptions'[x] \in {retired(x), subscriptions[x]}
    BY <1>3
  <1>7. TimesKept
    BY <1>1, <1>2, <1>4, <1>5, <1>6 DEF TimesKept, RowTimes
  <1>8. \A x \in Subs : RowTimes(subscriptions[x])
    BY DEF RowsHaveTimes
  <1>9. ASSUME NEW x \in Subs \ {s}
        PROVE  RowTimes(subscriptions'[x])
    <2>1. CASE subscriptions'[x] = subscriptions[x]
      BY <1>8, <2>1
    <2>2. CASE subscriptions'[x] = retired(x)
      BY <1>2, <1>8, <2>2 DEF RowTimes
    <2> QED
      BY <1>6, <2>1, <2>2
  <1>10. RowTimes(subscriptions'[s])
    BY <1>1, <1>5 DEF RowTimes
  <1> QED
    BY <1>7, <1>9, <1>10 DEF RowsHaveTimes

\* Only an activation moves the end of a period.
LEMMA StepTimes ==
    ASSUME WellFormed, TimesInv, [Next]_vars
    PROVE  /\ RowsHaveTimes'
           /\ TimesKept \/ \E w \in Workers : Activates(w)
  <1>1. UNCHANGED subscriptions => TimesKept /\ RowsHaveTimes'
    BY DEF TimesKept, TimesInv, RowsHaveTimes
  <1>2. ASSUME NEW c \in Checkouts, CheckoutStep(c)
        PROVE  TimesKept /\ RowsHaveTimes'
    BY <1>1, <1>2, CreatePendingTimes
    DEF CheckoutStep, BeginCheckout, ReuseSession, NoReusableSession,
        ExpireStaleAndOpenSession, InsertAttempt, CheckoutCrash, storeVars, TimesInv
  <1>3. ASSUME NEW w \in Workers, WebhookStep(w)
        PROVE  /\ RowsHaveTimes'
               /\ TimesKept \/ Activates(w)
    <2>1. CASE ActivateWrite(w)
      BY <1>1, <2>1, StoreAssumption, ActivateWriteCommits, ActivatesTimes DEF TimesInv
    <2>2. CASE ~ActivateWrite(w)
      BY <1>1, <1>3, <2>2
      DEF WebhookStep, RecordProviderEvent, ApplyUnpaid, ApplySucceeded, ActivateRead,
          WebhookCrash, storeVars
    <2> QED
      BY <2>1, <2>2
  <1>4. ASSUME NEW e \in EventIds, NEW a \in Attempts, ProviderEmits(e, a)
        PROVE  UNCHANGED subscriptions
    BY <1>4 DEF ProviderEmits, storeVars
  <1>5. ASSUME NEW w \in Sweepers, SweepStep(w)
        PROVE  TimesKept /\ RowsHaveTimes'
    BY <1>1, <1>5, SweepWriteTimes
    DEF SweepStep, SweepBegin, SweepRead, SweepSelectElapsed, SweepEnd, SweepCrash, storeVars
  <1>6. ASSUME NEW o \in Owners, OwnerStep(o)
        PROVE  TimesKept /\ RowsHaveTimes'
    BY <1>1, <1>6, OwnerCommitTimes
    DEF OwnerStep, ScheduleCancellation, ResumeSubscription, OwnerReads, OwnerCrash,
        storeVars, TimesInv
  <1>7. ASSUME NEW e \in EventIds, IgnoreEvent(e)
        PROVE  UNCHANGED subscriptions
    BY <1>7 DEF IgnoreEvent, storeVars
  <1> QED
    BY <1>1, <1>2, <1>3, <1>4, <1>7, <1>5, <1>6 DEF Next, Tick, vars, storeVars

\* A sweep moves no end of any period.
LEMMA SweepStepTimes ==
    ASSUME WellFormed, TimesInv, NEW w \in Sweepers, SweepStep(w)
    PROVE  TimesKept /\ now' = now
  <1>1. UNCHANGED subscriptions => TimesKept
    BY DEF TimesKept
  <1> QED
    BY <1>1, SweepWriteTimes
    DEF SweepStep, SweepBegin, SweepRead, SweepWrite, SweepSelectElapsed, SweepEnd,
        SweepCrash, storeVars

\* The clock never goes back.
LEMMA ClockNeverBack ==
    ASSUME WellFormed, [Next]_vars
    PROVE  now' \in Nat /\ now <= now'
  <1>1. now \in Nat
    BY DEF WellFormed, TypeOK, StoreTypeOK
  <1>2. ASSUME NEW c \in Checkouts, CheckoutStep(c)
        PROVE  now' = now
    BY <1>2 DEF CheckoutStep, BeginCheckout, CreatePendingSubscription, ReuseSession,
                NoReusableSession, ExpireStaleAndOpenSession, InsertAttempt,
                CheckoutCrash, storeVars
  <1>3. ASSUME NEW w \in Workers, WebhookStep(w)
        PROVE  now' = now
    BY <1>3 DEF WebhookStep, RecordProviderEvent, ApplyUnpaid, ApplySucceeded,
                ActivateRead, ActivateWrite, WebhookCrash, storeVars
  <1>4. ASSUME NEW e \in EventIds, NEW a \in Attempts, ProviderEmits(e, a)
        PROVE  now' = now
    BY <1>4 DEF ProviderEmits, storeVars
  <1>5. ASSUME NEW w \in Sweepers, SweepStep(w)
        PROVE  now' = now
    BY <1>5 DEF SweepStep, SweepBegin, SweepRead, SweepWrite, SweepSelectElapsed, SweepEnd,
                SweepCrash, storeVars
  <1>6. ASSUME NEW o \in Owners, OwnerStep(o)
        PROVE  now' = now
    BY <1>6 DEF OwnerStep, ScheduleCancellation, ResumeSubscription, OwnerReads,
                OwnerCommit, OwnerCrash, storeVars
  <1>7. CASE Tick
    BY <1>1, <1>7 DEF Tick
  <1>8. CASE now' = now
    BY <1>1, <1>8
  <1>9. ASSUME NEW e \in EventIds, IgnoreEvent(e)
        PROVE  now' = now
    BY <1>9 DEF IgnoreEvent, storeVars
  <1> QED
    BY <1>2, <1>3, <1>4, <1>9, <1>5, <1>6, <1>7, <1>8 DEF Next, vars, storeVars

\* A delivery about to activate was about to before, or has just found its row
\* pending; its attempt's subscription is the same.
LEMMA ActivatingWas ==
    ASSUME WellFormed, FreshAttempts, [Next]_vars, NEW w \in Workers,
           worker'[w].pc = "activating"
    PROVE  /\ attempts'[DeliveredTo(w)'.attempt].sub = attempts[DeliveredTo(w).attempt].sub
           /\ attempts[DeliveredTo(w).attempt].sub \in Subs
           /\ \/ worker[w].pc = "activating"
              \/ /\ UNCHANGED subscriptions
                 /\ subscriptions[attempts[DeliveredTo(w).attempt].sub].status = "pending"
  <1>1. worker \in [Workers -> Delivery]
    BY DEF WellFormed, TypeOK, PaymentsTypeOK
  <1>2. ASSUME NEW v \in Workers, WebhookStep(v)
        PROVE  \/ worker'[w] = worker[w]
               \/ ActivateRead(w)
    <2>1. CASE v # w
      BY <1>1, <1>2, <2>1
      DEF WebhookStep, RecordProviderEvent, ApplyUnpaid, ApplySucceeded, ActivateRead,
          ActivateWrite, WebhookCrash, CommitAttempt
    <2>2. CASE v = w
      BY <1>1, <1>2, <2>2
      DEF WebhookStep, RecordProviderEvent, ApplyUnpaid, ApplySucceeded,
          ActivateWrite, WebhookCrash, CommitAttempt, WorkerIdle, Recorded, Delivery
    <2> QED
      BY <2>1, <2>2
  <1>3. ASSUME NEW c \in Checkouts, CheckoutStep(c)
        PROVE  worker' = worker
    BY <1>3 DEF CheckoutStep, BeginCheckout, CreatePendingSubscription, ReuseSession,
                NoReusableSession, ExpireStaleAndOpenSession, InsertAttempt, CheckoutCrash
  <1>4. ASSUME NEW e \in EventIds, NEW a \in Attempts, ProviderEmits(e, a)
        PROVE  worker' = worker
    BY <1>4 DEF ProviderEmits
  <1>5. ASSUME NEW e \in EventIds, IgnoreEvent(e)
        PROVE  worker' = worker
    BY <1>5 DEF IgnoreEvent
  <1>6. worker'[w] = worker[w] \/ ActivateRead(w)
    BY <1>2, <1>3, <1>4, <1>5 DEF Next, vars, paymentVars
  <1>7. ActivateRead(w) =>
          /\ worker[w].pc = "paid"
          /\ worker'[w].event = worker[w].event
          /\ UNCHANGED subscriptions
          /\ subscriptions[attempts[DeliveredTo(w).attempt].sub].status = "pending"
    BY <1>1 DEF ActivateRead, WorkerIdle, Delivery, storeVars, CanTransition,
                SubscriptionTransitions
  <1>8. worker[w].pc # "idle" /\ worker'[w].event = worker[w].event
    BY <1>6, <1>7
  <1>9. /\ worker[w].event \in EventIds
        /\ DeliveredTo(w).attempt \in Attempts
        /\ DeliveredTo(w) \in ProviderEvent
        /\ attempts[DeliveredTo(w).attempt].sub \in Subs
        /\ attempts[DeliveredTo(w).attempt].status # "none"
    BY <1>8, DeliveryHolds
  <1>10. DeliveredTo(w)' = DeliveredTo(w)
    BY <1>8, <1>9, EventsAreKept DEF DeliveredTo, NotEmitted, ProviderEvent, EventKinds
  <1>11. attempts'[DeliveredTo(w).attempt].sub = attempts[DeliveredTo(w).attempt].sub
    BY <1>9, AttemptsKeepTheirSubscription
  <1> QED
    BY <1>6, <1>7, <1>9, <1>10, <1>11

\* Of deliveries about to activate one row the one that does is the only one,
\* and it is over.
LEMMA LoneActivation ==
    ASSUME ActivationsApart, WellFormed, NEW v \in Workers, Activates(v), NEW w \in Workers,
           worker[w].pc = "activating", worker'[w].pc = "activating"
    PROVE  RowOf(v) # RowOf(w)
  <1> SUFFICES ASSUME RowOf(v) = RowOf(w) PROVE FALSE
    OBVIOUS
  <1>1. v = w
    BY DEF ActivationsApart, Activates, ActivateWrite
  <1>2. worker'[w] = WorkerIdle
    BY <1>1 DEF Activates, CommitAttempt, WellFormed, TypeOK, PaymentsTypeOK
  <1> QED
    BY <1>2 DEF WorkerIdle

\* With one delivery at a time for a row, nobody else activates it meanwhile.
LEMMA NextActivatingIsNew ==
    ASSUME ActivationsApart, WellFormed, FreshAttempts, TimesInv, [Next]_vars
    PROVE  ActivatingIsNew'
  <1> SUFFICES ASSUME NEW w \in Workers, worker'[w].pc = "activating"
               PROVE  subscriptions'[attempts'[DeliveredTo(w)'.attempt].sub].currentPeriodEnd
                        = NoTime
    BY DEF ActivatingIsNew
  <1> DEFINE s == attempts[DeliveredTo(w).attempt].sub
  <1>1. /\ attempts'[DeliveredTo(w)'.attempt].sub = s
        /\ s \in Subs
        /\ \/ worker[w].pc = "activating"
           \/ UNCHANGED subscriptions /\ subscriptions[s].status = "pending"
    BY ActivatingWas
  <1>2. CASE worker[w].pc = "activating"
    <2>1. ASSUME NEW v \in Workers, Activates(v)
          PROVE  RowOf(v) # s
      BY <1>2, <2>1, LoneActivation DEF RowOf
    <2>2. subscriptions'[s].currentPeriodEnd = subscriptions[s].currentPeriodEnd
      BY <1>1, <2>1, StepTimes DEF TimesKept, Activates, RowOf
    <2> QED
      BY <1>1, <1>2, <2>2 DEF TimesInv, ActivatingIsNew
  <1>3. CASE UNCHANGED subscriptions /\ subscriptions[s].status = "pending"
    BY <1>1, <1>3 DEF TimesInv, RowsHaveTimes, RowTimes
  <1> QED
    BY <1>1, <1>2, <1>3

\* A sweep's new record, step by step: its period ends are those of the rows.
LEMMA SweepStepSweptTimes ==
    ASSUME WellFormed, TimesInv, NEW w \in Sweepers, SweepStep(w)
    PROVE  SweptTimes'
  <1>1. \A v \in Sweepers \ {w} : sweeper'[v] = sweeper[v]
    BY SweepStepHolds
  <1>2. TimesKept /\ now' = now /\ now \in Nat
    BY SweepStepTimes DEF WellFormed, TypeOK, StoreTypeOK
  <1>3. \A v \in Sweepers : \A i \in sweeper[v].todo : i.id \in Subs
    BY DEF WellFormed, TypeOK, LifecycleTypeOK, SweepRun, SweepItem
  <1>4. \A v \in Sweepers : \A i \in sweeper[v].todo :
          /\ subscriptions'[i.id].currentPeriodEnd = subscriptions[i.id].currentPeriodEnd
          /\ subscriptions'[i.id].graceEndsAt = subscriptions[i.id].graceEndsAt
    BY <1>2, <1>3 DEF TimesKept
  <1>5. SUFFICES /\ sweeper'[w].at <= now
                 /\ \A i \in sweeper'[w].todo :
                      /\ i.currentPeriodEnd \in Nat
                      /\ i.currentPeriodEnd = subscriptions'[i.id].currentPeriodEnd
                      /\ sweeper'[w].pc \in {"active", "active_write"} =>
                           i.currentPeriodEnd <= sweeper'[w].at
                      /\ sweeper'[w].pc \in {"grace", "grace_write"} =>
                           subscriptions'[i.id].graceEndsAt <= sweeper'[w].at
    <2>1. ASSUME NEW v \in Sweepers \ {w}
          PROVE  /\ sweeper'[v].at <= now'
                 /\ \A i \in sweeper'[v].todo :
                      /\ i.currentPeriodEnd \in Nat
                      /\ i.currentPeriodEnd = subscriptions'[i.id].currentPeriodEnd
                      /\ sweeper'[v].pc \in {"active", "active_write"} =>
                           i.currentPeriodEnd <= sweeper'[v].at
                      /\ sweeper'[v].pc \in {"grace", "grace_write"} =>
                           subscriptions'[i.id].graceEndsAt <= sweeper'[v].at
      BY <1>1, <1>2, <1>4 DEF TimesInv, SweptTimes
    <2> QED
      BY <1>2, <1>5, <2>1 DEF SweptTimes
  <1>6. CASE SweepStops(w)
    BY <1>2, <1>6 DEF SweepStops, SweepIdle
  <1>7. CASE SweepDecides(w) \/ SweepGoesOn(w)
    BY <1>4, <1>7 DEF SweepDecides, SweepGoesOn, TimesInv, SweptTimes
  <1>8. CASE SweepStarts(w)
    <2>1. \A i \in Selected(Ended(now)) :
            /\ i.id \in Subs
            /\ i.currentPeriodEnd = subscriptions[i.id].currentPeriodEnd
            /\ i.currentPeriodEnd \in Nat
            /\ i.currentPeriodEnd <= now
      BY DEF Selected, Ended, WellFormed, TypeOK, StoreTypeOK, SubscriptionRow, Times
    <2> QED
      BY <1>2, <1>8, <2>1 DEF SweepStarts, TimesKept
  <1>9. CASE SweepTurnsToGrace(w)
    <2>1. \A i \in Selected(Elapsed(sweeper[w].at)) :
            /\ i.id \in Subs
            /\ i.currentPeriodEnd = subscriptions[i.id].currentPeriodEnd
            /\ subscriptions[i.id].status = "grace_period"
            /\ subscriptions[i.id].graceEndsAt <= sweeper[w].at
      BY DEF Selected, Elapsed
    <2>2. \A i \in Selected(Elapsed(sweeper[w].at)) : i.currentPeriodEnd \in Nat
      BY <2>1 DEF TimesInv, RowsHaveTimes, RowTimes
    <2>3. sweeper[w].at <= now
      BY DEF TimesInv, SweptTimes
    <2> QED
      BY <1>2, <1>9, <2>1, <2>2, <2>3 DEF SweepTurnsToGrace, TimesKept
  <1> QED
    BY <1>6, <1>7, <1>8, <1>9, SweepStepHolds

\* What sweeps hold stays true of the rows: an activation touches only a row
\* that had no period, and a sweep holds none of those.
LEMMA NextSweptTimes ==
    ASSUME WellFormed, TimesInv, [Next]_vars
    PROVE  SweptTimes'
  <1>1. CASE UNCHANGED sweeper
    <2>1. ASSUME NEW v \in Sweepers, NEW i \in sweeper[v].todo
          PROVE  /\ subscriptions'[i.id].currentPeriodEnd = subscriptions[i.id].currentPeriodEnd
                 /\ subscriptions'[i.id].graceEndsAt = subscriptions[i.id].graceEndsAt
      <3>1. i.id \in Subs
        BY DEF WellFormed, TypeOK, LifecycleTypeOK, SweepRun, SweepItem
      <3>2. subscriptions[i.id].currentPeriodEnd # NoTime
        BY DEF TimesInv, SweptTimes, NoTime
      <3>3. ASSUME NEW w \in Workers, Activates(w)
            PROVE  subscriptions'[i.id] = subscriptions[i.id]
        BY <3>1, <3>2, <3>3 DEF Activates, ActivateWrite, TimesInv, ActivatingIsNew
      <3> QED
        BY <3>1, <3>3, StepTimes DEF TimesKept
    <2>2. now \in Nat /\ now' \in Nat /\ now <= now'
      BY ClockNeverBack DEF WellFormed, TypeOK, StoreTypeOK
    <2>3. \A v \in Sweepers : sweeper[v].at \in Nat /\ sweeper[v].at <= now
      BY DEF TimesInv, SweptTimes, WellFormed, TypeOK, LifecycleTypeOK, SweepRun
    <2>4. \A v \in Sweepers : sweeper[v].at <= now'
      BY <2>2, <2>3
    <2> QED
      BY <1>1, <2>1, <2>4 DEF TimesInv, SweptTimes
  <1> QED
    BY <1>1, SweepStepSweptTimes, OthersLeaveSweeps

\* As long as no two deliveries activate one row at once, the ends of periods are
\* consistent throughout: in rows, in what sweeps selected and in what an
\* activation is about to write.
THEOREM TimesAreConsistent ==
    Spec /\ []ActivationsApart => []TimesInv
  <1>1. Init => TimesInv
    <2>1. Init => RowsHaveTimes
      BY DEF Init, StoreInit, RowsHaveTimes, RowTimes, NoSubscription
    <2>2. Init => ActivatingIsNew /\ SweptTimes
      BY DEF Init, StoreInit, LifecycleInit, PaymentsInit, ActivatingIsNew, SweptTimes,
             SweepIdle, WorkerIdle
    <2> QED
      BY <2>1, <2>2 DEF TimesInv
  <1>2. ActivationsApart /\ WellFormed /\ FreshAttempts /\ TimesInv /\ [Next]_vars => TimesInv'
    BY StepTimes, NextActivatingIsNew, NextSweptTimes DEF TimesInv
  <1> QED
    BY <1>1, <1>2, AlwaysWellFormed, ReferencesAreFresh, PTL DEF Spec

\* The end of a seller's access moves later only in the transaction that records
\* a matching payment for that very row, whatever sweeps overlap (two deliveries
\* that activate one row at once can move its end, and sweeps' stale writes then
\* move it back and forth).
THEOREM AccessGrowsOnlyByPaymentHolds ==
    Spec /\ []ActivationsApart => AccessGrowsOnlyByPayment
  <1> DEFINE Grows == \A s \in Subs :
               EffectiveEnd(subscriptions'[s]) > EffectiveEnd(subscriptions[s]) =>
                 \E e \in paymentEvents' \ paymentEvents :
                   /\ providerEvents[e].kind = "payment_succeeded"
                   /\ providerEvents[e].exact
                   /\ attempts[providerEvents[e].attempt].sub = s
  <1>1. ASSUME WellFormed, AppliedOnce, TimesInv, [Next]_vars
        PROVE  Grows
    <2> SUFFICES ASSUME NEW s \in Subs,
                        EffectiveEnd(subscriptions'[s]) > EffectiveEnd(subscriptions[s])
                 PROVE  \E e \in paymentEvents' \ paymentEvents :
                          /\ providerEvents[e].kind = "payment_succeeded"
                          /\ providerEvents[e].exact
                          /\ attempts[providerEvents[e].attempt].sub = s
      OBVIOUS
    <2>1. /\ EffectiveEnd(subscriptions[s]) \in Int
          /\ EffectiveEnd(subscriptions'[s]) # EffectiveEnd(subscriptions[s])
      BY <1>1 DEF EffectiveEnd, WellFormed, TypeOK, StoreTypeOK, SubscriptionRow, Times, NoTime
    <2>2. ~TimesKept
      BY <2>1 DEF TimesKept, EffectiveEnd
    <2>3. PICK w \in Workers : Activates(w)
      BY <1>1, <2>2, StepTimes
    <2>4. attempts[DeliveredTo(w).attempt].sub = s
      BY <2>1, <2>3 DEF Activates
    <2>5. worker[w].pc = "activating"
      BY <2>3 DEF Activates, ActivateWrite
    <2>6. /\ worker[w].event \in paymentEvents'
          /\ worker[w].event \notin paymentEvents
      BY <1>1, <2>3, <2>5 DEF Activates, CommitAttempt, AppliedOnce
    <2>7. /\ providerEvents[worker[w].event].kind = "payment_succeeded"
          /\ providerEvents[worker[w].event].exact
      BY <1>1, <2>5 DEF WellFormed, WorkerHolds
    <2> QED
      BY <2>4, <2>6, <2>7 DEF DeliveredTo
  <1>2. WellFormed /\ AppliedOnce /\ TimesInv /\ [Next]_vars => [Grows]_vars
    BY <1>1
  <1> QED
    BY <1>2, TimesAreConsistent, AlwaysWellFormed, EventsAppliedOnce, PTL
    DEF Spec, AccessGrowsOnlyByPayment

-----------------------------------------------------------------------------
(* Who changes a status, and the row a checkout is about to supersede *)

\* Who changes the status of a row: a sweep, an activation, or a checkout that
\* supersedes it.
LEMMA StatusMovers ==
    ASSUME WellFormed, [Next]_vars, NEW s \in Subs,
           subscriptions[s].status # "none",
           subscriptions'[s].status # subscriptions[s].status
    PROVE  \/ \E w \in Sweepers : /\ SweepWrite(w)
                                  /\ sweeper[w].item \in sweeper[w].todo
                                  /\ sweeper[w].item.id = s
           \/ \E w \in Workers : Activates(w) /\ RowOf(w) = s
           \/ \E c \in Checkouts, x \in Subs : CreatesPending(c, x) /\ checkout[c].sub = s
  <1>1. ASSUME NEW c \in Checkouts, CheckoutStep(c)
        PROVE  \E x \in Subs : CreatesPending(c, x) /\ checkout[c].sub = s
    <2>1. PICK x \in Subs : CreatePendingSubscription(c, x)
      BY <1>1
      DEF CheckoutStep, BeginCheckout, ReuseSession, NoReusableSession,
          ExpireStaleAndOpenSession, InsertAttempt, CheckoutCrash, storeVars
    <2>2. CreatesPending(c, x)
      BY <2>1, CreatePendingSubscriptionMoves
    <2>3. s # x
      BY <2>2 DEF CreatesPending
    <2> QED
      BY <2>2, <2>3 DEF CreatesPending
  <1>2. ASSUME NEW w \in Workers, WebhookStep(w)
        PROVE  Activates(w) /\ RowOf(w) = s
    <2>1. ActivateWrite(w)
      BY <1>2 DEF WebhookStep, RecordProviderEvent, ApplyUnpaid, ApplySucceeded,
                  ActivateRead, WebhookCrash, storeVars
    <2>2. Activates(w)
      BY <2>1, ActivateWriteCommits
    <2> QED
      BY <2>2 DEF Activates, RowOf
  <1>3. ASSUME NEW e \in EventIds, NEW a \in Attempts, ProviderEmits(e, a)
        PROVE  UNCHANGED subscriptions
    BY <1>3 DEF ProviderEmits, storeVars
  <1>4. ASSUME NEW w \in Sweepers, SweepStep(w)
        PROVE  /\ SweepWrite(w)
               /\ sweeper[w].item \in sweeper[w].todo
               /\ sweeper[w].item.id = s
    <2>1. SweepWrite(w)
      BY <1>4 DEF SweepStep, SweepBegin, SweepRead, SweepSelectElapsed, SweepEnd, SweepCrash,
                  storeVars
    <2>2. /\ sweeper[w].item \in sweeper[w].todo
          /\ MovesOne(sweeper[w].item.id) \/ MovesNone
      BY <2>1, SweepWriteMoves, StoreAssumption
    <2> QED
      BY <2>1, <2>2 DEF MovesOne, MovesNone
  <1>5. ASSUME NEW o \in Owners, OwnerStep(o)
        PROVE  MovesNone \/ UNCHANGED subscriptions
    BY <1>5, OwnerCommitMoves
    DEF OwnerStep, ScheduleCancellation, ResumeSubscription, OwnerReads, OwnerCrash, storeVars
  <1>6. ASSUME NEW e \in EventIds, IgnoreEvent(e)
        PROVE  UNCHANGED subscriptions
    BY <1>6 DEF IgnoreEvent, storeVars
  <1> QED
    BY <1>1, <1>2, <1>3, <1>6, <1>4, <1>5 DEF Next, Tick, vars, storeVars, MovesNone

\* A row that a checkout has read as pending under the lock is still pending when
\* it cancels it, unless a delivery activates it meanwhile: sweeps hold none such,
\* and other checkouts of the seller wait.
LEMMA NextCheckoutsAreCurrent ==
    ASSUME WellFormed, HoldingsInv, LockInv, SupersedesApart, CheckoutsAreCurrent, [Next]_vars
    PROVE  CheckoutsAreCurrent'
  <1> SUFFICES ASSUME NEW c \in Checkouts, checkout'[c].pc = "locked", checkout'[c].sub # "none"
               PROVE  subscriptions'[checkout'[c].sub].status = "pending"
    BY DEF CheckoutsAreCurrent
  <1>1. PICK s : s = checkout'[c].sub
    OBVIOUS
  <1>2. CASE \E seller \in Sellers, plan \in Plans : BeginCheckout(c, seller, plan)
    BY <1>2, BeginCheckoutHolds DEF RowsOf
  <1>3. CASE ~\E seller \in Sellers, plan \in Plans : BeginCheckout(c, seller, plan)
    <2>1. checkout'[c] = checkout[c]
      BY <1>3, LockedWasLocked
    <2>2. checkout[c].pc = "locked" /\ checkout[c].sub = s /\ s # "none"
      BY <1>1, <2>1
    <2>3. /\ s \in Subs /\ subscriptions[s].status = "pending"
          /\ subscriptions[s].seller = checkout[c].seller
      BY <2>2 DEF CheckoutsAreCurrent, HoldingsInv, LockedIsOwn
    <2>4. ASSUME NEW v \in Sweepers, sweeper[v].item \in sweeper[v].todo,
                 sweeper[v].item.id = s
          PROVE  FALSE
      BY <2>3, <2>4 DEF HoldingsInv, SweptIsOld
    <2>5. ASSUME NEW v \in Workers, Activates(v), RowOf(v) = s
          PROVE  FALSE
      BY <2>2, <2>5 DEF SupersedesApart, Activates, ActivateWrite
    <2>6. ASSUME NEW d \in Checkouts, NEW x \in Subs, CreatesPending(d, x), checkout[d].sub = s
          PROVE  FALSE
      <3>1. checkout[d].pc = "locked"
        BY <2>6 DEF CreatesPending
      <3>2. subscriptions[s].seller = checkout[d].seller
        BY <2>2, <2>6, <3>1 DEF HoldingsInv, LockedIsOwn
      <3>3. c = d
        BY <2>2, <2>3, <3>1, <3>2 DEF LockInv, LockExclusive
      <3>4. checkout'[c].pc = "reuse"
        BY <2>6, <3>3 DEF CreatesPending, WellFormed, TypeOK, PaymentsTypeOK, CheckoutRequest
      <3> QED
        BY <3>4
    <2>7. subscriptions'[s].status = subscriptions[s].status
      BY <2>3, <2>4, <2>5, <2>6, StatusMovers
    <2> QED
      BY <1>1, <2>3, <2>7
  <1> QED
    BY <1>2, <1>3

\* As long as no delivery activates a row that a checkout is about to supersede,
\* a checkout supersedes pending rows alone.
THEOREM CheckoutsStayCurrent ==
    Spec /\ []SupersedesApart => []CheckoutsAreCurrent
  <1>1. Init => CheckoutsAreCurrent
    BY DEF Init, PaymentsInit, CheckoutsAreCurrent, CheckoutIdle
  <1>2. /\ WellFormed /\ HoldingsInv /\ LockInv /\ SupersedesApart /\ CheckoutsAreCurrent
        /\ [Next]_vars
        => CheckoutsAreCurrent'
    BY NextCheckoutsAreCurrent
  <1> QED
    BY <1>1, <1>2, AlwaysWellFormed, HoldingsAreSound, LocksAreExclusive, PTL DEF Spec

-----------------------------------------------------------------------------
(* Paid periods *)

\* A sweep ends a row only when its own test of the end has passed.
LEMMA SweepWriteKeepsPaid ==
    ASSUME WellFormed, TimesInv, NEW w \in Sweepers, SweepWrite(w), NEW s \in Subs,
           subscriptions[s].status \in LiveStatuses
    PROVE  /\ subscriptions'[s].status = "cancelled"
                => now >= subscriptions[s].currentPeriodEnd
           /\ subscriptions'[s].status = "expired"
                => now >= subscriptions[s].graceEndsAt
  <1> DEFINE item == sweeper[w].item
             row == SweepPatch(subscriptions[s], sweeper[w], item)
  <1>1. CASE subscriptions'[s].status = subscriptions[s].status
    BY <1>1 DEF LiveStatuses
  <1>2. CASE subscriptions'[s].status # subscriptions[s].status
    <2>1. item.id \in Subs /\ item \in sweeper[w].todo
      BY SweepWriteMoves, StoreAssumption
    <2>2. subscriptions' = [subscriptions EXCEPT ![item.id] =
                               SweepPatch(subscriptions[item.id], sweeper[w], item)]
      BY <1>2 DEF SweepWrite, storeVars
    <2>3. item.id = s /\ subscriptions'[s] = row
      BY <1>2, <2>1, <2>2 DEF WellFormed, TypeOK, StoreTypeOK
    <2>4. /\ subscriptions[s] \in SubscriptionRow
          /\ subscriptions[s].currentPeriodEnd \in Nat
          /\ subscriptions[s].graceEndsAt \in Int
          /\ now \in Nat
          /\ sweeper[w].at \in Nat
          /\ sweeper[w].at <= now
      BY <2>1, <2>3 DEF WellFormed, TypeOK, StoreTypeOK, LifecycleTypeOK, SweepRun,
                        SubscriptionRow, Times, NoTime, TimesInv, SweptTimes
    <2>5. CASE sweeper[w].pc = "active_write"
      <3>1. subscriptions[s].currentPeriodEnd <= sweeper[w].at
        BY <2>1, <2>3, <2>5 DEF TimesInv, SweptTimes
      <3>2. SweepAction(sweeper[w], item) \in {"cancel", "enter_grace"}
        BY <2>5 DEF SweepAction
      <3>3. row.status \in {"grace_period", "cancelled"}
        BY <2>4, <3>2 DEF SweepPatch, TransitionTarget, SubscriptionTransitions,
                          SubscriptionRow
      <3> HIDE DEF row
      <3> QED
        BY <2>3, <2>4, <3>1, <3>3
    <2>6. CASE sweeper[w].pc = "grace_write"
      <3>1. subscriptions[s].graceEndsAt <= sweeper[w].at
        BY <2>1, <2>3, <2>6 DEF TimesInv, SweptTimes
      <3>2. SweepAction(sweeper[w], item) = "expire"
        BY <2>6 DEF SweepAction
      <3>3. TransitionTarget("expire") = "expired"
        BY DEF TransitionTarget, SubscriptionTransitions
      <3>4. row.status = "expired"
        BY <2>4, <3>2, <3>3 DEF SweepPatch, SubscriptionRow
      <3> HIDE DEF row
      <3> QED
        BY <2>3, <2>4, <3>1, <3>4
    <2> QED
      BY <2>5, <2>6 DEF SweepWrite
  <1> QED
    BY <1>1, <1>2

\* A new pending row touches no live row when what it supersedes is pending.
LEMMA CreateKeepsLive ==
    ASSUME WellFormed, CheckoutsAreCurrent, NEW c \in Checkouts, NEW x \in Subs,
           CreatePendingSubscription(c, x), NEW s \in Subs,
           subscriptions[s].status \in LiveStatuses
    PROVE  subscriptions'[s].status = subscriptions[s].status
  <1>1. CreatesPending(c, x)
    BY CreatePendingSubscriptionMoves
  <1>2. s # x /\ checkout[c].sub # s
    BY <1>1, StoreAssumption
    DEF CreatesPending, CheckoutsAreCurrent, LiveStatuses, StoreAssumption
  <1> QED
    BY <1>1, <1>2 DEF CreatesPending

\* What was paid for is kept: a live row is cancelled only after its period and
\* expired only after its grace, however many sweeps overlap.  When two deliveries
\* activate one row a sweep can act on an end that has since moved, and when one
\* activates a row that is being superseded a checkout cancels what was paid for.
THEOREM PaidPeriodIsAlwaysKept ==
    Spec /\ []ActivationsApart /\ []SupersedesApart => PaidPeriodIsKept
  <1> DEFINE Kept == \A s \in Subs :
               subscriptions[s].status \in LiveStatuses =>
                 /\ subscriptions'[s].status = "cancelled"
                      => now >= subscriptions[s].currentPeriodEnd
                 /\ subscriptions'[s].status = "expired"
                      => now >= subscriptions[s].graceEndsAt
  <1>1. ASSUME WellFormed, TimesInv, CheckoutsAreCurrent, [Next]_vars
        PROVE  Kept
    <2> SUFFICES ASSUME NEW s \in Subs, subscriptions[s].status \in LiveStatuses
                 PROVE  /\ subscriptions'[s].status = "cancelled"
                             => now >= subscriptions[s].currentPeriodEnd
                        /\ subscriptions'[s].status = "expired"
                             => now >= subscriptions[s].graceEndsAt
      OBVIOUS
    <2> DEFINE Stays == subscriptions'[s].status \in LiveStatuses
    <2>1. UNCHANGED subscriptions => Stays
      OBVIOUS
    <2>2. ASSUME NEW c \in Checkouts, CheckoutStep(c)
          PROVE  Stays
      BY <1>1, <2>1, <2>2, CreateKeepsLive
      DEF CheckoutStep, BeginCheckout, ReuseSession, NoReusableSession,
          ExpireStaleAndOpenSession, InsertAttempt, CheckoutCrash, storeVars
    <2>3. ASSUME NEW w \in Workers, WebhookStep(w)
          PROVE  Stays
      <3>1. CASE Activates(w)
        <4>1. worker[w].at \in Nat /\ \A x \in Subs : subscriptions[x] \in SubscriptionRow
          BY <1>1 DEF WellFormed, TypeOK, PaymentsTypeOK, StoreTypeOK, Delivery
        <4> QED
          BY <3>1, <4>1, ActiveRowFields, StoreAssumption DEF Activates, LiveStatuses
      <3>2. CASE ActivateWrite(w)
        BY <1>1, <2>1, <3>1, <3>2, ActivateWriteCommits
      <3> QED
        BY <2>1, <2>3, <3>2
        DEF WebhookStep, RecordProviderEvent, ApplyUnpaid, ApplySucceeded, ActivateRead,
            WebhookCrash, storeVars
    <2>4. ASSUME NEW w \in Sweepers, SweepStep(w), ~SweepWrite(w)
          PROVE  Stays
      BY <2>1, <2>4
      DEF SweepStep, SweepBegin, SweepRead, SweepSelectElapsed, SweepEnd, SweepCrash,
          storeVars
    <2>5. ASSUME NEW o \in Owners, OwnerStep(o)
          PROVE  Stays
      BY <1>1, <2>1, <2>5, OwnerCommitMoves
      DEF OwnerStep, ScheduleCancellation, ResumeSubscription, OwnerReads, OwnerCrash,
          storeVars, MovesNone
    <2>6. ASSUME NEW e \in EventIds, NEW a \in Attempts, ProviderEmits(e, a)
          PROVE  Stays
      BY <2>1, <2>6 DEF ProviderEmits, storeVars
    <2>7. ASSUME NEW e \in EventIds, IgnoreEvent(e)
          PROVE  Stays
      BY <2>1, <2>7 DEF IgnoreEvent, storeVars
    <2>8. Stays \/ \E w \in Sweepers : SweepWrite(w)
      BY <1>1, <2>1, <2>2, <2>3, <2>4, <2>5, <2>6, <2>7 DEF Next, Tick, vars, storeVars
    <2>9. CASE Stays
      BY <2>9 DEF LiveStatuses
    <2> QED
      BY <1>1, <2>8, <2>9, SweepWriteKeepsPaid
  <1>2. WellFormed /\ TimesInv /\ CheckoutsAreCurrent /\ [Next]_vars => [Kept]_vars
    BY <1>1
  <1> QED
    BY <1>2, TimesAreConsistent, AlwaysWellFormed, CheckoutsStayCurrent, PTL
    DEF Spec, PaidPeriodIsKept

-----------------------------------------------------------------------------
(* Attempts *)

\* Every write to an attempt, with its status before and after.
LEMMA AttemptSteps ==
    ASSUME WellFormed, FreshAttempts, [Next]_vars, NEW a \in Attempts,
           attempts[a].status = "succeeded", attempts'[a].status # "succeeded"
    PROVE  \E w \in Workers : ApplyUnpaid(w) /\ DeliveredTo(w).attempt = a
  <1>1. ASSUME NEW c \in Checkouts, CheckoutStep(c)
        PROVE  attempts'[a].status = "succeeded"
    <2>1. CASE InsertAttempt(c)
      <3>1. attempts[checkout[c].attempt].status = "none"
        BY <2>1 DEF InsertAttempt, FreshAttempts
      <3> QED
        BY <2>1, <3>1, InsertAttemptEffect
    <2>2. ASSUME NEW x \in Attempts, ExpireStaleAndOpenSession(c, x)
          PROVE  attempts'[a].status = "succeeded"
      BY <2>2 DEF ExpireStaleAndOpenSession, OpenAttempts
    <2> QED
      BY <1>1, <2>1, <2>2
      DEF CheckoutStep, BeginCheckout, CreatePendingSubscription, ReuseSession,
          NoReusableSession, CheckoutCrash
  <1>2. ASSUME NEW w \in Workers, WebhookStep(w)
        PROVE  ApplyUnpaid(w) /\ DeliveredTo(w).attempt = a
    <2>1. attempts \in [Attempts -> AttemptRow]
      BY DEF WellFormed, TypeOK, PaymentsTypeOK
    <2>2. \A status : CommitAttempt(w, status) =>
            \/ attempts'[a].status = "succeeded"
            \/ DeliveredTo(w).attempt = a /\ attempts'[a].status = status
      BY <2>1 DEF CommitAttempt, AttemptRow
    <2>3. \/ UNCHANGED attempts \/ CommitAttempt(w, "succeeded") \/ ApplyUnpaid(w)
      BY <1>2 DEF WebhookStep, RecordProviderEvent, ApplySucceeded, ActivateRead,
                  ActivateWrite, WebhookCrash
    <2>4. ApplyUnpaid(w)
      BY <2>2, <2>3
    <2>5. PICK status : CommitAttempt(w, status)
      BY <2>4 DEF ApplyUnpaid
    <2> QED
      BY <2>2, <2>4, <2>5
  <1>3. ASSUME NEW e \in EventIds, NEW x \in Attempts, ProviderEmits(e, x)
        PROVE  UNCHANGED attempts
    BY <1>3 DEF ProviderEmits
  <1>4. ASSUME NEW e \in EventIds, IgnoreEvent(e)
        PROVE  UNCHANGED attempts
    BY <1>4 DEF IgnoreEvent
  <1> QED
    BY <1>1, <1>2, <1>3, <1>4 DEF Next, vars, paymentVars

\* A delivery past its insert was so before, or has just read its attempt.
LEMMA RecordedWas ==
    ASSUME WellFormed, [Next]_vars, NEW w \in Workers, worker'[w].pc = "recorded"
    PROVE  \/ worker'[w] = worker[w]
           \/ \E e \in EventIds :
                /\ UNCHANGED providerEvents
                /\ worker'[w] = Recorded(e)
                /\ ~NoEffect(providerEvents[e], attempts[providerEvents[e].attempt].status)
  <1>1. worker \in [Workers -> Delivery]
    BY DEF WellFormed, TypeOK, PaymentsTypeOK
  <1>2. ASSUME NEW v \in Workers, WebhookStep(v), v # w
        PROVE  worker'[w] = worker[w]
    BY <1>1, <1>2
    DEF WebhookStep, RecordProviderEvent, ApplyUnpaid, ApplySucceeded, ActivateRead,
        ActivateWrite, WebhookCrash, CommitAttempt
  <1>3. ASSUME WebhookStep(w)
        PROVE  \E e \in EventIds : RecordProviderEvent(w, e)
    BY <1>1, <1>3
    DEF WebhookStep, ApplyUnpaid, ApplySucceeded, ActivateRead, ActivateWrite, WebhookCrash,
        CommitAttempt, WorkerIdle, Delivery
  <1>4. ASSUME NEW e \in EventIds, RecordProviderEvent(w, e)
        PROVE  /\ UNCHANGED providerEvents
               /\ worker'[w] = Recorded(e)
               /\ ~NoEffect(providerEvents[e], attempts[providerEvents[e].attempt].status)
    BY <1>1, <1>4 DEF RecordProviderEvent
  <1>5. ASSUME NEW c \in Checkouts, CheckoutStep(c)
        PROVE  worker' = worker
    BY <1>5 DEF CheckoutStep, BeginCheckout, CreatePendingSubscription, ReuseSession,
                NoReusableSession, ExpireStaleAndOpenSession, InsertAttempt, CheckoutCrash
  <1>6. ASSUME NEW e \in EventIds, NEW a \in Attempts, ProviderEmits(e, a)
        PROVE  worker' = worker
    BY <1>6 DEF ProviderEmits
  <1>7. ASSUME NEW e \in EventIds, IgnoreEvent(e)
        PROVE  worker' = worker
    BY <1>7 DEF IgnoreEvent
  <1> QED
    BY <1>2, <1>3, <1>4, <1>5, <1>6, <1>7 DEF Next, vars, paymentVars

\* A failure or expiry that is being applied was read from an unpaid attempt.
UnpaidWasRead ==
    \A w \in Workers :
        worker[w].pc = "recorded" /\ DeliveredTo(w).kind # "payment_succeeded"
            => worker[w].seen # "succeeded"

\* What a delivery has read is checked before it goes on, and does not change.
LEMMA NextUnpaidWasRead ==
    ASSUME WellFormed, UnpaidWasRead, [Next]_vars
    PROVE  UnpaidWasRead'
  <1> SUFFICES ASSUME NEW w \in Workers, worker'[w].pc = "recorded",
                      DeliveredTo(w)'.kind # "payment_succeeded"
               PROVE  worker'[w].seen # "succeeded"
    BY DEF UnpaidWasRead
  <1>1. CASE worker'[w] = worker[w]
    <2>1. worker[w].pc = "recorded" /\ worker[w].event \in EventIds
      BY <1>1, DeliveryHolds
    <2>2. DeliveredTo(w) \in ProviderEvent
      BY <2>1, DeliveryHolds
    <2>3. DeliveredTo(w)' = DeliveredTo(w)
      BY <1>1, <2>1, <2>2, EventsAreKept DEF DeliveredTo, NotEmitted, ProviderEvent, EventKinds
    <2> QED
      BY <1>1, <2>1, <2>3 DEF UnpaidWasRead
  <1>2. ASSUME NEW e \in EventIds, UNCHANGED providerEvents, worker'[w] = Recorded(e),
               ~NoEffect(providerEvents[e], attempts[providerEvents[e].attempt].status)
        PROVE  worker'[w].seen # "succeeded"
    BY <1>2 DEF NoEffect, DeliveredTo, Recorded
  <1> QED
    BY <1>1, <1>2, RecordedWas

\* Success is taken from an attempt in one way only, by however many deliveries and
\* checkouts at once: a failure or expiry decided on a read older than the success.
THEOREM SuccessYieldsOnlyToStaleReadsHolds == Spec => SuccessYieldsOnlyToStaleReads
  <1>1. Init => UnpaidWasRead
    BY DEF Init, PaymentsInit, UnpaidWasRead, WorkerIdle
  <1>2. WellFormed /\ UnpaidWasRead /\ [Next]_vars => UnpaidWasRead'
    BY NextUnpaidWasRead
  <1> DEFINE Yields == \A a \in Attempts :
               attempts[a].status = "succeeded" /\ attempts'[a].status # "succeeded" =>
                 \E w \in Workers :
                   /\ worker[w].pc = "recorded"
                   /\ worker[w].seen # "succeeded"
                   /\ DeliveredTo(w).attempt = a
                   /\ DeliveredTo(w).kind # "payment_succeeded"
                   /\ paymentEvents' = paymentEvents \union {worker[w].event}
  <1>3. WellFormed /\ FreshAttempts /\ UnpaidWasRead /\ [Next]_vars => [Yields]_vars
    BY AttemptSteps DEF UnpaidWasRead, ApplyUnpaid, CommitAttempt
  <1> QED
    BY <1>1, <1>2, <1>3, AlwaysWellFormed, ReferencesAreFresh, PTL
    DEF Spec, SuccessYieldsOnlyToStaleReads

-----------------------------------------------------------------------------
(* The refinement: a write that is current is a step of the contract       *)

\* Row s alone moves from one status to another, and the event says so.
Records(s, from, to) ==
    /\ subscriptions[s].status = from
    /\ \A x \in Subs :
         /\ subscriptions'[x].seller = subscriptions[x].seller
         /\ subscriptions'[x].status = IF x = s THEN to ELSE subscriptions[x].status
    /\ RecordEvent(s, from, to)

\* The moves of a sweep and of an activation.
IsMove(s, from, to) ==
    \/ from = "pending" /\ to = "active" /\ LiveSlotFree(s)
    \/ from = "active" /\ to = "grace_period"
    \/ from \in LiveStatuses /\ to \in {"expired", "cancelled"}

Moves(s) ==
    \E from \in SubscriptionStatuses, to \in SubscriptionStatuses :
        IsMove(s, from, to) /\ Records(s, from, to)

\* Row s is created, and the row the checkout holds superseded, in one commit.
Creates(c, s) ==
    LET event(from, to) == [from |-> from, to |-> to] IN
    /\ CreatesPending(c, s)
    /\ subscriptionEvents' =
         [x \in Subs |->
            IF x = s THEN Append(subscriptionEvents[x], event("none", "pending"))
            ELSE IF x = checkout[c].sub
            THEN Append(subscriptionEvents[x], event("pending", "cancelled"))
            ELSE subscriptionEvents[x]]

\* No row moves; at most a request without a status change is recorded.
StandsStill ==
    /\ MovesNone
    /\ \/ UNCHANGED subscriptionEvents
       \/ \E s \in Subs, st \in SubscriptionStatuses : RecordEvent(s, st, st)

\* A sweep that writes over the status it read makes one legal move.
LEMMA CurrentSweepMoves ==
    ASSUME WellFormed, HoldingsInv, SweepsAreCurrent, NEW w \in Sweepers, SweepWrite(w)
    PROVE  StandsStill \/ \E s \in Subs : Moves(s)
  <1> DEFINE item == sweeper[w].item
             s == item.id
             row == SweepPatch(subscriptions[s], sweeper[w], item)
             seen == sweeper[w].seen
             action == SweepAction(sweeper[w], item)
  <1>1. sweeper[w].pc \in {"active_write", "grace_write"}
    BY DEF SweepWrite
  <1>2. /\ s \in Subs
        /\ subscriptions[s] \in SubscriptionRow
        /\ item \in sweeper[w].todo
    BY SweepWriteMoves, StoreAssumption DEF WellFormed, TypeOK, StoreTypeOK
  <1>3. /\ seen \in LiveStatuses
        /\ CanTransition(seen, action)
        /\ subscriptions[s].status = seen
    BY <1>1 DEF HoldingsInv, SeenIsLegal, SweepsAreCurrent
  <1>4. action \in {"expire", "cancel", "enter_grace"}
    BY DEF SweepAction
  <1>5. action = "enter_grace" => seen = "active"
    BY <1>3 DEF CanTransition, SubscriptionTransitions
  <1>6. /\ TransitionTarget("expire") = "expired"
        /\ TransitionTarget("cancel") = "cancelled"
    BY DEF TransitionTarget, SubscriptionTransitions
  <1>7. /\ row.seller = subscriptions[s].seller
        /\ row.status = IF action = "enter_grace" THEN "grace_period"
                        ELSE TransitionTarget(action)
    BY <1>2 DEF SweepPatch, SubscriptionRow
  <1> HIDE DEF action
  <1>8. /\ row.status \in {"grace_period", "expired", "cancelled"}
        /\ row.status = "grace_period" => seen = "active"
    BY <1>4, <1>5, <1>6, <1>7
  <1>9. IsMove(s, seen, row.status)
    BY <1>3, <1>8 DEF IsMove
  <1>10. /\ seen \in SubscriptionStatuses
         /\ row.status \in SubscriptionStatuses
    BY <1>3, <1>8 DEF LiveStatuses, SubscriptionStatuses
  <1>11. CASE UNCHANGED storeVars
    BY <1>11 DEF StandsStill, MovesNone, storeVars
  <1>12. CASE /\ subscriptions' = [subscriptions EXCEPT ![s] = row]
              /\ RecordEvent(s, seen, row.status)
    <2>1. subscriptions'[s] = row /\ \A x \in Subs \ {s} : subscriptions'[x] = subscriptions[x]
      BY <1>2, <1>12 DEF WellFormed, TypeOK, StoreTypeOK
    <2> HIDE DEF row
    <2>2. Records(s, seen, row.status)
      BY <1>3, <1>7, <1>12, <2>1 DEF Records
    <2>3. Moves(s)
      BY <1>9, <1>10, <2>2 DEF Moves
    <2> QED
      BY <1>2, <2>3
  <1> QED
    BY <1>11, <1>12 DEF SweepWrite

\* An activation that finds its row still pending makes its one legal move.
LEMMA CurrentActivationMoves ==
    ASSUME WellFormed, ActivationsAreCurrent, NEW w \in Workers, Activates(w)
    PROVE  \E s \in Subs : Moves(s)
  <1> DEFINE s == attempts[DeliveredTo(w).attempt].sub
             row == ActiveRow(subscriptions[s], worker[w].at)
  <1>1. /\ s \in Subs
        /\ subscriptions[s] \in SubscriptionRow
        /\ worker[w].at \in Nat
    BY DEF Activates, WellFormed, TypeOK, StoreTypeOK, PaymentsTypeOK, Delivery
  <1>2. row.status = "active" /\ row.seller = subscriptions[s].seller
    BY <1>1, ActiveRowFields, StoreAssumption
  <1>3. subscriptions[s].status = "pending"
    BY DEF Activates, ActivateWrite, ActivationsAreCurrent
  <1>4. /\ subscriptions'[s] = row
        /\ \A x \in Subs \ {s} : subscriptions'[x] = subscriptions[x]
        /\ RecordEvent(s, "pending", "active")
        /\ LiveSlotFree(s)
    BY DEF Activates
  <1> HIDE DEF row, s
  <1>5. Records(s, "pending", "active")
    BY <1>2, <1>3, <1>4 DEF Records
  <1>6. {"pending", "active"} \subseteq SubscriptionStatuses
    BY DEF SubscriptionStatuses
  <1>7. Moves(s)
    BY <1>4, <1>5, <1>6 DEF Moves, IsMove
  <1> QED
    BY <1>1, <1>7

\* Every step whose writes are current, by what it does to rows and history.
LEMMA CurrentStepMoves ==
    ASSUME WellFormed, HoldingsInv, WritesAreCurrent, [Next]_vars
    PROVE  \/ StandsStill
           \/ \E s \in Subs : Moves(s)
           \/ \E c \in Checkouts, s \in Subs : Creates(c, s)
  <1>1. UNCHANGED <<subscriptions, subscriptionEvents>> => StandsStill
    BY DEF StandsStill, MovesNone
  <1>2. ASSUME NEW c \in Checkouts, CheckoutStep(c)
        PROVE  StandsStill \/ \E s \in Subs : Creates(c, s)
    <2>1. ASSUME NEW s \in Subs, CreatePendingSubscription(c, s)
          PROVE  Creates(c, s)
      BY <2>1, CreatePendingSubscriptionMoves DEF Creates, CreatePendingSubscription
    <2> QED
      BY <1>1, <1>2, <2>1
      DEF CheckoutStep, BeginCheckout, ReuseSession, NoReusableSession,
          ExpireStaleAndOpenSession, InsertAttempt, CheckoutCrash, storeVars
  <1>3. ASSUME NEW w \in Workers, WebhookStep(w)
        PROVE  StandsStill \/ \E s \in Subs : Moves(s)
    <2>1. CASE ActivateWrite(w)
      BY <1>1, <2>1, ActivateWriteCommits, CurrentActivationMoves DEF WritesAreCurrent
    <2>2. CASE ~ActivateWrite(w)
      BY <1>1, <1>3, <2>2
      DEF WebhookStep, RecordProviderEvent, ApplyUnpaid, ApplySucceeded, ActivateRead,
          WebhookCrash, storeVars
    <2> QED
      BY <2>1, <2>2
  <1>4. ASSUME NEW e \in EventIds, NEW a \in Attempts, ProviderEmits(e, a)
        PROVE  StandsStill
    BY <1>1, <1>4 DEF ProviderEmits, storeVars
  <1>5. ASSUME NEW w \in Sweepers, SweepStep(w)
        PROVE  StandsStill \/ \E s \in Subs : Moves(s)
    <2>1. CASE SweepWrite(w)
      BY <2>1, CurrentSweepMoves DEF WritesAreCurrent
    <2>2. CASE ~SweepWrite(w)
      BY <1>1, <1>5, <2>2
      DEF SweepStep, SweepBegin, SweepRead, SweepSelectElapsed, SweepEnd, SweepCrash, storeVars
    <2> QED
      BY <2>1, <2>2
  <1>6. ASSUME NEW o \in Owners, OwnerStep(o)
        PROVE  StandsStill
    <2>1. CASE OwnerCommit(o)
      <3>1. /\ owner[o].sub \in Subs
            /\ owner[o].seen \in SubscriptionStatuses
        BY <2>1 DEF OwnerCommit, WellFormed, OwnerHolds, LiveStatuses, SubscriptionStatuses
      <3>2. RecordEvent(owner[o].sub, owner[o].seen, owner[o].seen)
        BY <2>1 DEF OwnerCommit
      <3> QED
        BY <2>1, <3>1, <3>2, OwnerCommitMoves DEF StandsStill
    <2>2. CASE ~OwnerCommit(o)
      BY <1>1, <1>6, <2>2
      DEF OwnerStep, ScheduleCancellation, ResumeSubscription, OwnerReads, OwnerCrash, storeVars
    <2> QED
      BY <2>1, <2>2
  <1>7. ASSUME NEW e \in EventIds, IgnoreEvent(e)
        PROVE  StandsStill
    BY <1>1, <1>7 DEF IgnoreEvent, storeVars
  <1> QED
    BY <1>1, <1>2, <1>3, <1>4, <1>7, <1>5, <1>6 DEF Next, Tick, vars, storeVars

\* A legal move is a step of the contract.
LEMMA MovesFollowContract ==
    ASSUME WellFormed, NEW s \in Subs, Moves(s)
    PROVE  Contract!ContractNext
  <1>1. PICK from \in SubscriptionStatuses, to \in SubscriptionStatuses :
          IsMove(s, from, to) /\ Records(s, from, to)
    BY DEF Moves
  <1>2. /\ subscriptions[s].status = from
        /\ [x \in Subs |-> subscriptions'[x].status] =
             [[x \in Subs |-> subscriptions[x].status] EXCEPT ![s] = to]
        /\ [x \in Subs |-> subscriptions'[x].seller] = [x \in Subs |-> subscriptions[x].seller]
    BY <1>1 DEF Records
  <1>3. CASE from = "pending" /\ to = "active" /\ LiveSlotFree(s)
    <2>1. \A x \in Subs \ {s} :
            ~(/\ subscriptions[x].seller = subscriptions[s].seller
              /\ subscriptions[x].status \in LiveStatuses)
      BY <1>3 DEF LiveSlotFree, RowsOf
    <2>2. Contract!Activate(s)
      BY <1>2, <1>3, <2>1
      DEF Contract!Activate, Contract!Holds, Contract!Move, Contract!Live, LiveStatuses
    <2> QED
      BY <2>2 DEF Contract!ContractNext
  <1>4. CASE from = "active" /\ to = "grace_period"
    <2>1. Contract!EnterGrace(s)
      BY <1>2, <1>4 DEF Contract!EnterGrace, Contract!Move
    <2> QED
      BY <2>1 DEF Contract!ContractNext
  <1>5. CASE from \in LiveStatuses /\ to \in {"expired", "cancelled"}
    <2>1. Contract!Expire(s) \/ Contract!Cancel(s)
      BY <1>2, <1>5
      DEF Contract!Expire, Contract!Cancel, Contract!Move, Contract!Live, LiveStatuses
    <2> QED
      BY <2>1 DEF Contract!ContractNext
  <1> QED
    BY <1>1, <1>3, <1>4, <1>5 DEF IsMove

\* A row created is a step of the contract, when what it supersedes is pending.
LEMMA CreatesFollowContract ==
    ASSUME WellFormed, HoldingsInv, CheckoutsAreCurrent, NEW c \in Checkouts, NEW s \in Subs,
           Creates(c, s)
    PROVE  Contract!ContractNext
  <1>1. checkout[c].pc = "locked" /\ checkout[c].seller \in Sellers
    BY DEF Creates, CreatesPending, WellFormed, CheckoutHolds
  <1>2. PICK by \in Sellers : by = checkout[c].seller
    BY <1>1
  <1>3. PICK old : old = checkout[c].sub
    OBVIOUS
  <1>4. /\ subscriptions[s].status = "none"
        /\ \A x \in Subs : /\ subscriptions[x].seller = by
                           /\ subscriptions[x].status = "pending"
                           => x = old
        /\ subscriptions'[s].status = "pending"
        /\ subscriptions'[s].seller = by
        /\ \A x \in Subs \ {s} :
             /\ subscriptions'[x].seller = subscriptions[x].seller
             /\ subscriptions'[x].status =
                  IF x = old THEN "cancelled" ELSE subscriptions[x].status
    BY <1>2, <1>3 DEF Creates, CreatesPending, PendingConflict, RowsOf
  <1>5. [x \in Subs |-> subscriptions'[x].seller] =
          [[x \in Subs |-> subscriptions[x].seller] EXCEPT ![s] = by]
    BY <1>4
  <1>6. CASE old = "none"
    <2>1. old \notin Subs
      BY <1>6, StoreAssumption DEF StoreAssumption
    <2>2. [x \in Subs |-> subscriptions'[x].status] =
            [[x \in Subs |-> subscriptions[x].status] EXCEPT ![s] = "pending"]
      BY <1>4, <2>1
    <2>3. Contract!Create(s, by)
      BY <1>4, <1>5, <2>1, <2>2 DEF Contract!Create, Contract!Holds
    <2> QED
      BY <2>3 DEF Contract!ContractNext
  <1>7. CASE old # "none"
    <2>1. /\ old \in Subs
          /\ subscriptions[old].status = "pending"
          /\ subscriptions[old].seller = by
      BY <1>1, <1>2, <1>3, <1>7 DEF HoldingsInv, LockedIsOwn, CheckoutsAreCurrent
    <2>2. old # s
      BY <1>4, <2>1
    <2>3. [x \in Subs |-> subscriptions'[x].status] =
            [[x \in Subs |-> subscriptions[x].status]
               EXCEPT ![old] = "cancelled", ![s] = "pending"]
      BY <1>4, <2>1, <2>2
    <2>4. Contract!Supersede(old, s, by)
      BY <1>4, <1>5, <2>1, <2>3 DEF Contract!Supersede, Contract!Holds
    <2> QED
      BY <2>1, <2>4 DEF Contract!ContractNext
  <1> QED
    BY <1>6, <1>7

\* Every step whose writes are current is a step of the contract or none.
LEMMA StepFollowsContract ==
    ASSUME WellFormed, HoldingsInv, WritesAreCurrent, [Next]_vars
    PROVE  [Contract!ContractNext]_(Contract!contractVars)
  <1>1. CASE StandsStill
    BY <1>1 DEF StandsStill, MovesNone, Contract!contractVars
  <1> QED
    BY <1>1, CurrentStepMoves, MovesFollowContract, CreatesFollowContract
    DEF WritesAreCurrent

\* In every reachable state, of any number of processes: a step that writes on no
\* status that has since changed is a step of the subscription domain's contract.
THEOREM CurrentStepsAlwaysFollowContract == Spec => CurrentStepsFollowContract
  <1>1. WellFormed /\ HoldingsInv /\ [Next]_vars
          => [WritesAreCurrent => Contract!ContractNext]_(Contract!contractVars)
    BY StepFollowsContract
  <1> QED
    BY <1>1, AlwaysWellFormed, HoldingsAreSound, PTL DEF Spec, CurrentStepsFollowContract

\* Billing implements the contract of the subscription domain in every behaviour
\* in which no write is decided on a status that has since changed: stale writes
\* are the only way the code can leave its own transition table.
THEOREM CurrentWritesImplementContract ==
    Spec /\ []WritesAreCurrent => ImplementsContract
  <1>1. Init => Contract!ContractInit
    BY DEF Init, StoreInit, NoSubscription, Contract!ContractInit
  <1>2. WellFormed /\ HoldingsInv /\ WritesAreCurrent /\ [Next]_vars
          => [Contract!ContractNext]_(Contract!contractVars)
    BY StepFollowsContract
  <1> QED
    BY <1>1, <1>2, AlwaysWellFormed, HoldingsAreSound, PTL
    DEF Spec, ImplementsContract, Contract!ContractSpec

\* A row that is over stays over, as long as every write is current.
THEOREM CurrentWritesKeepTerminal ==
    Spec /\ []WritesAreCurrent => TerminalIsFinal
  <1> DEFINE Final == \A s \in Subs :
               subscriptions[s].status \in TerminalStatuses
                 => subscriptions'[s].status = subscriptions[s].status
  <1>1. ASSUME WellFormed, HoldingsInv, WritesAreCurrent, [Next]_vars
        PROVE  Final
    <2>1. CASE StandsStill
      BY <2>1 DEF StandsStill, MovesNone
    <2>2. ASSUME NEW s \in Subs, Moves(s)
          PROVE  Final
      BY <2>2 DEF Moves, IsMove, Records, LiveStatuses, TerminalStatuses
    <2>3. ASSUME NEW c \in Checkouts, NEW s \in Subs, Creates(c, s)
          PROVE  Final
      <3>1. checkout[c].sub \in Subs => subscriptions[checkout[c].sub].status = "pending"
        BY <1>1, <2>3, StoreAssumption
        DEF Creates, CreatesPending, WritesAreCurrent, CheckoutsAreCurrent, StoreAssumption
      <3> QED
        BY <2>3, <3>1 DEF Creates, CreatesPending, TerminalStatuses
    <2> QED
      BY <1>1, <2>1, <2>2, <2>3, CurrentStepMoves
  <1>2. WellFormed /\ HoldingsInv /\ WritesAreCurrent /\ [Next]_vars => [Final]_vars
    BY <1>1
  <1> QED
    BY <1>2, AlwaysWellFormed, HoldingsAreSound, PTL DEF Spec, TerminalIsFinal

-----------------------------------------------------------------------------
(* The history *)

\* An event appended to a history: what was said before stays said.
LEMMA AppendKeepsHistory ==
    ASSUME StoreTypeOK, NEW s \in Subs, NEW e \in StatusEvent, NEW n \in Nat,
           n = Len(subscriptionEvents[s]),
           subscriptionEvents'[s] = Append(subscriptionEvents[s], e)
    PROVE  /\ Len(subscriptionEvents'[s]) = n + 1
           /\ subscriptionEvents'[s][n + 1] = e
           /\ \A i \in 1 .. n : subscriptionEvents'[s][i] = subscriptionEvents[s][i]
           /\ Changes(s) \subseteq 1 .. n
           /\ Changes(s)' = Changes(s) \union (IF e.from # e.to THEN {n + 1} ELSE {})
           /\ \A i \in 1 .. n + 1 : \A st : LedTo(s, i, st)' <=> LedTo(s, i, st)
  <1>1. subscriptionEvents[s] \in Seq(StatusEvent)
    BY DEF StoreTypeOK
  <1>2. /\ Len(subscriptionEvents'[s]) = n + 1
        /\ subscriptionEvents'[s][n + 1] = e
        /\ \A i \in 1 .. n : subscriptionEvents'[s][i] = subscriptionEvents[s][i]
        /\ DOMAIN subscriptionEvents'[s] = 1 .. n + 1
        /\ DOMAIN subscriptionEvents[s] = 1 .. n
    BY <1>1
  <1>3. Changes(s) \subseteq 1 .. n
    BY <1>2 DEF Changes
  <1>4. Changes(s)' = Changes(s) \union (IF e.from # e.to THEN {n + 1} ELSE {})
    <2>1. ASSUME NEW i
          PROVE  i \in Changes(s)' <=>
                   i \in Changes(s) \/ (i = n + 1 /\ e.from # e.to)
      <3>1. i \in Changes(s)' <=>
              /\ i \in 1 .. n + 1
              /\ subscriptionEvents'[s][i].from # subscriptionEvents'[s][i].to
        BY <1>2 DEF Changes
      <3>2. i \in Changes(s) <=>
              /\ i \in 1 .. n
              /\ subscriptionEvents[s][i].from # subscriptionEvents[s][i].to
        BY <1>2 DEF Changes
      <3>3. i \in 1 .. n + 1 <=> i \in 1 .. n \/ i = n + 1
        OBVIOUS
      <3>4. n + 1 \notin 1 .. n
        OBVIOUS
      <3> QED
        BY <1>2, <3>1, <3>2, <3>3, <3>4
    <2> QED
      BY <2>1
  <1>5. ASSUME NEW i \in 1 .. n + 1, NEW st
        PROVE  LedTo(s, i, st)' <=> LedTo(s, i, st)
    <2> DEFINE before == { j \in Changes(s) : j < i }
    <2>1. { j \in Changes(s)' : j < i } = before
      BY <1>3, <1>4
    <2>2. before \subseteq 1 .. n
      BY <1>3
    <2>3. LedTo(s, i, st) <=>
            \/ before = {} /\ st = "none"
            \/ \E k \in before : /\ \A j \in before : j <= k
                                 /\ subscriptionEvents[s][k].to = st
      BY DEF LedTo
    <2>4. LedTo(s, i, st)' <=>
            \/ before = {} /\ st = "none"
            \/ \E k \in before : /\ \A j \in before : j <= k
                                 /\ subscriptionEvents'[s][k].to = st
      BY <2>1 DEF LedTo
    <2> HIDE DEF before
    <2> QED
      BY <1>2, <2>2, <2>3, <2>4
  <1> QED
    BY <1>2, <1>3, <1>4, <1>5

\* An event that starts from the row's status, and leads to its new one,
\* continues the chain.
LEMMA ChainGrows ==
    ASSUME StoreTypeOK, NEW s \in Subs, Chained(s), NEW e \in StatusEvent,
           subscriptionEvents'[s] = Append(subscriptionEvents[s], e),
           \/ e.from = e.to /\ subscriptions'[s].status = subscriptions[s].status
           \/ /\ e.from # e.to
              /\ e.from = subscriptions[s].status
              /\ e.to = subscriptions'[s].status
    PROVE  Chained(s)'
  <1>1. Len(subscriptionEvents[s]) \in Nat
    BY DEF StoreTypeOK
  <1>2. PICK n \in Nat : n = Len(subscriptionEvents[s])
    BY <1>1
  <1>3. /\ Len(subscriptionEvents'[s]) = n + 1
        /\ subscriptionEvents'[s][n + 1] = e
        /\ \A i \in 1 .. n : subscriptionEvents'[s][i] = subscriptionEvents[s][i]
        /\ Changes(s) \subseteq 1 .. n
        /\ Changes(s)' = Changes(s) \union (IF e.from # e.to THEN {n + 1} ELSE {})
        /\ \A i \in 1 .. n + 1 : \A st : LedTo(s, i, st)' <=> LedTo(s, i, st)
    BY <1>2, AppendKeepsHistory
  <1>4. /\ \A i \in Changes(s) : LedTo(s, i, subscriptionEvents[s][i].from)
        /\ LedTo(s, n + 1, subscriptions[s].status)
    BY <1>2 DEF Chained
  <1>5. \A i \in Changes(s) : LedTo(s, i, subscriptionEvents[s][i].from)'
    <2> SUFFICES ASSUME NEW i \in Changes(s)
                 PROVE  LedTo(s, i, subscriptionEvents[s][i].from)'
      OBVIOUS
    <2>1. i \in 1 .. n /\ i \in 1 .. n + 1
      BY <1>3
    <2>2. PICK st : st = subscriptionEvents[s][i].from
      OBVIOUS
    <2>3. st = subscriptionEvents'[s][i].from
      BY <1>3, <2>1, <2>2
    <2>4. LedTo(s, i, st)
      BY <1>4, <2>2
    <2>5. LedTo(s, i, st)'
      BY <1>3, <2>1, <2>4
    <2> QED
      BY <2>3, <2>5 DEF LedTo
  <1>6. CASE e.from = e.to /\ subscriptions'[s].status = subscriptions[s].status
    <2>1. Changes(s)' = Changes(s)
      BY <1>3, <1>6
    <2>2. PICK st : st = subscriptions[s].status
      OBVIOUS
    <2>3. LedTo(s, n + 1, st)'
      BY <1>3, <1>4, <2>2
    <2>4. { j \in Changes(s)' : j < n + 2 } = { j \in Changes(s)' : j < n + 1 }
      BY <1>3, <2>1
    <2>5. LedTo(s, n + 2, st)'
      BY <2>3, <2>4 DEF LedTo
    <2>6. LedTo(s, Len(subscriptionEvents[s]) + 1, subscriptions[s].status)'
      <3>1. Len(subscriptionEvents'[s]) + 1 = n + 2
        BY <1>3
      <3> QED
        BY <1>6, <2>2, <2>5, <3>1 DEF LedTo
    <2>7. \A i \in Changes(s)' : LedTo(s, i, subscriptionEvents[s][i].from)'
      BY <1>5, <2>1
    <2> QED
      BY <2>6, <2>7 DEF Chained
  <1>7. CASE /\ e.from # e.to
             /\ e.from = subscriptions[s].status
             /\ e.to = subscriptions'[s].status
    <2>1. Changes(s)' = Changes(s) \union {n + 1}
      BY <1>3, <1>7
    <2>2. LedTo(s, n + 1, e.from)'
      BY <1>3, <1>4, <1>7
    <2>3. LedTo(s, n + 2, e.to)'
      <3> DEFINE before == { j \in Changes(s)' : j < n + 2 }
      <3>1. n + 1 \in before /\ \A j \in before : j <= n + 1
        BY <1>3, <2>1
      <3>2. LedTo(s, n + 2, e.to)' <=>
              \/ before = {} /\ e.to = "none"
              \/ \E k \in before : /\ \A j \in before : j <= k
                                   /\ subscriptionEvents'[s][k].to = e.to
        BY DEF LedTo
      <3> HIDE DEF before
      <3> QED
        BY <1>3, <3>1, <3>2
    <2>4. \A i \in Changes(s)' : LedTo(s, i, subscriptionEvents[s][i].from)'
      <3>1. LedTo(s, n + 1, subscriptionEvents[s][n + 1].from)'
        BY <1>3, <2>2 DEF LedTo
      <3> QED
        BY <1>5, <2>1, <3>1
    <2>5. LedTo(s, Len(subscriptionEvents[s]) + 1, subscriptions[s].status)'
      <3>1. Len(subscriptionEvents'[s]) + 1 = n + 2
        BY <1>3
      <3> QED
        BY <1>7, <2>3, <3>1 DEF LedTo
    <2> QED
      BY <2>4, <2>5 DEF Chained
  <1> QED
    BY <1>6, <1>7

\* Where neither the history nor the status changes, nothing is to be shown.
LEMMA ChainKept ==
    ASSUME NEW s \in Subs, Chained(s), subscriptionEvents'[s] = subscriptionEvents[s],
           subscriptions'[s].status = subscriptions[s].status
    PROVE  Chained(s)'
  BY DEF Chained, LedTo, Changes

\* RecordEvent, row by row.
LEMMA RecordEventEffect ==
    ASSUME StoreTypeOK, NEW s \in Subs, NEW from, NEW to, RecordEvent(s, from, to)
    PROVE  /\ subscriptionEvents'[s] = Append(subscriptionEvents[s], [from |-> from, to |-> to])
           /\ \A x \in Subs \ {s} : subscriptionEvents'[x] = subscriptionEvents[x]
  BY DEF StoreTypeOK, RecordEvent

\* The chain grows with every step whose writes are current.
LEMMA NextHistory ==
    ASSUME WellFormed, HoldingsInv, WritesAreCurrent, HistoryIsAChain, [Next]_vars
    PROVE  HistoryIsAChain'
  <1> SUFFICES ASSUME NEW x \in Subs PROVE Chained(x)'
    BY DEF HistoryIsAChain
  <1>1. Chained(x) /\ StoreTypeOK
    BY DEF HistoryIsAChain, WellFormed, TypeOK
  <1>2. CASE StandsStill
    <2>1. subscriptions'[x].status = subscriptions[x].status
      BY <1>2 DEF StandsStill, MovesNone
    <2>2. CASE UNCHANGED subscriptionEvents
      BY <1>1, <2>1, <2>2, ChainKept
    <2>3. ASSUME NEW s \in Subs, NEW st \in SubscriptionStatuses, RecordEvent(s, st, st)
          PROVE  Chained(x)'
      <3>1. [from |-> st, to |-> st] \in StatusEvent
        BY DEF StatusEvent
      <3>2. CASE x = s
        BY <1>1, <2>1, <2>3, <3>1, <3>2, RecordEventEffect, ChainGrows
      <3>3. CASE x # s
        BY <1>1, <2>1, <2>3, <3>3, RecordEventEffect, ChainKept
      <3> QED
        BY <3>2, <3>3
    <2> QED
      BY <1>2, <2>2, <2>3 DEF StandsStill
  <1>3. ASSUME NEW s \in Subs, Moves(s)
        PROVE  Chained(x)'
    <2>1. PICK from \in SubscriptionStatuses, to \in SubscriptionStatuses :
            IsMove(s, from, to) /\ Records(s, from, to)
      BY <1>3 DEF Moves
    <2>2. from # to /\ [from |-> from, to |-> to] \in StatusEvent
      BY <2>1 DEF IsMove, LiveStatuses, StatusEvent
    <2>3. RecordEvent(s, from, to)
      BY <2>1 DEF Records
    <2>4. CASE x = s
      BY <1>1, <2>1, <2>2, <2>3, <2>4, RecordEventEffect, ChainGrows DEF Records
    <2>5. CASE x # s
      BY <1>1, <2>1, <2>3, <2>5, RecordEventEffect, ChainKept DEF Records
    <2> QED
      BY <2>4, <2>5
  <1>4. ASSUME NEW c \in Checkouts, NEW s \in Subs, Creates(c, s)
        PROVE  Chained(x)'
    <2>1. /\ subscriptions[s].status = "none"
          /\ subscriptions'[s].status = "pending"
          /\ \A y \in Subs \ {s} : subscriptions'[y].status =
               IF y = checkout[c].sub THEN "cancelled" ELSE subscriptions[y].status
          /\ checkout[c].pc = "locked"
      BY <1>4 DEF Creates, CreatesPending
    <2>2. checkout[c].sub \in Subs => subscriptions[checkout[c].sub].status = "pending"
      BY <2>1, StoreAssumption
      DEF WritesAreCurrent, CheckoutsAreCurrent, StoreAssumption
    <2>3. /\ [from |-> "none", to |-> "pending"] \in StatusEvent
          /\ [from |-> "pending", to |-> "cancelled"] \in StatusEvent
      BY DEF StatusEvent, SubscriptionStatuses
    <2>4. subscriptionEvents'[x] =
            IF x = s THEN Append(subscriptionEvents[x], [from |-> "none", to |-> "pending"])
            ELSE IF x = checkout[c].sub
            THEN Append(subscriptionEvents[x], [from |-> "pending", to |-> "cancelled"])
            ELSE subscriptionEvents[x]
      BY <1>4 DEF Creates
    <2>5. CASE x = s
      BY <1>1, <2>1, <2>3, <2>4, <2>5, ChainGrows
    <2>6. CASE x # s /\ x = checkout[c].sub
      BY <1>1, <2>1, <2>2, <2>3, <2>4, <2>6, ChainGrows
    <2>7. CASE x # s /\ x # checkout[c].sub
      BY <1>1, <2>1, <2>4, <2>7, ChainKept
    <2> QED
      BY <2>5, <2>6, <2>7
  <1> QED
    BY <1>2, <1>3, <1>4, CurrentStepMoves

\* The history of a row is complete as long as every write is current: each
\* change starts where the one before it ended, up to the status now.
THEOREM CurrentWritesExtendHistory ==
    Spec /\ []WritesAreCurrent => []HistoryIsAChain
  <1>1. Init => HistoryIsAChain
    <2> SUFFICES ASSUME Init, NEW s \in Subs PROVE Chained(s)
      BY DEF HistoryIsAChain
    <2>1. subscriptionEvents[s] = <<>> /\ subscriptions[s].status = "none"
      BY DEF Init, StoreInit, NoSubscription
    <2>2. Changes(s) = {}
      BY <2>1 DEF Changes
    <2> QED
      BY <2>1, <2>2 DEF Chained, LedTo
  <1>2. WellFormed /\ HoldingsInv /\ WritesAreCurrent /\ HistoryIsAChain /\ [Next]_vars
          => HistoryIsAChain'
    BY NextHistory
  <1> QED
    BY <1>1, <1>2, AlwaysWellFormed, HoldingsAreSound, PTL DEF Spec

=============================================================================
