---------------------------- MODULE BillingProofs ----------------------------
(***************************************************************************)
(* Safety of Billing for all sellers, plans, rows and any number of        *)
(* processes.  TypeOK is not inductive: what a process is about to write   *)
(* is typed only by what it read, so the strengthening below says, for     *)
(* every program counter, what the process holds.                          *)
(***************************************************************************)
EXTENDS Billing, TLAPS

\* A sweep about to write holds one of the rows it selected, and the rows it
\* selected first have a period end.
SweepHolds ==
    \A w \in Sweepers :
        /\ sweeper[w].pc \in {"active_write", "grace_write"} =>
             /\ sweeper[w].item \in sweeper[w].todo
             /\ sweeper[w].seen \in SubscriptionStatuses
        /\ sweeper[w].pc \in {"active", "active_write"} =>
             \A i \in sweeper[w].todo : i.currentPeriodEnd \in Nat

OwnerHolds ==
    \A o \in Owners : owner[o].pc # "idle" =>
        /\ owner[o].sub \in Subs
        /\ owner[o].seen \in LiveStatuses

CheckoutHolds ==
    \A c \in Checkouts :
        /\ checkout[c].pc # "idle" => /\ checkout[c].seller \in Sellers
                                      /\ checkout[c].plan \in Plans
        /\ checkout[c].pc \in {"reuse", "stale", "insert"} => checkout[c].sub \in Subs
        /\ checkout[c].pc = "insert" => checkout[c].attempt \in Attempts

WorkerHolds ==
    \A w \in Workers : worker[w].pc # "idle" =>
        /\ worker[w].event \in EventIds
        /\ providerEvents[worker[w].event] \in ProviderEvent
        /\ attempts[providerEvents[worker[w].event].attempt].status # "none"
        /\ providerEvents[worker[w].event].kind = "payment_succeeded"
             => providerEvents[worker[w].event].exact
        /\ worker[w].pc \in {"paid", "activating"}
             => providerEvents[worker[w].event].kind = "payment_succeeded"

\* The attempts that are stored are those that have a subscription.
AttemptsHold ==
    /\ \A a \in Attempts : attempts[a].status # "none" <=> attempts[a].sub \in Subs
    /\ \A e \in EventIds : providerEvents[e] # NotEmitted => providerEvents[e] \in ProviderEvent

WellFormed ==
    /\ TypeOK
    /\ SweepHolds
    /\ OwnerHolds
    /\ CheckoutHolds
    /\ WorkerHolds
    /\ AttemptsHold
-----------------------------------------------------------------------------
(* Lemmas about the operators of the tables *)

\* Every period end and grace end the code computes is an instant.
LEMMA TimesArithmetic ==
    ASSUME StoreAssumption, NEW t \in Nat
    PROVE  /\ t + TermDays \in Times
           /\ t + GraceDays \in Times
           /\ t + TermDays + GraceDays \in Times
           /\ t \in Times
           /\ NoTime \in Times
  BY DEF StoreAssumption, Times

\* What a sweep selects is a row it may move.
LEMMA SelectedTyped ==
    ASSUME StoreTypeOK, NEW ids \in SUBSET Subs
    PROVE  Selected(ids) \in SUBSET SweepItem
  <1> SUFFICES ASSUME NEW s \in ids
               PROVE  [ id |-> s,
                        currentPeriodEnd |-> subscriptions[s].currentPeriodEnd,
                        cancelAt |-> subscriptions[s].cancelAt ] \in SweepItem
    BY DEF Selected
  <1>1. subscriptions[s] \in SubscriptionRow
    BY DEF StoreTypeOK
  <1>2. /\ subscriptions[s].currentPeriodEnd \in Times
        /\ subscriptions[s].cancelAt \in Times
    BY <1>1 DEF SubscriptionRow
  <1> QED
    BY <1>2 DEF SweepItem

\* What a sweep writes is a row: the old one with the status of its transition
\* and, entering grace, a grace end.
LEMMA SweepPatchTyped ==
    ASSUME NEW row \in SubscriptionRow, NEW run, NEW item,
           SweepAction(run, item) = "enter_grace"
             => item.currentPeriodEnd + GraceDays \in Times
    PROVE  /\ SweepPatch(row, run, item) \in SubscriptionRow
           /\ SweepPatch(row, run, item).status
                \in {"grace_period", "expired", "cancelled"}
           /\ SweepPatch(row, run, item).seller = row.seller
  <1>1. SweepAction(run, item) \in {"expire", "cancel", "enter_grace"}
    BY DEF SweepAction
  <1>2. /\ TransitionTarget("expire") = "expired"
        /\ TransitionTarget("cancel") = "cancelled"
    BY DEF TransitionTarget, SubscriptionTransitions
  <1>3. {"grace_period", "expired", "cancelled"} \subseteq SubscriptionStatuses
    BY DEF SubscriptionStatuses
  <1>4. CASE SweepAction(run, item) = "enter_grace"
    BY <1>3, <1>4 DEF SweepPatch, SubscriptionRow
  <1>5. CASE SweepAction(run, item) = "expire"
    BY <1>2, <1>3, <1>5 DEF SweepPatch, SubscriptionRow
  <1>6. CASE SweepAction(run, item) = "cancel"
    BY <1>2, <1>3, <1>6 DEF SweepPatch, SubscriptionRow
  <1> QED
    BY <1>1, <1>4, <1>5, <1>6

\* The row an activation writes is typed.
LEMMA ActiveRowTyped ==
    ASSUME StoreAssumption, NEW row \in SubscriptionRow, NEW at \in Nat
    PROVE  /\ ActiveRow(row, at) \in SubscriptionRow
           /\ ActiveRow(row, at).status = "active"
           /\ ActiveRow(row, at).seller = row.seller
  <1>1. "active" \in SubscriptionStatuses
    BY DEF SubscriptionStatuses
  <1> QED
    BY <1>1, TimesArithmetic DEF ActiveRow, SubscriptionRow

\* Recording an event keeps the history typed.
LEMMA RecordEventTyped ==
    ASSUME StoreTypeOK, NEW s, NEW from \in SubscriptionStatuses \union {"none"},
           NEW to \in SubscriptionStatuses, RecordEvent(s, from, to)
    PROVE  subscriptionEvents' \in [Subs -> Seq(StatusEvent)]
  <1> DEFINE e == [from |-> from, to |-> to]
  <1>1. e \in StatusEvent
    BY DEF StatusEvent
  <1>2. \A x \in Subs : Append(subscriptionEvents[x], e) \in Seq(StatusEvent)
    BY <1>1 DEF StoreTypeOK
  <1> QED
    BY <1>2 DEF StoreTypeOK, RecordEvent

\* A key without a row is typed.
LEMMA NoSubscriptionTyped == NoSubscription \in SubscriptionRow
  <1>1. NoTime \in Times
    BY DEF Times
  <1> QED
    BY <1>1 DEF NoSubscription, SubscriptionRow

\* The row a checkout inserts is typed.
LEMMA PendingRowTyped ==
    ASSUME NEW seller \in Sellers, NEW plan \in Plans
    PROVE  /\ PendingRow(seller, plan) \in SubscriptionRow
           /\ PendingRow(seller, plan).status = "pending"
           /\ PendingRow(seller, plan).seller = seller
  <1>1. "pending" \in SubscriptionStatuses
    BY DEF SubscriptionStatuses
  <1>2. NoTime \in Times
    BY DEF Times
  <1> QED
    BY <1>1, <1>2 DEF PendingRow, NoSubscription, SubscriptionRow

\* The first state is well formed.
LEMMA InitWellFormed == Init => WellFormed
  <1> SUFFICES ASSUME Init PROVE WellFormed
    OBVIOUS
  <1> USE DEF Init
  <1>1. StoreTypeOK
    BY NoSubscriptionTyped DEF StoreInit, StoreTypeOK
  <1>2. LifecycleTypeOK
    BY TimesArithmetic, StoreAssumption
    DEF LifecycleInit, LifecycleTypeOK, SweepIdle, OwnerIdle, SweepRun, OwnerRequest
  <1>3. PaymentsTypeOK
    BY DEF PaymentsInit, PaymentsTypeOK, NoAttempt, NotEmitted, CheckoutIdle, WorkerIdle,
        AttemptRow, CheckoutRequest, Delivery
  <1>4. SweepHolds /\ OwnerHolds
    BY DEF LifecycleInit, SweepHolds, OwnerHolds, SweepIdle, OwnerIdle
  <1>5. CheckoutHolds /\ WorkerHolds /\ AttemptsHold
    BY StoreAssumption
    DEF PaymentsInit, CheckoutHolds, WorkerHolds, AttemptsHold, CheckoutIdle,
        WorkerIdle, NoAttempt, StoreAssumption
  <1> QED
    BY <1>1, <1>2, <1>3, <1>4, <1>5 DEF WellFormed, TypeOK

-----------------------------------------------------------------------------
(* WellFormed is inductive: one lemma per action *)

\* A step that changes nothing of the payments keeps what their processes hold.
LEMMA PaymentsUntouched ==
    ASSUME WellFormed, UNCHANGED paymentVars
    PROVE  (PaymentsTypeOK /\ CheckoutHolds /\ WorkerHolds /\ AttemptsHold)'
  BY DEF WellFormed, TypeOK, paymentVars, PaymentsTypeOK, CheckoutHolds, WorkerHolds,
         AttemptsHold

\* A step that changes nothing of sweeps and owners keeps what they hold.
LEMMA LifecycleUntouched ==
    ASSUME WellFormed, UNCHANGED lifecycleVars
    PROVE  (LifecycleTypeOK /\ SweepHolds /\ OwnerHolds)'
  BY DEF WellFormed, TypeOK, lifecycleVars, LifecycleTypeOK, SweepHolds, OwnerHolds

\* A step that leaves the subscription tables alone keeps them typed.
LEMMA StoreUntouched ==
    ASSUME WellFormed, UNCHANGED storeVars
    PROVE  StoreTypeOK'
  BY DEF WellFormed, TypeOK, storeVars, StoreTypeOK

\* A sweep that only changes its own record, to one of the right shape.
LEMMA SweepLocalStep ==
    ASSUME WellFormed, UNCHANGED <<owner, paymentVars>>, StoreTypeOK',
           NEW w \in Sweepers, NEW run \in SweepRun,
           sweeper' = [sweeper EXCEPT ![w] = run],
           run.pc \in {"active_write", "grace_write"} =>
             /\ run.item \in run.todo
             /\ run.seen \in SubscriptionStatuses,
           run.pc \in {"active", "active_write"} =>
             \A i \in run.todo : i.currentPeriodEnd \in Nat
    PROVE  WellFormed'
  <1>1. LifecycleTypeOK' /\ SweepHolds' /\ OwnerHolds'
    BY DEF WellFormed, TypeOK, LifecycleTypeOK, SweepHolds, OwnerHolds
  <1>2. UNCHANGED paymentVars
    OBVIOUS
  <1> QED
    BY <1>1, <1>2, PaymentsUntouched DEF WellFormed, TypeOK

\* A sweep that is over holds nothing.
LEMMA SweepIdleWellFormed ==
    ASSUME WellFormed, UNCHANGED <<owner, paymentVars>>, StoreTypeOK',
           NEW w \in Sweepers, sweeper' = [sweeper EXCEPT ![w] = SweepIdle]
    PROVE  WellFormed'
  <1>1. SweepIdle \in SweepRun /\ SweepIdle.pc = "idle"
    BY DEF SweepIdle, SweepRun
  <1> QED
    BY <1>1, SweepLocalStep

\* A sweep that begins holds rows it selected.
LEMMA SweepBeginWellFormed ==
    ASSUME WellFormed, NEW w \in Sweepers, SweepBegin(w), UNCHANGED paymentVars
    PROVE  WellFormed'
  <1> DEFINE run == [SweepIdle EXCEPT !.pc = "active", !.at = now,
                                      !.todo = Selected(Ended(now))]
  <1>1. Ended(now) \in SUBSET Subs
    BY DEF Ended
  <1>2. Selected(Ended(now)) \in SUBSET SweepItem
    BY <1>1, SelectedTyped DEF WellFormed, TypeOK
  <1>3. run \in SweepRun
    BY <1>2 DEF SweepRun, SweepIdle, WellFormed, TypeOK, StoreTypeOK
  <1>4. \A i \in run.todo : i.currentPeriodEnd \in Nat
    BY DEF SweepIdle, Selected, Ended, WellFormed, TypeOK, StoreTypeOK, SubscriptionRow, Times
  <1>5. StoreTypeOK'
    BY StoreUntouched DEF SweepBegin
  <1>6. /\ run.pc = "active"
        /\ sweeper' = [sweeper EXCEPT ![w] = run]
        /\ UNCHANGED <<owner, paymentVars>>
    BY DEF SweepBegin, SweepIdle
  <1> HIDE DEF run
  <1> QED
    BY <1>3, <1>4, <1>5, <1>6, SweepLocalStep

\* The read of transitionSubscription in a sweep.
LEMMA SweepReadWellFormed ==
    ASSUME WellFormed, NEW w \in Sweepers, SweepRead(w), UNCHANGED paymentVars
    PROVE  WellFormed'
  <1>1. StoreTypeOK'
    BY StoreUntouched DEF SweepRead
  <1>2. sweeper[w] \in SweepRun
    BY DEF WellFormed, TypeOK, LifecycleTypeOK
  <1>3. PICK item \in sweeper[w].todo :
          LET seen == subscriptions[item.id].status IN
          IF CanTransition(seen, SweepAction(sweeper[w], item))
          THEN sweeper' = [sweeper EXCEPT
                             ![w].pc = IF @ = "active" THEN "active_write"
                                                       ELSE "grace_write",
                             ![w].item = item,
                             ![w].seen = seen]
          ELSE sweeper' = [sweeper EXCEPT ![w] = SweepIdle]
    BY DEF SweepRead
  <1>4. item \in SweepItem
    BY <1>2 DEF SweepRun
  <1> DEFINE seen == subscriptions[item.id].status
  <1>5. seen \in SubscriptionStatuses \union {"none"}
    BY <1>4 DEF SweepItem, WellFormed, TypeOK, StoreTypeOK, SubscriptionRow
  <1>6. CASE CanTransition(seen, SweepAction(sweeper[w], item))
    <2> DEFINE run == [sweeper[w] EXCEPT
                         !.pc = IF sweeper[w].pc = "active" THEN "active_write"
                                                            ELSE "grace_write",
                         !.item = item, !.seen = seen]
    <2>1. seen # "none"
      BY <1>6 DEF CanTransition, SubscriptionTransitions, SweepAction, LiveStatuses
    <2>2. run \in SweepRun
      BY <1>2, <1>4, <1>5 DEF SweepRun
    <2>3. sweeper' = [sweeper EXCEPT ![w] = run]
      BY <1>2, <1>3, <1>6 DEF WellFormed, TypeOK, LifecycleTypeOK, SweepRun
    <2>4. /\ run.item \in run.todo
          /\ run.seen \in SubscriptionStatuses
          /\ run.pc = "active_write" => sweeper[w].pc = "active"
          /\ run.pc # "active"
          /\ run.todo = sweeper[w].todo
      BY <1>2, <1>5, <2>1 DEF SweepRun
    <2>5. run.pc \in {"active", "active_write"} =>
            \A i \in run.todo : i.currentPeriodEnd \in Nat
      BY <2>4 DEF WellFormed, SweepHolds
    <2>6. UNCHANGED <<owner, paymentVars>>
      BY DEF SweepRead
    <2> HIDE DEF run
    <2> QED
      BY <1>1, <2>2, <2>3, <2>4, <2>5, <2>6, SweepLocalStep
  <1>7. CASE ~CanTransition(seen, SweepAction(sweeper[w], item))
    <2>1. sweeper' = [sweeper EXCEPT ![w] = SweepIdle]
      BY <1>3, <1>7
    <2> QED
      BY <1>1, <2>1, SweepIdleWellFormed DEF SweepRead
  <1> QED
    BY <1>6, <1>7

\* The write of a sweep, whatever its row has become.
LEMMA SweepWriteWellFormed ==
    ASSUME StoreAssumption, WellFormed, NEW w \in Sweepers, SweepWrite(w),
           UNCHANGED paymentVars
    PROVE  WellFormed'
  <1> DEFINE item == sweeper[w].item
             s == item.id
             row == SweepPatch(subscriptions[s], sweeper[w], item)
  <1>1. /\ sweeper[w] \in SweepRun
        /\ sweeper[w].pc \in {"active_write", "grace_write"}
    BY DEF WellFormed, TypeOK, LifecycleTypeOK, SweepWrite
  <1>2. /\ item \in sweeper[w].todo
        /\ item \in SweepItem
        /\ sweeper[w].seen \in SubscriptionStatuses
    BY <1>1 DEF WellFormed, SweepHolds, SweepRun
  <1>3. s \in Subs /\ subscriptions[s] \in SubscriptionRow
    BY <1>2 DEF SweepItem, WellFormed, TypeOK, StoreTypeOK
  <1>4. SweepAction(sweeper[w], item) = "enter_grace" => item.currentPeriodEnd \in Nat
    BY <1>1, <1>2 DEF WellFormed, SweepHolds, SweepAction
  <1>5. row \in SubscriptionRow /\ row.status \in {"grace_period", "expired", "cancelled"}
    BY <1>3, <1>4, SweepPatchTyped, TimesArithmetic
  <1>6. CASE row.status \in LiveStatuses /\ ~LiveSlotFree(s)
    <2>1. sweeper' = [sweeper EXCEPT ![w] = SweepIdle] /\ UNCHANGED storeVars
      BY <1>6 DEF SweepWrite
    <2> QED
      BY <2>1, StoreUntouched, SweepIdleWellFormed DEF SweepWrite
  <1>7. CASE ~(row.status \in LiveStatuses /\ ~LiveSlotFree(s))
    <2> DEFINE run == [sweeper[w] EXCEPT
                         !.pc = IF sweeper[w].pc = "active_write" THEN "active" ELSE "grace",
                         !.todo = sweeper[w].todo \ {item},
                         !.item = NoItem,
                         !.seen = "none"]
    <2>1. /\ subscriptions' = [subscriptions EXCEPT ![s] = row]
          /\ RecordEvent(s, sweeper[w].seen, row.status)
          /\ UNCHANGED <<now, owner>>
      BY <1>7 DEF SweepWrite
    <2>2. sweeper' = [sweeper EXCEPT ![w] = run]
      BY <1>1, <1>7 DEF SweepWrite, WellFormed, TypeOK, LifecycleTypeOK, SweepRun
    <2>3. row.status \in SubscriptionStatuses
      BY <1>5 DEF SubscriptionStatuses
    <2>4. subscriptionEvents' \in [Subs -> Seq(StatusEvent)]
      BY <1>2, <2>1, <2>3, RecordEventTyped DEF WellFormed, TypeOK
    <2>5. subscriptions' \in [Subs -> SubscriptionRow]
      BY <1>5, <2>1 DEF WellFormed, TypeOK, StoreTypeOK
    <2>6. StoreTypeOK'
      BY <2>1, <2>4, <2>5 DEF WellFormed, TypeOK, StoreTypeOK
    <2>7. run \in SweepRun
      BY <1>1 DEF SweepRun
    <2>8. /\ run.pc \notin {"active_write", "grace_write"}
          /\ run.pc = "active" => sweeper[w].pc = "active_write"
          /\ run.todo \subseteq sweeper[w].todo
      BY <1>1 DEF SweepRun
    <2>9. run.pc \in {"active", "active_write"} =>
            \A i \in run.todo : i.currentPeriodEnd \in Nat
      BY <2>8 DEF WellFormed, SweepHolds
    <2> HIDE DEF run
    <2> QED
      BY <2>1, <2>2, <2>6, <2>7, <2>8, <2>9, SweepLocalStep
  <1> QED
    BY <1>6, <1>7

\* The second query of a sweep.
LEMMA SweepSelectElapsedWellFormed ==
    ASSUME WellFormed, NEW w \in Sweepers, SweepSelectElapsed(w), UNCHANGED paymentVars
    PROVE  WellFormed'
  <1> DEFINE run == [sweeper[w] EXCEPT
                       !.pc = "grace",
                       !.todo = Selected(Elapsed(sweeper[w].at))]
  <1>1. sweeper[w] \in SweepRun
    BY DEF WellFormed, TypeOK, LifecycleTypeOK
  <1>2. Elapsed(sweeper[w].at) \in SUBSET Subs
    BY DEF Elapsed
  <1>3. Selected(Elapsed(sweeper[w].at)) \in SUBSET SweepItem
    BY <1>2, SelectedTyped DEF WellFormed, TypeOK
  <1>4. run \in SweepRun /\ run.pc = "grace"
    BY <1>1, <1>3 DEF SweepRun
  <1>5. sweeper' = [sweeper EXCEPT ![w] = run] /\ UNCHANGED <<owner, paymentVars>>
    BY <1>1 DEF SweepSelectElapsed, WellFormed, TypeOK, LifecycleTypeOK, SweepRun
  <1>6. StoreTypeOK'
    BY StoreUntouched DEF SweepSelectElapsed
  <1> HIDE DEF run
  <1> QED
    BY <1>4, <1>5, <1>6, SweepLocalStep

\* Every step of a sweep.
LEMMA SweepStepWellFormed ==
    ASSUME StoreAssumption, WellFormed, NEW w \in Sweepers, SweepStep(w),
           UNCHANGED paymentVars
    PROVE  WellFormed'
  <1>1. CASE SweepEnd(w) \/ SweepCrash(w)
    BY <1>1, StoreUntouched, SweepIdleWellFormed DEF SweepEnd, SweepCrash
  <1> QED
    BY <1>1, SweepBeginWellFormed, SweepReadWellFormed, SweepWriteWellFormed,
       SweepSelectElapsedWellFormed DEF SweepStep

\* An owner's step, by the request it leaves behind.
LEMMA OwnerLocalStep ==
    ASSUME WellFormed, UNCHANGED <<sweeper, paymentVars>>, StoreTypeOK',
           NEW o \in Owners, NEW request \in OwnerRequest,
           owner' = [owner EXCEPT ![o] = request],
           request.pc # "idle" => /\ request.sub \in Subs
                                  /\ request.seen \in LiveStatuses
    PROVE  WellFormed'
  <1>1. LifecycleTypeOK' /\ SweepHolds' /\ OwnerHolds'
    BY DEF WellFormed, TypeOK, LifecycleTypeOK, SweepHolds, OwnerHolds
  <1>2. UNCHANGED paymentVars
    OBVIOUS
  <1> QED
    BY <1>1, <1>2, PaymentsUntouched DEF WellFormed, TypeOK

\* An owner without a request is typed.
LEMMA OwnerIdleTyped == OwnerIdle \in OwnerRequest /\ OwnerIdle.pc = "idle"
  <1>1. NoTime \in Times
    BY DEF Times
  <1> QED
    BY <1>1 DEF OwnerIdle, OwnerRequest

\* An owner's read of the live row.
LEMMA OwnerReadsWellFormed ==
    ASSUME WellFormed, NEW o \in Owners, NEW pc \in {"schedule", "resume"},
           NEW seller \in Sellers, NEW s \in RowsOf(seller, LiveStatuses),
           NEW cancelAt \in Times, OwnerReads(o, pc, s, cancelAt), UNCHANGED paymentVars
    PROVE  WellFormed'
  <1> DEFINE request == [ pc |-> pc, sub |-> s, cancelAt |-> cancelAt,
                          seen |-> subscriptions[s].status ]
  <1>1. s \in Subs /\ request.seen \in LiveStatuses
    BY DEF RowsOf
  <1>2. request \in OwnerRequest
    BY <1>1 DEF OwnerRequest, LiveStatuses, SubscriptionStatuses
  <1>3. StoreTypeOK'
    BY StoreUntouched DEF OwnerReads
  <1> QED
    BY <1>1, <1>2, <1>3, OwnerLocalStep DEF OwnerReads

\* The commit of a cancellation or a resume.
LEMMA OwnerCommitWellFormed ==
    ASSUME WellFormed, NEW o \in Owners, OwnerCommit(o), UNCHANGED paymentVars
    PROVE  WellFormed'
  <1> DEFINE s == owner[o].sub
  <1>1. /\ owner[o] \in OwnerRequest
        /\ s \in Subs
        /\ owner[o].seen \in SubscriptionStatuses
    BY DEF WellFormed, TypeOK, LifecycleTypeOK, OwnerHolds, OwnerCommit, LiveStatuses,
           SubscriptionStatuses
  <1>2. owner[o].cancelAt \in Times
    BY <1>1 DEF OwnerRequest
  <1>3. [subscriptions[s] EXCEPT !.cancelAt = owner[o].cancelAt] \in SubscriptionRow
    BY <1>1, <1>2 DEF WellFormed, TypeOK, StoreTypeOK, SubscriptionRow
  <1>4. subscriptions' \in [Subs -> SubscriptionRow]
    BY <1>1, <1>3 DEF OwnerCommit, WellFormed, TypeOK, StoreTypeOK
  <1>5. subscriptionEvents' \in [Subs -> Seq(StatusEvent)]
    BY <1>1, RecordEventTyped DEF OwnerCommit, WellFormed, TypeOK
  <1>6. StoreTypeOK'
    BY <1>4, <1>5 DEF OwnerCommit, WellFormed, TypeOK, StoreTypeOK
  <1> QED
    BY <1>6, OwnerIdleTyped, OwnerLocalStep DEF OwnerCommit

\* Every step of an owner.
LEMMA OwnerStepWellFormed ==
    ASSUME StoreAssumption, WellFormed, NEW o \in Owners, OwnerStep(o),
           UNCHANGED paymentVars
    PROVE  WellFormed'
  <1>1. CASE ScheduleCancellation(o)
    <2>1. PICK seller \in Sellers :
            \E s \in RowsOf(seller, LiveStatuses) :
              OwnerReads(o, "schedule", s, IF subscriptions[s].currentPeriodEnd # NoTime
                                           THEN subscriptions[s].currentPeriodEnd ELSE now)
      BY <1>1 DEF ScheduleCancellation
    <2>2. PICK s \in RowsOf(seller, LiveStatuses) :
              OwnerReads(o, "schedule", s, IF subscriptions[s].currentPeriodEnd # NoTime
                                           THEN subscriptions[s].currentPeriodEnd ELSE now)
      BY <2>1
    <2>3. subscriptions[s].currentPeriodEnd \in Times
      BY DEF RowsOf, WellFormed, TypeOK, StoreTypeOK, SubscriptionRow
    <2>4. now \in Times
      BY TimesArithmetic DEF WellFormed, TypeOK, StoreTypeOK
    <2> QED
      BY <2>2, <2>3, <2>4, OwnerReadsWellFormed
  <1>2. CASE ResumeSubscription(o)
    <2>1. NoTime \in Times
      BY DEF Times
    <2>2. PICK seller \in Sellers :
            \E s \in RowsOf(seller, LiveStatuses) : OwnerReads(o, "resume", s, NoTime)
      BY <1>2 DEF ResumeSubscription
    <2>3. PICK s \in RowsOf(seller, LiveStatuses) : OwnerReads(o, "resume", s, NoTime)
      BY <2>2
    <2> QED
      BY <2>1, <2>3, OwnerReadsWellFormed
  <1>3. CASE OwnerCommit(o)
    BY <1>3, OwnerCommitWellFormed
  <1>4. CASE OwnerCrash(o)
    BY <1>4, StoreUntouched, OwnerIdleTyped, OwnerLocalStep DEF OwnerCrash
  <1> QED
    BY <1>1, <1>2, <1>3, <1>4 DEF OwnerStep

\* What a step has to keep of payment_attempts and of the provider's sessions.
AttemptsKept ==
    /\ attempts' \in [Attempts -> AttemptRow]
    /\ sessions' \subseteq Attempts
    /\ ignored' \subseteq EventIds
    /\ \A a \in Attempts :
         /\ attempts'[a].status # "none" <=> attempts'[a].sub \in Subs
         /\ attempts[a].status # "none" => attempts'[a].status # "none"

\* Attempts that do not change are kept.
LEMMA AttemptsUnchanged ==
    ASSUME WellFormed, UNCHANGED <<attempts, sessions, ignored>>
    PROVE  AttemptsKept
  BY DEF WellFormed, TypeOK, PaymentsTypeOK, AttemptsKept, AttemptsHold

\* Attempts that are kept still answer to what the provider emitted.
LEMMA AttemptsStillHold ==
    ASSUME WellFormed, AttemptsKept, UNCHANGED providerEvents
    PROVE  AttemptsHold'
  BY DEF WellFormed, TypeOK, PaymentsTypeOK, AttemptsKept, AttemptsHold, ProviderEvent

\* A checkout that changes its own record and, lawfully, tables.
LEMMA CheckoutLocalStep ==
    ASSUME WellFormed, UNCHANGED lifecycleVars, StoreTypeOK', AttemptsKept,
           UNCHANGED <<providerEvents, paymentEvents, worker>>,
           NEW c \in Checkouts, NEW request \in CheckoutRequest,
           checkout' = [checkout EXCEPT ![c] = request],
           request.pc # "idle" => /\ request.seller \in Sellers
                                  /\ request.plan \in Plans,
           request.pc \in {"reuse", "stale", "insert"} => request.sub \in Subs,
           request.pc = "insert" => request.attempt \in Attempts
    PROVE  WellFormed'
  <1>1. PaymentsTypeOK' /\ CheckoutHolds' /\ WorkerHolds'
    BY DEF WellFormed, TypeOK, PaymentsTypeOK, AttemptsKept, CheckoutHolds, WorkerHolds,
           ProviderEvent
  <1>2. AttemptsHold'
    BY AttemptsStillHold
  <1> QED
    BY <1>1, <1>2, LifecycleUntouched DEF WellFormed, TypeOK

\* A checkout that ends holds nothing.
LEMMA CheckoutIdleWellFormed ==
    ASSUME WellFormed, UNCHANGED lifecycleVars, StoreTypeOK', AttemptsKept,
           UNCHANGED <<providerEvents, paymentEvents, worker>>,
           NEW c \in Checkouts, checkout' = [checkout EXCEPT ![c] = CheckoutIdle]
    PROVE  WellFormed'
  <1>1. CheckoutIdle \in CheckoutRequest /\ CheckoutIdle.pc = "idle"
    BY DEF CheckoutIdle, CheckoutRequest
  <1> QED
    BY <1>1, CheckoutLocalStep

\* The first statements of a checkout, under the lock.
LEMMA BeginCheckoutWellFormed ==
    ASSUME WellFormed, NEW c \in Checkouts, NEW seller \in Sellers, NEW plan \in Plans,
           BeginCheckout(c, seller, plan), UNCHANGED lifecycleVars
    PROVE  WellFormed'
  <1>1. PICK s \in IF RowsOf(seller, {"pending"}) = {} THEN {"none"}
                                                       ELSE RowsOf(seller, {"pending"}) :
          checkout' = [checkout EXCEPT
                        ![c] = [CheckoutIdle EXCEPT
                                  !.pc = IF s = "none" THEN "locked"
                                         ELSE IF subscriptions[s].plan = plan
                                              THEN "reuse" ELSE "locked",
                                  !.sub = s, !.seller = seller, !.plan = plan]]
    BY DEF BeginCheckout
  <1> DEFINE request == [CheckoutIdle EXCEPT
                           !.pc = IF s = "none" THEN "locked"
                                  ELSE IF subscriptions[s].plan = plan
                                       THEN "reuse" ELSE "locked",
                           !.sub = s, !.seller = seller, !.plan = plan]
  <1>2. s \in Subs \union {"none"}
    BY DEF RowsOf
  <1>3. /\ request \in CheckoutRequest
        /\ request.seller = seller /\ request.plan = plan /\ request.sub = s
        /\ request.pc \in {"locked", "reuse"}
        /\ request.pc = "reuse" => s # "none"
    BY <1>2 DEF CheckoutRequest, CheckoutIdle
  <1>4. checkout' = [checkout EXCEPT ![c] = request]
    BY <1>1
  <1>5. StoreTypeOK' /\ AttemptsKept /\ UNCHANGED <<providerEvents, paymentEvents, worker>>
    BY StoreUntouched, AttemptsUnchanged DEF BeginCheckout
  <1> HIDE DEF request
  <1> QED
    BY <1>2, <1>3, <1>4, <1>5, CheckoutLocalStep

\* The commit of createPendingSubscription.
LEMMA CreatePendingSubscriptionWellFormed ==
    ASSUME WellFormed, NEW c \in Checkouts, NEW s \in Subs,
           CreatePendingSubscription(c, s), UNCHANGED lifecycleVars
    PROVE  WellFormed'
  <1> DEFINE old == checkout[c].sub
             created == PendingRow(checkout[c].seller, checkout[c].plan)
             event(from, to) == [from |-> from, to |-> to]
             request == [checkout[c] EXCEPT !.pc = "reuse", !.sub = s]
  <1>1. /\ checkout[c] \in CheckoutRequest
        /\ checkout[c].pc = "locked"
        /\ checkout[c].seller \in Sellers
        /\ checkout[c].plan \in Plans
    BY DEF CreatePendingSubscription, WellFormed, TypeOK, PaymentsTypeOK, CheckoutHolds
  <1>2. created \in SubscriptionRow
    BY <1>1, PendingRowTyped
  <1>3. \A x \in Subs : Superseded(subscriptions[x]) \in SubscriptionRow
    BY DEF Superseded, WellFormed, TypeOK, StoreTypeOK, SubscriptionRow, SubscriptionStatuses
  <1>4. subscriptions' \in [Subs -> SubscriptionRow]
    <2> HIDE DEF created
    <2>1. subscriptions' =
               [x \in Subs |-> IF x = s THEN created
                               ELSE IF x = old
                               THEN Superseded(subscriptions[x])
                               ELSE subscriptions[x]]
      BY DEF CreatePendingSubscription, created
    <2> QED
      BY <1>2, <1>3, <2>1 DEF WellFormed, TypeOK, StoreTypeOK
  <1>5. /\ event("none", "pending") \in StatusEvent
        /\ event("pending", "cancelled") \in StatusEvent
    BY DEF StatusEvent, SubscriptionStatuses
  <1>6. subscriptionEvents' \in [Subs -> Seq(StatusEvent)]
    <2> HIDE DEF event
    <2>1. subscriptionEvents' =
               [x \in Subs |->
                  IF x = s THEN Append(subscriptionEvents[x], event("none", "pending"))
                  ELSE IF x = old
                  THEN Append(subscriptionEvents[x], event("pending", "cancelled"))
                  ELSE subscriptionEvents[x]]
      BY DEF CreatePendingSubscription, event
    <2> QED
      BY <1>5, <2>1 DEF WellFormed, TypeOK, StoreTypeOK
  <1>7. StoreTypeOK'
    BY <1>4, <1>6 DEF CreatePendingSubscription, WellFormed, TypeOK, StoreTypeOK
  <1>8. checkout' = [checkout EXCEPT ![c] = request]
    BY <1>1 DEF CreatePendingSubscription, WellFormed, TypeOK, PaymentsTypeOK, CheckoutRequest
  <1>9. /\ request \in CheckoutRequest /\ request.pc = "reuse" /\ request.sub = s
        /\ request.seller = checkout[c].seller /\ request.plan = checkout[c].plan
    BY <1>1 DEF CheckoutRequest
  <1>10. AttemptsKept /\ UNCHANGED <<providerEvents, paymentEvents, worker>>
    BY AttemptsUnchanged DEF CreatePendingSubscription
  <1> HIDE DEF request
  <1> QED
    BY <1>1, <1>7, <1>8, <1>9, <1>10, CheckoutLocalStep

\* The search for a session to reuse.
LEMMA NoReusableSessionWellFormed ==
    ASSUME WellFormed, NEW c \in Checkouts, NoReusableSession(c), UNCHANGED lifecycleVars
    PROVE  WellFormed'
  <1> DEFINE request == [checkout[c] EXCEPT !.pc = "stale", !.at = now]
  <1>1. checkout[c] \in CheckoutRequest /\ checkout[c].pc = "reuse" /\ now \in Nat
    BY DEF NoReusableSession, WellFormed, TypeOK, PaymentsTypeOK, StoreTypeOK
  <1>2. checkout' = [checkout EXCEPT ![c] = request]
    BY <1>1 DEF NoReusableSession, WellFormed, TypeOK, PaymentsTypeOK, CheckoutRequest
  <1>3. /\ request \in CheckoutRequest /\ request.pc = "stale"
        /\ request.sub = checkout[c].sub
        /\ request.seller = checkout[c].seller /\ request.plan = checkout[c].plan
    BY <1>1 DEF CheckoutRequest
  <1>4. StoreTypeOK' /\ AttemptsKept /\ UNCHANGED <<providerEvents, paymentEvents, worker>>
    BY StoreUntouched, AttemptsUnchanged DEF NoReusableSession
  <1>5. /\ checkout[c].sub \in Subs
        /\ checkout[c].seller \in Sellers
        /\ checkout[c].plan \in Plans
    BY <1>1 DEF WellFormed, CheckoutHolds
  <1> HIDE DEF request
  <1> QED
    BY <1>2, <1>3, <1>4, <1>5, CheckoutLocalStep

\* Retiring the stale attempt and opening a session.
LEMMA ExpireStaleAndOpenSessionWellFormed ==
    ASSUME WellFormed, NEW c \in Checkouts, NEW a \in Attempts,
           ExpireStaleAndOpenSession(c, a), UNCHANGED lifecycleVars
    PROVE  WellFormed'
  <1> DEFINE request == [checkout[c] EXCEPT !.pc = "insert", !.attempt = a]
             stale == OpenAttempts(checkout[c].sub)
                        \ Unexpired(checkout[c].sub, checkout[c].at)
  <1>1. checkout[c] \in CheckoutRequest /\ checkout[c].pc = "stale"
    BY DEF ExpireStaleAndOpenSession, WellFormed, TypeOK, PaymentsTypeOK
  <1>2. checkout' = [checkout EXCEPT ![c] = request]
    BY <1>1 DEF ExpireStaleAndOpenSession, WellFormed, TypeOK, PaymentsTypeOK, CheckoutRequest
  <1>3. /\ request \in CheckoutRequest /\ request.pc = "insert" /\ request.attempt = a
        /\ request.sub = checkout[c].sub
        /\ request.seller = checkout[c].seller /\ request.plan = checkout[c].plan
    BY <1>1 DEF CheckoutRequest
  <1>4. \A x \in stale : attempts[x].status = "pending"
    BY DEF OpenAttempts
  <1>5. AttemptsKept
    <2>1. attempts' = [x \in Attempts |->
                         IF x \in stale THEN [attempts[x] EXCEPT !.status = "expired"]
                                        ELSE attempts[x]]
      BY DEF ExpireStaleAndOpenSession
    <2> HIDE DEF stale
    <2>2. \A x \in Attempts : attempts[x] \in AttemptRow
      BY DEF WellFormed, TypeOK, PaymentsTypeOK
    <2>3. \A x \in Attempts :
            /\ [attempts[x] EXCEPT !.status = "expired"] \in AttemptRow
            /\ [attempts[x] EXCEPT !.status = "expired"].status = "expired"
            /\ [attempts[x] EXCEPT !.status = "expired"].sub = attempts[x].sub
      BY <2>2 DEF AttemptRow, AttemptStatuses
    <2>4. \A x \in Attempts :
            /\ attempts'[x] \in AttemptRow
            /\ attempts'[x].sub = attempts[x].sub
            /\ attempts'[x].status # "none" <=> attempts[x].status # "none"
      BY <1>4, <2>1, <2>2, <2>3
    <2>5. sessions' \subseteq Attempts /\ ignored' \subseteq EventIds
      BY DEF ExpireStaleAndOpenSession, WellFormed, TypeOK, PaymentsTypeOK
    <2> QED
      BY <2>1, <2>4, <2>5 DEF AttemptsKept, WellFormed, AttemptsHold
  <1>6. StoreTypeOK' /\ UNCHANGED <<providerEvents, paymentEvents, worker>>
    BY StoreUntouched DEF ExpireStaleAndOpenSession
  <1>7. /\ checkout[c].sub \in Subs
        /\ checkout[c].seller \in Sellers
        /\ checkout[c].plan \in Plans
    BY <1>1 DEF WellFormed, CheckoutHolds
  <1> HIDE DEF request
  <1> QED
    BY <1>2, <1>3, <1>5, <1>6, <1>7, CheckoutLocalStep

\* The insert of the attempt, or its conflict.
LEMMA InsertAttemptWellFormed ==
    ASSUME PaymentsAssumption, WellFormed, NEW c \in Checkouts, InsertAttempt(c),
           UNCHANGED lifecycleVars
    PROVE  WellFormed'
  <1> DEFINE row == [ status |-> "pending", sub |-> checkout[c].sub,
                      expiresAt |-> checkout[c].at + AttemptTtl ]
  <1>1. /\ checkout[c] \in CheckoutRequest
        /\ checkout[c].sub \in Subs
        /\ checkout[c].at \in Nat
    BY DEF InsertAttempt, WellFormed, TypeOK, PaymentsTypeOK, CheckoutHolds, CheckoutRequest
  <1>2. row \in AttemptRow /\ row.sub \in Subs /\ row.status = "pending"
    BY <1>1 DEF AttemptRow, AttemptStatuses, PaymentsAssumption
  <1>3. AttemptsKept
    <2>1. \/ attempts' = attempts
          \/ attempts' = [attempts EXCEPT ![checkout[c].attempt] = row]
      BY DEF InsertAttempt
    <2>2. UNCHANGED <<sessions, ignored>>
      BY DEF InsertAttempt
    <2> HIDE DEF row
    <2> QED
      BY <1>2, <2>1, <2>2 DEF AttemptsKept, WellFormed, TypeOK, PaymentsTypeOK, AttemptsHold
  <1>4. StoreTypeOK' /\ UNCHANGED <<providerEvents, paymentEvents, worker>>
    BY StoreUntouched DEF InsertAttempt
  <1>5. checkout' = [checkout EXCEPT ![c] = CheckoutIdle]
    BY DEF InsertAttempt
  <1> QED
    BY <1>3, <1>4, <1>5, CheckoutIdleWellFormed

\* Every step of a checkout.
LEMMA CheckoutStepWellFormed ==
    ASSUME PaymentsAssumption, WellFormed, NEW c \in Checkouts, CheckoutStep(c),
           UNCHANGED lifecycleVars
    PROVE  WellFormed'
  <1>1. CASE ReuseSession(c) \/ CheckoutCrash(c)
    BY <1>1, StoreUntouched, AttemptsUnchanged, CheckoutIdleWellFormed
    DEF ReuseSession, CheckoutCrash
  <1> QED
    BY <1>1, BeginCheckoutWellFormed, CreatePendingSubscriptionWellFormed,
       NoReusableSessionWellFormed, ExpireStaleAndOpenSessionWellFormed,
       InsertAttemptWellFormed DEF CheckoutStep

\* A delivery past its insert: the event it holds and its attempt.
LEMMA DeliveryHolds ==
    ASSUME WellFormed, NEW w \in Workers, worker[w].pc # "idle"
    PROVE  /\ worker[w] \in Delivery
           /\ worker[w].event \in EventIds
           /\ DeliveredTo(w) \in ProviderEvent
           /\ DeliveredTo(w).attempt \in Attempts
           /\ attempts[DeliveredTo(w).attempt] \in AttemptRow
           /\ attempts[DeliveredTo(w).attempt].sub \in Subs
           /\ attempts[DeliveredTo(w).attempt].status # "none"
  <1>1. /\ worker[w] \in Delivery
        /\ worker[w].event \in EventIds
        /\ DeliveredTo(w) \in ProviderEvent
    BY DEF WellFormed, TypeOK, PaymentsTypeOK, WorkerHolds, DeliveredTo
  <1>2. DeliveredTo(w).attempt \in Attempts
    BY <1>1 DEF ProviderEvent
  <1>3. attempts[DeliveredTo(w).attempt].status # "none"
    BY DEF WellFormed, WorkerHolds, DeliveredTo
  <1> QED
    BY <1>1, <1>2, <1>3 DEF WellFormed, TypeOK, PaymentsTypeOK, AttemptsHold

\* A delivery that changes its own record and, lawfully, tables.
LEMMA WorkerLocalStep ==
    ASSUME WellFormed, UNCHANGED lifecycleVars, StoreTypeOK', AttemptsKept,
           UNCHANGED <<providerEvents, checkout>>, paymentEvents' \subseteq EventIds,
           NEW w \in Workers, NEW delivery \in Delivery,
           worker' = [worker EXCEPT ![w] = delivery],
           delivery.pc # "idle" =>
             /\ delivery.event \in EventIds
             /\ providerEvents[delivery.event] \in ProviderEvent
             /\ attempts[providerEvents[delivery.event].attempt].status # "none"
             /\ providerEvents[delivery.event].kind = "payment_succeeded"
                  => providerEvents[delivery.event].exact
             /\ delivery.pc \in {"paid", "activating"}
                  => providerEvents[delivery.event].kind = "payment_succeeded"
    PROVE  WellFormed'
  <1>1. PaymentsTypeOK' /\ CheckoutHolds' /\ WorkerHolds'
    BY DEF WellFormed, TypeOK, PaymentsTypeOK, AttemptsKept, CheckoutHolds, WorkerHolds,
           ProviderEvent
  <1>2. AttemptsHold'
    BY AttemptsStillHold
  <1> QED
    BY <1>1, <1>2, LifecycleUntouched DEF WellFormed, TypeOK

\* A delivery that ends holds nothing.
LEMMA WorkerIdleWellFormed ==
    ASSUME WellFormed, UNCHANGED lifecycleVars, StoreTypeOK', AttemptsKept,
           UNCHANGED <<providerEvents, checkout>>, paymentEvents' \subseteq EventIds,
           NEW w \in Workers, worker' = [worker EXCEPT ![w] = WorkerIdle]
    PROVE  WellFormed'
  <1>1. WorkerIdle \in Delivery /\ WorkerIdle.pc = "idle"
    BY DEF WorkerIdle, Delivery
  <1> QED
    BY <1>1, WorkerLocalStep

\* The first insert of a delivery.
LEMMA RecordProviderEventWellFormed ==
    ASSUME WellFormed, NEW w \in Workers, NEW e \in EventIds, RecordProviderEvent(w, e),
           UNCHANGED lifecycleVars
    PROVE  WellFormed'
  <1> DEFINE delivery == Recorded(e)
  <1>1. /\ StoreTypeOK' /\ AttemptsKept
        /\ UNCHANGED <<providerEvents, checkout>>
        /\ paymentEvents' \subseteq EventIds
    BY StoreUntouched, AttemptsUnchanged
    DEF RecordProviderEvent, WellFormed, TypeOK, PaymentsTypeOK
  <1>2. providerEvents[e] \in ProviderEvent
    BY DEF RecordProviderEvent, AttemptKnown, WellFormed, AttemptsHold
  <1>3. CASE NoEffect(providerEvents[e], attempts[providerEvents[e].attempt].status)
    <2>1. worker' = [worker EXCEPT ![w] = worker[w]] /\ worker[w] \in Delivery
      BY <1>3 DEF RecordProviderEvent, WellFormed, TypeOK, PaymentsTypeOK
    <2>2. worker[w].pc = "idle"
      BY DEF RecordProviderEvent
    <2> QED
      BY <1>1, <2>1, <2>2, WorkerLocalStep
  <1>4. CASE ~NoEffect(providerEvents[e], attempts[providerEvents[e].attempt].status)
    <2>1. worker' = [worker EXCEPT ![w] = delivery]
      BY <1>4 DEF RecordProviderEvent
    <2>2. /\ delivery \in Delivery
          /\ delivery.pc = "recorded" /\ delivery.event = e
          /\ attempts[providerEvents[e].attempt].status # "none"
      BY <1>2 DEF Recorded, Delivery, RecordProviderEvent, AttemptKnown, WellFormed, TypeOK,
             PaymentsTypeOK, AttemptRow, ProviderEvent
    <2>3. providerEvents[e].kind = "payment_succeeded" => providerEvents[e].exact
      BY <1>2, <1>4 DEF NoEffect, ProviderEvent
    <2> HIDE DEF delivery
    <2> QED
      BY <1>1, <1>2, <2>1, <2>2, <2>3, WorkerLocalStep
  <1> QED
    BY <1>3, <1>4

\* The commit of an attempt's new status.
LEMMA CommitAttemptWellFormed ==
    ASSUME WellFormed, UNCHANGED lifecycleVars, StoreTypeOK',
           UNCHANGED <<sessions, providerEvents, ignored, checkout>>,
           NEW w \in Workers, worker[w].pc # "idle",
           NEW status \in AttemptStatuses, CommitAttempt(w, status)
    PROVE  WellFormed'
  <1> DEFINE a == DeliveredTo(w).attempt
             row == [attempts[a] EXCEPT !.status = status]
  <1>1. /\ a \in Attempts /\ attempts[a] \in AttemptRow
        /\ attempts[a].sub \in Subs
        /\ worker[w].event \in EventIds
    BY DeliveryHolds
  <1>2. row \in AttemptRow /\ row.sub = attempts[a].sub /\ row.status # "none"
    BY <1>1 DEF AttemptRow, AttemptStatuses
  <1>3. attempts' = [attempts EXCEPT ![a] = row]
    BY <1>1 DEF CommitAttempt, WellFormed, TypeOK, PaymentsTypeOK, AttemptRow
  <1>4. AttemptsKept
    <2> HIDE DEF row, a
    <2> QED
      BY <1>1, <1>2, <1>3 DEF AttemptsKept, WellFormed, TypeOK, PaymentsTypeOK, AttemptsHold
  <1>5. paymentEvents' \subseteq EventIds /\ worker' = [worker EXCEPT ![w] = WorkerIdle]
    BY <1>1 DEF CommitAttempt, WellFormed, TypeOK, PaymentsTypeOK
  <1> QED
    BY <1>4, <1>5, WorkerIdleWellFormed

\* A delivery of a failure or an expiry.
LEMMA ApplyUnpaidWellFormed ==
    ASSUME WellFormed, NEW w \in Workers, ApplyUnpaid(w), UNCHANGED lifecycleVars
    PROVE  WellFormed'
  <1>1. PICK status \in {"failed", "expired"} : CommitAttempt(w, status)
    BY DEF ApplyUnpaid
  <1>2. status \in AttemptStatuses
    BY DEF AttemptStatuses
  <1>3. /\ StoreTypeOK' /\ UNCHANGED <<sessions, providerEvents, ignored, checkout>>
        /\ worker[w].pc # "idle"
    BY StoreUntouched DEF ApplyUnpaid
  <1> QED
    BY <1>1, <1>2, <1>3, CommitAttemptWellFormed

\* A delivery of a success.
LEMMA ApplySucceededWellFormed ==
    ASSUME WellFormed, NEW w \in Workers, ApplySucceeded(w), UNCHANGED lifecycleVars
    PROVE  WellFormed'
  <1> DEFINE s == attempts[DeliveredTo(w).attempt].sub
             delivery == [worker[w] EXCEPT !.pc = "paid", !.at = now]
  <1>1. /\ StoreTypeOK' /\ UNCHANGED <<sessions, providerEvents, ignored, checkout>>
        /\ worker[w].pc = "recorded"
        /\ DeliveredTo(w).kind = "payment_succeeded"
    BY StoreUntouched DEF ApplySucceeded
  <1>2. CASE subscriptions[s].status = "pending" /\ LiveSlotFree(s)
    <2>1. worker' = [worker EXCEPT ![w].pc = "paid", ![w].at = now]
          /\ UNCHANGED <<attempts, paymentEvents>>
      BY <1>2 DEF ApplySucceeded
    <2>2. worker[w] \in Delivery /\ now \in Nat
      BY DEF WellFormed, TypeOK, PaymentsTypeOK, StoreTypeOK
    <2>3. worker' = [worker EXCEPT ![w] = delivery]
      BY <2>1, <2>2 DEF WellFormed, TypeOK, PaymentsTypeOK, Delivery
    <2>4. delivery \in Delivery /\ delivery.pc = "paid" /\ delivery.event = worker[w].event
      BY <2>2 DEF Delivery
    <2>5. /\ worker[w].event \in EventIds
          /\ providerEvents[worker[w].event] \in ProviderEvent
          /\ attempts[providerEvents[worker[w].event].attempt].status # "none"
          /\ providerEvents[worker[w].event].kind = "payment_succeeded"
          /\ providerEvents[worker[w].event].exact
      BY <1>1 DEF WellFormed, WorkerHolds, DeliveredTo
    <2>6. AttemptsKept /\ paymentEvents' \subseteq EventIds
      BY <1>1, <2>1, AttemptsUnchanged DEF WellFormed, TypeOK, PaymentsTypeOK
    <2> HIDE DEF delivery
    <2> QED
      BY <1>1, <2>3, <2>4, <2>5, <2>6, WorkerLocalStep
  <1>3. CASE ~(subscriptions[s].status = "pending" /\ LiveSlotFree(s))
    <2>1. CommitAttempt(w, "succeeded") /\ "succeeded" \in AttemptStatuses
      BY <1>3 DEF ApplySucceeded, AttemptStatuses
    <2> QED
      BY <1>1, <2>1, CommitAttemptWellFormed
  <1> QED
    BY <1>2, <1>3

\* The reads of an activation.
LEMMA ActivateReadWellFormed ==
    ASSUME WellFormed, NEW w \in Workers, ActivateRead(w), UNCHANGED lifecycleVars
    PROVE  WellFormed'
  <1> DEFINE delivery == [worker[w] EXCEPT !.pc = "activating"]
  <1>1. /\ StoreTypeOK' /\ AttemptsKept /\ UNCHANGED <<providerEvents, checkout>>
        /\ paymentEvents' \subseteq EventIds
        /\ worker[w].pc = "paid"
    BY StoreUntouched, AttemptsUnchanged
    DEF ActivateRead, WellFormed, TypeOK, PaymentsTypeOK
  <1>2. \/ worker' = [worker EXCEPT ![w] = delivery]
        \/ worker' = [worker EXCEPT ![w] = WorkerIdle]
    BY DEF ActivateRead
  <1>3. worker[w] \in Delivery
    BY DEF WellFormed, TypeOK, PaymentsTypeOK
  <1>4. delivery \in Delivery /\ delivery.pc = "activating" /\ delivery.event = worker[w].event
    BY <1>3 DEF Delivery
  <1>5. /\ worker[w].event \in EventIds
        /\ providerEvents[worker[w].event] \in ProviderEvent
        /\ attempts[providerEvents[worker[w].event].attempt].status # "none"
        /\ providerEvents[worker[w].event].kind = "payment_succeeded"
        /\ providerEvents[worker[w].event].exact
    BY <1>1 DEF WellFormed, WorkerHolds
  <1> HIDE DEF delivery
  <1> QED
    BY <1>1, <1>2, <1>4, <1>5, WorkerLocalStep, WorkerIdleWellFormed

\* The write of an activation and its commit.
LEMMA ActivateWriteWellFormed ==
    ASSUME StoreAssumption, WellFormed, NEW w \in Workers, ActivateWrite(w),
           UNCHANGED lifecycleVars
    PROVE  WellFormed'
  <1> DEFINE s == attempts[DeliveredTo(w).attempt].sub
             row == ActiveRow(subscriptions[s], worker[w].at)
  <1>1. /\ UNCHANGED <<now, sessions, providerEvents, ignored, checkout>>
        /\ worker[w].pc = "activating"
    BY DEF ActivateWrite
  <1>2. s \in Subs /\ worker[w].at \in Nat
    BY <1>1, DeliveryHolds DEF Delivery
  <1>3. CASE LiveSlotFree(s)
    <2>1. /\ subscriptions' = [subscriptions EXCEPT ![s] = row]
          /\ RecordEvent(s, "pending", "active")
          /\ CommitAttempt(w, "succeeded")
      BY <1>3 DEF ActivateWrite
    <2>2. row \in SubscriptionRow
      BY <1>2, ActiveRowTyped DEF WellFormed, TypeOK, StoreTypeOK
    <2>3. subscriptions' \in [Subs -> SubscriptionRow]
      BY <2>1, <2>2 DEF WellFormed, TypeOK, StoreTypeOK
    <2>4. {"pending", "active"} \subseteq SubscriptionStatuses
      BY DEF SubscriptionStatuses
    <2>5. subscriptionEvents' \in [Subs -> Seq(StatusEvent)]
      BY <2>1, <2>4, RecordEventTyped DEF WellFormed, TypeOK
    <2>6. StoreTypeOK'
      BY <1>1, <2>3, <2>5 DEF WellFormed, TypeOK, StoreTypeOK
    <2>7. "succeeded" \in AttemptStatuses
      BY DEF AttemptStatuses
    <2> QED
      BY <1>1, <2>1, <2>6, <2>7, CommitAttemptWellFormed
  <1>4. CASE ~LiveSlotFree(s)
    <2>1. /\ worker' = [worker EXCEPT ![w] = WorkerIdle]
          /\ UNCHANGED <<subscriptions, subscriptionEvents, attempts, paymentEvents>>
      BY <1>4 DEF ActivateWrite
    <2>2. StoreTypeOK' /\ AttemptsKept /\ paymentEvents' \subseteq EventIds
      BY <1>1, <2>1, AttemptsUnchanged DEF WellFormed, TypeOK, PaymentsTypeOK, StoreTypeOK
    <2> QED
      BY <1>1, <2>1, <2>2, WorkerIdleWellFormed
  <1> QED
    BY <1>3, <1>4

\* Every step of a delivery.
LEMMA WebhookStepWellFormed ==
    ASSUME StoreAssumption, WellFormed, NEW w \in Workers, WebhookStep(w),
           UNCHANGED lifecycleVars
    PROVE  WellFormed'
  <1>1. CASE WebhookCrash(w)
    <2>1. /\ StoreTypeOK' /\ AttemptsKept /\ UNCHANGED <<providerEvents, checkout>>
          /\ paymentEvents' \subseteq EventIds
          /\ worker' = [worker EXCEPT ![w] = WorkerIdle]
      BY <1>1, StoreUntouched, AttemptsUnchanged
      DEF WebhookCrash, WellFormed, TypeOK, PaymentsTypeOK
    <2> QED
      BY <2>1, WorkerIdleWellFormed
  <1> QED
    BY <1>1, RecordProviderEventWellFormed, ApplyUnpaidWellFormed,
       ApplySucceededWellFormed, ActivateReadWellFormed, ActivateWriteWellFormed
    DEF WebhookStep

\* The provider reports an outcome.
LEMMA ProviderEmitsWellFormed ==
    ASSUME WellFormed, NEW e \in EventIds, NEW a \in Attempts, ProviderEmits(e, a),
           UNCHANGED lifecycleVars
    PROVE  WellFormed'
  <1>1. PICK kind \in EventKinds, exact \in BOOLEAN :
          providerEvents' = [providerEvents EXCEPT
                               ![e] = [kind |-> kind, attempt |-> a, exact |-> exact]]
    BY DEF ProviderEmits
  <1> DEFINE emitted == [kind |-> kind, attempt |-> a, exact |-> exact]
  <1>2. emitted \in ProviderEvent /\ emitted.attempt = a
    BY DEF ProviderEvent
  <1>3. /\ StoreTypeOK'
        /\ providerEvents[e] = NotEmitted
        /\ UNCHANGED <<attempts, sessions, paymentEvents, ignored, checkout, worker>>
    BY StoreUntouched DEF ProviderEmits
  <1>4. providerEvents' = [providerEvents EXCEPT ![e] = emitted]
    BY <1>1
  <1>5. NotEmitted \notin ProviderEvent
    BY DEF NotEmitted, ProviderEvent, EventKinds
  <1> HIDE DEF emitted
  <1>6. PaymentsTypeOK' /\ CheckoutHolds'
    BY <1>2, <1>3, <1>4 DEF WellFormed, TypeOK, PaymentsTypeOK, CheckoutHolds
  <1>7. WorkerHolds'
    BY <1>3, <1>4, <1>5 DEF WellFormed, WorkerHolds, TypeOK, PaymentsTypeOK
  <1>8. AttemptsHold'
    BY <1>2, <1>3, <1>4 DEF WellFormed, AttemptsHold, TypeOK, PaymentsTypeOK
  <1> QED
    BY <1>3, <1>6, <1>7, <1>8, LifecycleUntouched DEF WellFormed, TypeOK

\* An event of a session without a stored attempt is answered.
LEMMA IgnoreEventWellFormed ==
    ASSUME WellFormed, NEW e \in EventIds, IgnoreEvent(e), UNCHANGED lifecycleVars
    PROVE  WellFormed'
  <1>1. /\ StoreTypeOK'
        /\ UNCHANGED <<attempts, sessions, providerEvents, paymentEvents, checkout, worker>>
        /\ ignored' = ignored \union {e}
    BY StoreUntouched DEF IgnoreEvent
  <1>2. PaymentsTypeOK' /\ CheckoutHolds' /\ WorkerHolds' /\ AttemptsHold'
    BY <1>1 DEF WellFormed, TypeOK, PaymentsTypeOK, CheckoutHolds, WorkerHolds, AttemptsHold
  <1> QED
    BY <1>1, <1>2, LifecycleUntouched DEF WellFormed, TypeOK

\* WellFormed is inductive.
LEMMA NextWellFormed ==
    ASSUME StoreAssumption, PaymentsAssumption, WellFormed, [Next]_vars
    PROVE  WellFormed'
  <1>1. CASE UNCHANGED vars
    BY <1>1, StoreUntouched, LifecycleUntouched, PaymentsUntouched
    DEF vars, WellFormed, TypeOK
  <1>2. CASE Tick /\ UNCHANGED <<lifecycleVars, paymentVars>>
    <2>1. StoreTypeOK'
      BY <1>2 DEF Tick, WellFormed, TypeOK, StoreTypeOK
    <2> QED
      BY <1>2, <2>1, LifecycleUntouched, PaymentsUntouched DEF WellFormed, TypeOK
  <1> QED
    BY <1>1, <1>2, CheckoutStepWellFormed, WebhookStepWellFormed, ProviderEmitsWellFormed,
       IgnoreEventWellFormed, SweepStepWellFormed, OwnerStepWellFormed DEF Next

\* In every reachable state each process holds only what is there: the rows a
\* sweep, an owner, a checkout or a delivery read still exist, typed.
THEOREM AlwaysWellFormed == Spec => []WellFormed
  <1>1. Init => WellFormed
    BY InitWellFormed
  <1>2. WellFormed /\ [Next]_vars => WellFormed'
    BY StoreAssumption, PaymentsAssumption, NextWellFormed
  <1> QED
    BY <1>1, <1>2, PTL DEF Spec

\* Every reachable state is typed: no process ever works on a row, attempt or
\* event that is not there, whatever the others did since it read.
THEOREM TypeCorrect == Spec => []TypeOK
  <1>1. WellFormed => TypeOK
    BY DEF WellFormed
  <1> QED
    BY <1>1, AlwaysWellFormed, PTL

-----------------------------------------------------------------------------
(* One application per event id *)

IdleHoldsNothing == \A w \in Workers : worker[w].pc = "idle" => worker[w].event = "none"

AppliedOnceInv == AppliedOnce /\ IdleHoldsNothing

\* At first nothing is delivered.
LEMMA InitAppliedOnce == Init => AppliedOnceInv
  BY DEF Init, PaymentsInit, AppliedOnceInv, AppliedOnce, IdleHoldsNothing, WorkerIdle

\* A delivery that ends, having recorded at most its own event.
LEMMA WorkerEndsAppliedOnce ==
    ASSUME PaymentsAssumption, WellFormed, AppliedOnceInv, NEW w \in Workers,
           worker[w].pc # "idle",
           worker' = [worker EXCEPT ![w] = WorkerIdle],
           paymentEvents' \subseteq paymentEvents \union {worker[w].event}
    PROVE  AppliedOnceInv'
  <1>1. \A v \in Workers \ {w} : worker'[v] = worker[v]
    OBVIOUS
  <1>2. worker'[w] = WorkerIdle
    BY DEF WellFormed, TypeOK, PaymentsTypeOK
  <1>3. WorkerIdle.pc = "idle" /\ WorkerIdle.event = "none"
    BY DEF WorkerIdle
  <1>4. \A v \in Workers : worker[v].pc # "idle" => worker[v].event # "none"
    BY DEF WellFormed, WorkerHolds, PaymentsAssumption
  <1> QED
    BY <1>1, <1>2, <1>3, <1>4 DEF AppliedOnceInv, AppliedOnce, IdleHoldsNothing

\* A delivery that moves on with the event it holds.
LEMMA WorkerMovesAppliedOnce ==
    ASSUME WellFormed, AppliedOnceInv, NEW w \in Workers, worker[w].pc # "idle",
           NEW d, worker' = [worker EXCEPT ![w] = d],
           d.pc # "idle", d.event = worker[w].event, UNCHANGED paymentEvents
    PROVE  AppliedOnceInv'
  <1>1. \A v \in Workers \ {w} : worker'[v] = worker[v]
    OBVIOUS
  <1>2. worker'[w] = d
    BY DEF WellFormed, TypeOK, PaymentsTypeOK
  <1> QED
    BY <1>1, <1>2 DEF AppliedOnceInv, AppliedOnce, IdleHoldsNothing

\* A delivery gets past its insert only if nobody else has or had.
LEMMA NextAppliedOnce ==
    ASSUME PaymentsAssumption, WellFormed, AppliedOnceInv, [Next]_vars
    PROVE  AppliedOnceInv'
  <1>1. CASE UNCHANGED <<worker, paymentEvents>>
    BY <1>1 DEF AppliedOnceInv, AppliedOnce, IdleHoldsNothing
  <1>2. ASSUME NEW w \in Workers, NEW e \in EventIds, RecordProviderEvent(w, e)
        PROVE  AppliedOnceInv'
    <2> DEFINE d == Recorded(e)
    <2>1. /\ worker[w].pc = "idle"
          /\ e \notin paymentEvents
          /\ \A v \in Workers : worker[v].event # e
      BY <1>2 DEF RecordProviderEvent, InFlight
    <2>2. \/ paymentEvents' = paymentEvents \union {e} /\ UNCHANGED worker
          \/ worker' = [worker EXCEPT ![w] = d] /\ UNCHANGED paymentEvents
      BY <1>2 DEF RecordProviderEvent
    <2>3. CASE paymentEvents' = paymentEvents \union {e} /\ UNCHANGED worker
      BY <2>1, <2>3 DEF AppliedOnceInv, AppliedOnce, IdleHoldsNothing
    <2>4. CASE worker' = [worker EXCEPT ![w] = d] /\ UNCHANGED paymentEvents
      <3>1. worker'[w] = d /\ \A v \in Workers \ {w} : worker'[v] = worker[v]
        BY <2>4 DEF WellFormed, TypeOK, PaymentsTypeOK
      <3>2. d.pc = "recorded" /\ d.event = e
        BY DEF Recorded
      <3> HIDE DEF d
      <3> QED
        BY <2>1, <2>4, <3>1, <3>2 DEF AppliedOnceInv, AppliedOnce, IdleHoldsNothing
    <2> QED
      BY <2>2, <2>3, <2>4
  <1>3. ASSUME NEW w \in Workers,
               ApplyUnpaid(w) \/ ApplySucceeded(w) \/ ActivateRead(w) \/ ActivateWrite(w)
                 \/ WebhookCrash(w)
        PROVE  AppliedOnceInv'
    <2>1. worker[w].pc # "idle" /\ worker[w] \in Delivery
      BY <1>3 DEF ApplyUnpaid, ApplySucceeded, ActivateRead, ActivateWrite, WebhookCrash,
                  WellFormed, TypeOK, PaymentsTypeOK
    <2>2. \/ /\ worker' = [worker EXCEPT ![w] = WorkerIdle]
             /\ paymentEvents' \subseteq paymentEvents \union {worker[w].event}
          \/ /\ worker' = [worker EXCEPT ![w].pc = "paid", ![w].at = now]
             /\ UNCHANGED paymentEvents
          \/ /\ worker' = [worker EXCEPT ![w] = [@ EXCEPT !.pc = "activating"]]
             /\ UNCHANGED paymentEvents
      BY <1>3 DEF ApplyUnpaid, ApplySucceeded, ActivateRead, ActivateWrite, WebhookCrash,
                  CommitAttempt
    <2>3. CASE /\ worker' = [worker EXCEPT ![w] = WorkerIdle]
               /\ paymentEvents' \subseteq paymentEvents \union {worker[w].event}
      BY <2>1, <2>3, WorkerEndsAppliedOnce
    <2>4. CASE /\ worker' = [worker EXCEPT ![w].pc = "paid", ![w].at = now]
               /\ UNCHANGED paymentEvents
      <3> DEFINE d == [worker[w] EXCEPT !.pc = "paid", !.at = now]
      <3>1. worker' = [worker EXCEPT ![w] = d]
        BY <2>4, <2>1 DEF Delivery, WellFormed, TypeOK, PaymentsTypeOK
      <3>2. d.pc # "idle" /\ d.event = worker[w].event
        BY <2>1 DEF Delivery
      <3> HIDE DEF d
      <3> QED
        BY <2>1, <2>4, <3>1, <3>2, WorkerMovesAppliedOnce
    <2>5. CASE /\ worker' = [worker EXCEPT ![w] = [@ EXCEPT !.pc = "activating"]]
               /\ UNCHANGED paymentEvents
      <3> DEFINE d == [worker[w] EXCEPT !.pc = "activating"]
      <3>1. worker' = [worker EXCEPT ![w] = d]
        BY <2>5
      <3>2. d.pc # "idle" /\ d.event = worker[w].event
        BY <2>1 DEF Delivery
      <3> HIDE DEF d
      <3> QED
        BY <2>1, <2>5, <3>1, <3>2, WorkerMovesAppliedOnce
    <2> QED
      BY <2>2, <2>3, <2>4, <2>5
  <1>4. ASSUME NEW c \in Checkouts, CheckoutStep(c)
        PROVE  UNCHANGED <<worker, paymentEvents>>
    BY <1>4 DEF CheckoutStep, BeginCheckout, CreatePendingSubscription, ReuseSession,
                NoReusableSession, ExpireStaleAndOpenSession, InsertAttempt, CheckoutCrash
  <1>5. ASSUME NEW e \in EventIds, NEW a \in Attempts, ProviderEmits(e, a)
        PROVE  UNCHANGED <<worker, paymentEvents>>
    BY <1>5 DEF ProviderEmits
  <1>6. ASSUME NEW e \in EventIds, IgnoreEvent(e)
        PROVE  UNCHANGED <<worker, paymentEvents>>
    BY <1>6 DEF IgnoreEvent
  <1> QED
    BY <1>1, <1>2, <1>3, <1>4, <1>5, <1>6 DEF Next, WebhookStep, paymentVars, vars

\* recordProviderEventOnce: a provider event has its effect once, whatever the
\* number of deliveries, workers and crashes.
THEOREM EventsAppliedOnce == Spec => []AppliedOnce
  <1>1. Init => AppliedOnceInv
    BY InitAppliedOnce
  <1>2. WellFormed /\ AppliedOnceInv /\ [Next]_vars => AppliedOnceInv'
    BY PaymentsAssumption, NextAppliedOnce
  <1>3. AppliedOnceInv => AppliedOnce
    BY DEF AppliedOnceInv
  <1> QED
    BY <1>1, <1>2, <1>3, AlwaysWellFormed, PTL DEF Spec

-----------------------------------------------------------------------------
(* What one step may do to the rows: classified once, used by the theorems *)
(* about live, pending and paid rows                                       *)

\* Only checkout's commit creates a row.
CreatesPending(c, s) ==
    /\ checkout[c].pc = "locked"
    /\ subscriptions[s].status = "none"
    /\ ~PendingConflict(c)
    /\ subscriptions'[s].status = "pending"
    /\ subscriptions'[s].seller = checkout[c].seller
    /\ checkout' = [checkout EXCEPT ![c].pc = "reuse", ![c].sub = s]
    /\ \A x \in Subs \ {s} :
         /\ subscriptions'[x].seller = subscriptions[x].seller
         /\ subscriptions'[x].status =
              IF x = checkout[c].sub THEN "cancelled" ELSE subscriptions[x].status

\* Every other step changes the status of at most one row, never back to none or
\* pending, and to a live one only if the seller's live slot is free.
MovesOne(s) ==
    /\ \A x \in Subs \ {s} : /\ subscriptions'[x].seller = subscriptions[x].seller
                             /\ subscriptions'[x].status = subscriptions[x].status
    /\ subscriptions'[s].seller = subscriptions[s].seller
    /\ subscriptions'[s].status \notin {"none", "pending"}
    /\ subscriptions'[s].status \in LiveStatuses => LiveSlotFree(s)

MovesNone ==
    \A x \in Subs : /\ subscriptions'[x].seller = subscriptions[x].seller
                    /\ subscriptions'[x].status = subscriptions[x].status

\* What a sweep's write does to the rows.
LEMMA SweepWriteMoves ==
    ASSUME StoreAssumption, WellFormed, NEW w \in Sweepers, SweepWrite(w)
    PROVE  /\ sweeper[w].item \in sweeper[w].todo
           /\ sweeper[w].item.id \in Subs
           /\ MovesOne(sweeper[w].item.id) \/ MovesNone
  <1> DEFINE item == sweeper[w].item
             s == item.id
             row == SweepPatch(subscriptions[s], sweeper[w], item)
  <1>1. /\ sweeper[w] \in SweepRun
        /\ sweeper[w].pc \in {"active_write", "grace_write"}
    BY DEF WellFormed, TypeOK, LifecycleTypeOK, SweepWrite
  <1>2. item \in sweeper[w].todo /\ item \in SweepItem
    BY <1>1 DEF WellFormed, SweepHolds, SweepRun
  <1>3. s \in Subs /\ subscriptions[s] \in SubscriptionRow
    BY <1>2 DEF SweepItem, WellFormed, TypeOK, StoreTypeOK
  <1>4. SweepAction(sweeper[w], item) = "enter_grace" => item.currentPeriodEnd \in Nat
    BY <1>1, <1>2 DEF WellFormed, SweepHolds, SweepAction
  <1>5. /\ row.status \in {"grace_period", "expired", "cancelled"}
        /\ row.seller = subscriptions[s].seller
    BY <1>3, <1>4, SweepPatchTyped, TimesArithmetic
  <1>6. \/ UNCHANGED subscriptions
        \/ /\ subscriptions' = [subscriptions EXCEPT ![s] = row]
           /\ row.status \in LiveStatuses => LiveSlotFree(s)
    BY DEF SweepWrite, storeVars
  <1>7. CASE UNCHANGED subscriptions
    BY <1>2, <1>3, <1>7 DEF MovesNone
  <1>8. CASE /\ subscriptions' = [subscriptions EXCEPT ![s] = row]
             /\ row.status \in LiveStatuses => LiveSlotFree(s)
    <2>1. subscriptions'[s] = row /\ \A x \in Subs \ {s} : subscriptions'[x] = subscriptions[x]
      BY <1>3, <1>8 DEF WellFormed, TypeOK, StoreTypeOK
    <2> HIDE DEF row
    <2> QED
      BY <1>2, <1>3, <1>5, <1>8, <2>1 DEF MovesOne
  <1> QED
    BY <1>6, <1>7, <1>8

\* What an owner's commit does to the rows.
LEMMA OwnerCommitMoves ==
    ASSUME WellFormed, NEW o \in Owners, OwnerCommit(o)
    PROVE  MovesNone
  <1>1. subscriptions' = [subscriptions EXCEPT ![owner[o].sub].cancelAt = owner[o].cancelAt]
    BY DEF OwnerCommit
  <1>2. \A x \in Subs : subscriptions[x] \in SubscriptionRow
    BY DEF WellFormed, TypeOK, StoreTypeOK
  <1>3. subscriptions \in [Subs -> SubscriptionRow]
    BY DEF WellFormed, TypeOK, StoreTypeOK
  <1> QED
    BY <1>1, <1>2, <1>3 DEF MovesNone, SubscriptionRow

\* What an activation does to the rows.
LEMMA ActivateWriteMoves ==
    ASSUME StoreAssumption, WellFormed, NEW w \in Workers, ActivateWrite(w)
    PROVE  \/ MovesNone
           \/ /\ MovesOne(attempts[DeliveredTo(w).attempt].sub)
              /\ CommitAttempt(w, "succeeded")
  <1> DEFINE s == attempts[DeliveredTo(w).attempt].sub
             row == ActiveRow(subscriptions[s], worker[w].at)
  <1>1. s \in Subs /\ worker[w].at \in Nat
    BY DeliveryHolds DEF Delivery, ActivateWrite
  <1>2. CASE LiveSlotFree(s)
    <2>1. subscriptions' = [subscriptions EXCEPT ![s] = row] /\ CommitAttempt(w, "succeeded")
      BY <1>2 DEF ActivateWrite
    <2>2. row.status = "active" /\ row.seller = subscriptions[s].seller
      BY <1>1, ActiveRowTyped DEF WellFormed, TypeOK, StoreTypeOK
    <2>3. subscriptions'[s] = row /\ \A x \in Subs \ {s} : subscriptions'[x] = subscriptions[x]
      BY <1>1, <2>1 DEF WellFormed, TypeOK, StoreTypeOK
    <2> HIDE DEF row
    <2> QED
      BY <1>2, <2>1, <2>2, <2>3 DEF MovesOne
  <1>3. CASE ~LiveSlotFree(s)
    BY <1>3 DEF ActivateWrite, MovesNone
  <1> QED
    BY <1>2, <1>3

\* What a new pending row does to the rows.
LEMMA CreatePendingSubscriptionMoves ==
    ASSUME WellFormed, NEW c \in Checkouts, NEW s \in Subs, CreatePendingSubscription(c, s)
    PROVE  CreatesPending(c, s)
  <1> DEFINE created == PendingRow(checkout[c].seller, checkout[c].plan)
  <1>1. created.status = "pending" /\ created.seller = checkout[c].seller
    BY PendingRowTyped
    DEF CreatePendingSubscription, WellFormed, CheckoutHolds
  <1>2. subscriptions' =
               [x \in Subs |-> IF x = s THEN created
                               ELSE IF x = checkout[c].sub
                               THEN Superseded(subscriptions[x])
                               ELSE subscriptions[x]]
    BY DEF CreatePendingSubscription
  <1>3. \A x \in Subs : subscriptions[x] \in SubscriptionRow
    BY DEF WellFormed, TypeOK, StoreTypeOK
  <1>4. \A x \in Subs :
          /\ Superseded(subscriptions[x]).status = "cancelled"
          /\ Superseded(subscriptions[x]).seller = subscriptions[x].seller
    BY <1>3 DEF Superseded, SubscriptionRow
  <1> HIDE DEF created
  <1>5. \A x \in Subs \ {s} :
         /\ subscriptions'[x].seller = subscriptions[x].seller
         /\ subscriptions'[x].status =
              IF x = checkout[c].sub THEN "cancelled" ELSE subscriptions[x].status
    BY <1>2, <1>4
  <1>6. subscriptions'[s] = created
    BY <1>2
  <1>7. /\ checkout[c].pc = "locked"
        /\ subscriptions[s].status = "none"
        /\ ~PendingConflict(c)
        /\ checkout' = [checkout EXCEPT ![c].pc = "reuse", ![c].sub = s]
    BY DEF CreatePendingSubscription
  <1> QED
    BY <1>1, <1>5, <1>6, <1>7 DEF CreatesPending

\* Every step of the system, by what it does to the rows.
LEMMA StepMoves ==
    ASSUME StoreAssumption, WellFormed, [Next]_vars
    PROVE  \/ \E c \in Checkouts, s \in Subs : CreatesPending(c, s)
           \/ \E s \in Subs : MovesOne(s)
           \/ MovesNone
  <1>1. UNCHANGED subscriptions => MovesNone
    BY DEF MovesNone
  <1>2. CASE UNCHANGED vars
    BY <1>1, <1>2 DEF vars, storeVars
  <1>3. ASSUME NEW c \in Checkouts, CheckoutStep(c)
        PROVE  \/ \E s \in Subs : CreatesPending(c, s)
               \/ MovesNone
    BY <1>1, <1>3, CreatePendingSubscriptionMoves
    DEF CheckoutStep, BeginCheckout, ReuseSession, NoReusableSession,
        ExpireStaleAndOpenSession, InsertAttempt, CheckoutCrash, storeVars
  <1>4. ASSUME NEW w \in Workers, WebhookStep(w)
        PROVE  \/ \E s \in Subs : MovesOne(s)
               \/ MovesNone
    <2>1. CASE ActivateWrite(w)
      <3>1. attempts[DeliveredTo(w).attempt].sub \in Subs
        BY <2>1, DeliveryHolds DEF ActivateWrite
      <3> QED
        BY <2>1, <3>1, ActivateWriteMoves
    <2>2. CASE ~ActivateWrite(w)
      BY <1>1, <1>4, <2>2
      DEF WebhookStep, RecordProviderEvent, ApplyUnpaid, ApplySucceeded, ActivateRead,
          WebhookCrash, storeVars
    <2> QED
      BY <2>1, <2>2
  <1>5. ASSUME NEW e \in EventIds, NEW a \in Attempts, ProviderEmits(e, a)
        PROVE  MovesNone
    BY <1>1, <1>5 DEF ProviderEmits, storeVars
  <1>6. ASSUME NEW w \in Sweepers, SweepStep(w)
        PROVE  \/ \E s \in Subs : MovesOne(s)
               \/ MovesNone
    BY <1>1, <1>6, SweepWriteMoves
    DEF SweepStep, SweepBegin, SweepRead, SweepSelectElapsed, SweepEnd, SweepCrash, storeVars
  <1>7. ASSUME NEW o \in Owners, OwnerStep(o)
        PROVE  MovesNone
    BY <1>1, <1>7, OwnerCommitMoves
    DEF OwnerStep, ScheduleCancellation, ResumeSubscription, OwnerReads, OwnerCrash, storeVars
  <1>8. Tick => MovesNone
    BY <1>1 DEF Tick
  <1>9. ASSUME NEW e \in EventIds, IgnoreEvent(e)
        PROVE  MovesNone
    BY <1>1, <1>9 DEF IgnoreEvent, storeVars
  <1> QED
    BY <1>2, <1>3, <1>4, <1>5, <1>9, <1>6, <1>7, <1>8 DEF Next

-----------------------------------------------------------------------------
(* One live subscription per seller *)

\* One live row per seller follows from the classification of steps.
LEMMA NextOneLive ==
    ASSUME StoreAssumption, WellFormed, OneLivePerSeller, [Next]_vars
    PROVE  OneLivePerSeller'
  <1>1. CASE MovesNone
    BY <1>1 DEF MovesNone, OneLivePerSeller
  <1>2. ASSUME NEW s \in Subs, MovesOne(s)
        PROVE  OneLivePerSeller'
    <2>1. CASE subscriptions'[s].status \notin LiveStatuses
      BY <1>2, <2>1 DEF MovesOne, OneLivePerSeller
    <2>2. CASE subscriptions'[s].status \in LiveStatuses
      <3>1. \A x \in Subs \ {s} :
              ~(/\ subscriptions[x].seller = subscriptions[s].seller
                /\ subscriptions[x].status \in LiveStatuses)
        BY <1>2, <2>2 DEF MovesOne, LiveSlotFree, RowsOf
      <3> QED
        BY <1>2, <3>1 DEF MovesOne, OneLivePerSeller
    <2> QED
      BY <2>1, <2>2
  <1>3. ASSUME NEW c \in Checkouts, NEW s \in Subs, CreatesPending(c, s)
        PROVE  OneLivePerSeller'
    BY <1>3 DEF CreatesPending, OneLivePerSeller, LiveStatuses
  <1> QED
    BY <1>1, <1>2, <1>3, StepMoves

\* A seller never holds two live subscriptions, for any number of concurrent
\* checkouts, deliveries, sweeps and owner requests.
THEOREM OneLiveSubscription == Spec => []OneLivePerSeller
  <1>1. Init => OneLivePerSeller
    BY DEF Init, StoreInit, OneLivePerSeller, NoSubscription, LiveStatuses
  <1>2. WellFormed /\ OneLivePerSeller /\ [Next]_vars => OneLivePerSeller'
    BY StoreAssumption, NextOneLive
  <1> QED
    BY <1>1, <1>2, AlwaysWellFormed, PTL DEF Spec

-----------------------------------------------------------------------------
(* One open attempt per subscription *)

\* Only the guarded insert opens an attempt.
LEMMA NextOneOpen ==
    ASSUME WellFormed, OneOpenAttempt, [Next]_vars
    PROVE  OneOpenAttempt'
  <1>1. CASE \A a \in Attempts : /\ attempts'[a].sub = attempts[a].sub
                                 /\ attempts'[a].status = "pending"
                                      => attempts[a].status = "pending"
    BY <1>1 DEF OneOpenAttempt
  <1>2. CASE UNCHANGED attempts
    BY <1>1, <1>2
  <1>3. ASSUME NEW c \in Checkouts, InsertAttempt(c)
        PROVE  OneOpenAttempt'
    <2> DEFINE a == checkout[c].attempt
               row == [ status |-> "pending", sub |-> checkout[c].sub,
                        expiresAt |-> checkout[c].at + AttemptTtl ]
    <2>1. CASE OpenAttempts(checkout[c].sub) = {}
      <3>1. attempts' = [attempts EXCEPT ![a] = row]
        BY <1>3, <2>1 DEF InsertAttempt
      <3>2. a \in Attempts
        BY <1>3 DEF InsertAttempt, WellFormed, CheckoutHolds
      <3>3. row.status = "pending" /\ row.sub = checkout[c].sub
        OBVIOUS
      <3> HIDE DEF row
      <3>4. attempts'[a] = row /\ \A x \in Attempts \ {a} : attempts'[x] = attempts[x]
        BY <3>1, <3>2 DEF WellFormed, TypeOK, PaymentsTypeOK
      <3>5. \A x \in Attempts : ~(/\ attempts[x].sub = checkout[c].sub
                                  /\ attempts[x].status = "pending")
        BY <2>1 DEF OpenAttempts
      <3> QED
        BY <3>3, <3>4, <3>5 DEF OneOpenAttempt
    <2>2. CASE OpenAttempts(checkout[c].sub) # {}
      BY <1>2, <1>3, <2>2 DEF InsertAttempt
    <2> QED
      BY <2>1, <2>2
  <1>4. ASSUME NEW c \in Checkouts, NEW a \in Attempts, ExpireStaleAndOpenSession(c, a)
        PROVE  OneOpenAttempt'
    <2> DEFINE stale == OpenAttempts(checkout[c].sub)
                          \ Unexpired(checkout[c].sub, checkout[c].at)
    <2>1. attempts' = [x \in Attempts |->
                         IF x \in stale THEN [attempts[x] EXCEPT !.status = "expired"]
                                        ELSE attempts[x]]
      BY <1>4 DEF ExpireStaleAndOpenSession
    <2>2. \A x \in Attempts :
            /\ [attempts[x] EXCEPT !.status = "expired"].status = "expired"
            /\ [attempts[x] EXCEPT !.status = "expired"].sub = attempts[x].sub
      BY DEF WellFormed, TypeOK, PaymentsTypeOK, AttemptRow
    <2> HIDE DEF stale
    <2> QED
      BY <1>1, <2>1, <2>2
  <1>5. ASSUME NEW w \in Workers, worker[w].pc # "idle",
               NEW status \in AttemptStatuses \ {"pending"}, CommitAttempt(w, status)
        PROVE  OneOpenAttempt'
    <2>1. attempts' = [attempts EXCEPT ![DeliveredTo(w).attempt].status = status]
      BY <1>5 DEF CommitAttempt
    <2>2. \A x \in Attempts : attempts[x] \in AttemptRow
      BY DEF WellFormed, TypeOK, PaymentsTypeOK
    <2> QED
      BY <1>1, <2>1, <2>2 DEF AttemptRow, WellFormed, TypeOK, PaymentsTypeOK
  <1>6. ASSUME NEW w \in Workers, WebhookStep(w)
        PROVE  OneOpenAttempt'
    <2>1. {"succeeded", "failed", "expired"} \subseteq AttemptStatuses \ {"pending"}
      BY DEF AttemptStatuses
    <2>2. \/ UNCHANGED attempts
          \/ /\ worker[w].pc # "idle"
             /\ \E status \in {"succeeded", "failed", "expired"} : CommitAttempt(w, status)
      BY <1>6 DEF WebhookStep, RecordProviderEvent, ApplyUnpaid, ApplySucceeded,
                  ActivateRead, ActivateWrite, WebhookCrash
    <2> QED
      BY <1>2, <1>5, <2>1, <2>2
  <1>7. ASSUME NEW c \in Checkouts, CheckoutStep(c)
        PROVE  OneOpenAttempt'
    BY <1>2, <1>3, <1>4, <1>7
    DEF CheckoutStep, BeginCheckout, CreatePendingSubscription, ReuseSession,
        NoReusableSession, CheckoutCrash
  <1>8. ASSUME NEW e \in EventIds, NEW a \in Attempts, ProviderEmits(e, a)
        PROVE  OneOpenAttempt'
    BY <1>2, <1>8 DEF ProviderEmits
  <1>9. ASSUME NEW e \in EventIds, IgnoreEvent(e)
        PROVE  OneOpenAttempt'
    BY <1>2, <1>9 DEF IgnoreEvent
  <1> QED
    BY <1>2, <1>6, <1>7, <1>8, <1>9 DEF Next, vars, paymentVars

\* However checkouts interleave, a subscription has one open attempt at most:
\* the seller is sent to one payable session.
THEOREM OneOpenAttemptAlways == Spec => []OneOpenAttempt
  <1>1. Init => OneOpenAttempt
    BY DEF Init, PaymentsInit, OneOpenAttempt, NoAttempt
  <1>2. WellFormed /\ OneOpenAttempt /\ [Next]_vars => OneOpenAttempt'
    BY NextOneOpen
  <1> QED
    BY <1>1, <1>2, AlwaysWellFormed, PTL DEF Spec

-----------------------------------------------------------------------------
(* The advisory lock *)

PendingUnique ==
    \A s, t \in Subs :
        /\ subscriptions[s].status = "pending"
        /\ subscriptions[t].status = "pending"
        /\ subscriptions[s].seller = subscriptions[t].seller
        => s = t

LockExclusive ==
    \A c, d \in Checkouts :
        /\ checkout[c].pc = "locked"
        /\ checkout[d].pc = "locked"
        /\ checkout[c].seller = checkout[d].seller
        => c = d

LockInv == PendingUnique /\ LockExclusive /\ NoPendingCollision

\* Steps that create no pending row and take no lock.
LEMMA LockInvKept ==
    ASSUME LockInv,
           \A x \in Subs : subscriptions'[x].status = "pending" =>
             /\ subscriptions[x].status = "pending"
             /\ subscriptions'[x].seller = subscriptions[x].seller,
           \A c \in Checkouts : checkout'[c].pc = "locked" => checkout'[c] = checkout[c]
    PROVE  LockInv'
  <1>1. PendingUnique' /\ LockExclusive'
    BY DEF LockInv, PendingUnique, LockExclusive
  <1>2. NoPendingCollision'
    BY DEF LockInv, NoPendingCollision, PendingConflict, RowsOf
  <1> QED
    BY <1>1, <1>2 DEF LockInv

\* A checkout enters the section between lock and commit alone.
LEMMA BeginCheckoutLocks ==
    ASSUME WellFormed, LockInv, NEW c \in Checkouts, NEW seller \in Sellers, NEW plan \in Plans,
           BeginCheckout(c, seller, plan)
    PROVE  LockInv'
  <1>1. PICK s \in IF RowsOf(seller, {"pending"}) = {} THEN {"none"}
                                                       ELSE RowsOf(seller, {"pending"}) :
          checkout' = [checkout EXCEPT
                        ![c] = [CheckoutIdle EXCEPT
                                  !.pc = IF s = "none" THEN "locked"
                                         ELSE IF subscriptions[s].plan = plan
                                              THEN "reuse" ELSE "locked",
                                  !.sub = s, !.seller = seller, !.plan = plan]]
    BY DEF BeginCheckout
  <1> DEFINE request == [CheckoutIdle EXCEPT
                           !.pc = IF s = "none" THEN "locked"
                                  ELSE IF subscriptions[s].plan = plan
                                       THEN "reuse" ELSE "locked",
                           !.sub = s, !.seller = seller, !.plan = plan]
  <1>2. request.seller = seller /\ request.sub = s
    BY DEF CheckoutIdle
  <1>3. /\ checkout'[c] = request
        /\ \A d \in Checkouts \ {c} : checkout'[d] = checkout[d]
    BY <1>1 DEF WellFormed, TypeOK, PaymentsTypeOK
  <1> HIDE DEF request
  <1>4. UNCHANGED subscriptions
    BY DEF BeginCheckout, storeVars
  <1>5. PendingUnique'
    BY <1>4 DEF LockInv, PendingUnique
  <1>6. LockExclusive'
    BY <1>2, <1>3 DEF LockInv, LockExclusive, BeginCheckout, AdvisoryLockFree
  <1>7. RowsOf(seller, {"pending"}) \ {s} = {}
    BY DEF RowsOf, LockInv, PendingUnique
  <1>8. ~PendingConflict(c)'
    BY <1>2, <1>3, <1>4, <1>7 DEF PendingConflict, RowsOf
  <1>9. \A d \in Checkouts \ {c} : checkout'[d].pc = "locked" => ~PendingConflict(d)'
    BY <1>3, <1>4 DEF PendingConflict, RowsOf, LockInv, NoPendingCollision
  <1> QED
    BY <1>5, <1>6, <1>8, <1>9 DEF LockInv, NoPendingCollision

\* The insert of the pending row happens under the lock.
LEMMA CreatesPendingLocks ==
    ASSUME WellFormed, LockInv, NEW c \in Checkouts, NEW s \in Subs, CreatesPending(c, s)
    PROVE  LockInv'
  <1> DEFINE request == [checkout[c] EXCEPT !.pc = "reuse", !.sub = s]
  <1>1. checkout' = [checkout EXCEPT ![c] = request]
    BY DEF CreatesPending, WellFormed, TypeOK, PaymentsTypeOK, CheckoutRequest
  <1>2. request.pc = "reuse"
    BY DEF WellFormed, TypeOK, PaymentsTypeOK, CheckoutRequest
  <1>3. /\ checkout'[c].pc = "reuse"
        /\ \A d \in Checkouts \ {c} : checkout'[d] = checkout[d]
    BY <1>1, <1>2 DEF WellFormed, TypeOK, PaymentsTypeOK
  <1> HIDE DEF request
  <1>4. LockExclusive'
    BY <1>3 DEF LockInv, LockExclusive
  <1>5. \A x \in Subs : /\ subscriptions[x].seller = checkout[c].seller
                        /\ subscriptions[x].status = "pending"
                        => x = checkout[c].sub
    BY DEF CreatesPending, PendingConflict, RowsOf
  <1>6. \A x \in Subs \ {s} : subscriptions'[x].status = "pending" =>
          /\ subscriptions[x].status = "pending"
          /\ subscriptions'[x].seller = subscriptions[x].seller
          /\ subscriptions[x].seller # checkout[c].seller
    BY <1>5 DEF CreatesPending
  <1>7. PendingUnique'
    BY <1>6 DEF CreatesPending, LockInv, PendingUnique
  <1>8. \A d \in Checkouts \ {c} : checkout[d].pc = "locked" =>
          /\ checkout[d].seller # checkout[c].seller
          /\ RowsOf(checkout[d].seller, {"pending"}) \ {checkout[d].sub} = {}
    BY DEF CreatesPending, LockInv, LockExclusive, NoPendingCollision, PendingConflict
  <1>9. \A d \in Checkouts \ {c} : checkout'[d].pc = "locked" => ~PendingConflict(d)'
    <2> SUFFICES ASSUME NEW d \in Checkouts \ {c}, checkout[d].pc = "locked"
                 PROVE  ~PendingConflict(d)'
      BY <1>3
    <2>1. /\ subscriptions'[s].seller = checkout[c].seller
          /\ checkout[d].seller # checkout[c].seller
      BY <1>8 DEF CreatesPending
    <2>2. \A x \in Subs : /\ subscriptions'[x].seller = checkout[d].seller
                          /\ subscriptions'[x].status = "pending"
                          => x = checkout[d].sub
      <3>1. \A x \in Subs : /\ subscriptions[x].seller = checkout[d].seller
                            /\ subscriptions[x].status = "pending"
                            => x = checkout[d].sub
        BY <1>8 DEF RowsOf
      <3> QED
        BY <1>6, <2>1, <3>1
    <2>3. checkout'[d] = checkout[d]
      BY <1>3
    <2> QED
      BY <2>2, <2>3 DEF PendingConflict, RowsOf
  <1>10. NoPendingCollision'
    BY <1>3, <1>9 DEF NoPendingCollision
  <1> QED
    BY <1>4, <1>7, <1>10 DEF LockInv

\* LockInv is inductive.
LEMMA NextLocks ==
    ASSUME StoreAssumption, WellFormed, LockInv, [Next]_vars
    PROVE  LockInv'
  <1>1. CASE UNCHANGED checkout
    <2>1. \A c \in Checkouts, s \in Subs : ~CreatesPending(c, s)
      BY <1>1 DEF CreatesPending, WellFormed, TypeOK, PaymentsTypeOK, CheckoutRequest
    <2>2. \A x \in Subs : subscriptions'[x].status = "pending" =>
             /\ subscriptions[x].status = "pending"
             /\ subscriptions'[x].seller = subscriptions[x].seller
      BY <2>1, StepMoves DEF MovesOne, MovesNone
    <2> QED
      BY <1>1, <2>2, LockInvKept
  <1>2. ASSUME NEW c \in Checkouts,
               \/ ReuseSession(c) \/ NoReusableSession(c) \/ InsertAttempt(c)
               \/ CheckoutCrash(c)
               \/ \E a \in Attempts : ExpireStaleAndOpenSession(c, a)
        PROVE  LockInv'
    <2>1. UNCHANGED subscriptions
      BY <1>2 DEF ReuseSession, NoReusableSession, InsertAttempt, CheckoutCrash,
                  ExpireStaleAndOpenSession, storeVars
    <2>2. \/ checkout' = [checkout EXCEPT ![c] = CheckoutIdle]
          \/ checkout' = [checkout EXCEPT ![c].pc = "stale", ![c].at = now]
          \/ \E a \in Attempts : checkout' = [checkout EXCEPT ![c].pc = "insert",
                                                              ![c].attempt = a]
      BY <1>2 DEF ReuseSession, NoReusableSession, InsertAttempt, CheckoutCrash,
                  ExpireStaleAndOpenSession
    <2>3. /\ checkout'[c].pc # "locked"
          /\ \A d \in Checkouts \ {c} : checkout'[d] = checkout[d]
      BY <2>2 DEF WellFormed, TypeOK, PaymentsTypeOK, CheckoutRequest, CheckoutIdle
    <2> QED
      BY <2>1, <2>3, LockInvKept
  <1>3. ASSUME NEW c \in Checkouts, CheckoutStep(c)
        PROVE  LockInv'
    BY <1>2, <1>3, BeginCheckoutLocks, CreatePendingSubscriptionMoves, CreatesPendingLocks
    DEF CheckoutStep
  <1>4. ASSUME NEW w \in Workers, WebhookStep(w)
        PROVE  UNCHANGED checkout
    BY <1>4 DEF WebhookStep, RecordProviderEvent, ApplyUnpaid, ApplySucceeded,
                ActivateRead, ActivateWrite, WebhookCrash
  <1>5. ASSUME NEW e \in EventIds, NEW a \in Attempts, ProviderEmits(e, a)
        PROVE  UNCHANGED checkout
    BY <1>5 DEF ProviderEmits
  <1>6. ASSUME NEW e \in EventIds, IgnoreEvent(e)
        PROVE  UNCHANGED checkout
    BY <1>6 DEF IgnoreEvent
  <1> QED
    BY <1>1, <1>3, <1>4, <1>5, <1>6 DEF Next, vars, paymentVars

\* createPendingSubscription: one pending row per seller, and one request at a
\* time between its advisory lock and its commit.
THEOREM LocksAreExclusive == Spec => []LockInv
  <1>1. Init => LockInv
    BY DEF Init, StoreInit, PaymentsInit, LockInv, PendingUnique, LockExclusive,
           NoPendingCollision, NoSubscription, CheckoutIdle
  <1>2. WellFormed /\ LockInv /\ [Next]_vars => LockInv'
    BY StoreAssumption, NextLocks
  <1> QED
    BY <1>1, <1>2, AlwaysWellFormed, PTL DEF Spec

\* createPendingSubscription: under the advisory lock the insert of a pending
\* row never meets the unique index, for any number of concurrent requests.
THEOREM PendingNeverCollides == Spec => []NoPendingCollision
  <1>1. LockInv => NoPendingCollision
    BY DEF LockInv
  <1> QED
    BY <1>1, LocksAreExclusive, PTL

-----------------------------------------------------------------------------
(* Merchant references are never given out twice *)

FreshAttempts ==
    /\ \A a \in Attempts : attempts[a].status # "none" => a \in sessions
    /\ \A c \in Checkouts :
        IF checkout[c].pc = "insert"
        THEN /\ attempts[checkout[c].attempt].status = "none"
             /\ checkout[c].attempt \in sessions
             /\ \A d \in Checkouts \ {c} : checkout[d].attempt # checkout[c].attempt
        ELSE checkout[c].attempt = "none"

\* Steps that hand out no reference, store none and drop none of the rows.
LEMMA FreshAttemptsKept ==
    ASSUME WellFormed, FreshAttempts, sessions \subseteq sessions',
           \A c \in Checkouts :
             \/ checkout'[c].pc # "insert" /\ checkout'[c].attempt = "none"
             \/ checkout'[c].pc = checkout[c].pc /\ checkout'[c].attempt = checkout[c].attempt,
           \A a \in Attempts : attempts[a].status = "none" => attempts'[a].status = "none"
    PROVE  FreshAttempts'
  <1>1. \A c \in Checkouts : checkout[c].pc = "insert" =>
          checkout[c].attempt \in Attempts /\ checkout[c].attempt # "none"
    BY PaymentsAssumption DEF WellFormed, CheckoutHolds, PaymentsAssumption
  <1> QED
    BY <1>1 DEF FreshAttempts

\* CommitAttempt gives a status to an attempt that is stored.
LEMMA CommitAttemptEffect ==
    ASSUME WellFormed, NEW w \in Workers, worker[w].pc # "idle", NEW status,
           CommitAttempt(w, status), NEW a \in Attempts
    PROVE  /\ attempts'[a].sub = attempts[a].sub
           /\ attempts[a].status = "none" => attempts'[a].status = "none"
  <1>1. attempts' = [attempts EXCEPT ![DeliveredTo(w).attempt].status = status]
    BY DEF CommitAttempt
  <1>2. attempts[DeliveredTo(w).attempt].status # "none"
    BY DeliveryHolds
  <1>3. attempts \in [Attempts -> AttemptRow]
    BY DEF WellFormed, TypeOK, PaymentsTypeOK
  <1> QED
    BY <1>1, <1>2, <1>3 DEF AttemptRow

\* A delivery stores no attempt and moves none to another subscription.
LEMMA WebhookAttempts ==
    ASSUME WellFormed, NEW w \in Workers, WebhookStep(w), NEW a \in Attempts
    PROVE  /\ attempts'[a].sub = attempts[a].sub
           /\ attempts[a].status = "none" => attempts'[a].status = "none"
  <1>1. \/ UNCHANGED attempts
        \/ /\ worker[w].pc # "idle"
           /\ \E status \in {"succeeded", "failed", "expired"} : CommitAttempt(w, status)
    BY DEF WebhookStep, RecordProviderEvent, ApplyUnpaid, ApplySucceeded, ActivateRead,
           ActivateWrite, WebhookCrash
  <1> QED
    BY <1>1, CommitAttemptEffect

\* Retiring a stale attempt changes its status only.
LEMMA ExpireStaleEffect ==
    ASSUME WellFormed, NEW c \in Checkouts, NEW a \in Attempts,
           ExpireStaleAndOpenSession(c, a), NEW x \in Attempts
    PROVE  /\ attempts'[x].sub = attempts[x].sub
           /\ attempts[x].status = "none" => attempts'[x].status = "none"
  <1> DEFINE stale == OpenAttempts(checkout[c].sub)
                        \ Unexpired(checkout[c].sub, checkout[c].at)
  <1>1. attempts' = [y \in Attempts |->
                       IF y \in stale THEN [attempts[y] EXCEPT !.status = "expired"]
                                      ELSE attempts[y]]
    BY DEF ExpireStaleAndOpenSession
  <1>2. x \in stale => attempts[x].status = "pending"
    BY DEF OpenAttempts
  <1>3. attempts[x] \in AttemptRow
    BY DEF WellFormed, TypeOK, PaymentsTypeOK
  <1> HIDE DEF stale
  <1> QED
    BY <1>1, <1>2, <1>3 DEF AttemptRow

\* The insert touches its own reference only, and overwrites nothing.
LEMMA InsertAttemptEffect ==
    ASSUME WellFormed, FreshAttempts, NEW c \in Checkouts, InsertAttempt(c),
           NEW x \in Attempts
    PROVE  /\ attempts[x].status # "none" => attempts'[x].sub = attempts[x].sub
           /\ x # checkout[c].attempt => attempts'[x] = attempts[x]
  <1>1. \/ UNCHANGED attempts
        \/ attempts' = [attempts EXCEPT
                          ![checkout[c].attempt] =
                             [ status |-> "pending", sub |-> checkout[c].sub,
                               expiresAt |-> checkout[c].at + AttemptTtl ]]
    BY DEF InsertAttempt
  <1>2. attempts[checkout[c].attempt].status = "none"
    BY DEF InsertAttempt, FreshAttempts
  <1> QED
    BY <1>1, <1>2 DEF WellFormed, TypeOK, PaymentsTypeOK

\* References stay fresh under every step of a checkout.
LEMMA CheckoutFresh ==
    ASSUME WellFormed, FreshAttempts, NEW c \in Checkouts, CheckoutStep(c)
    PROVE  FreshAttempts'
  <1>1. checkout \in [Checkouts -> CheckoutRequest]
    BY DEF WellFormed, TypeOK, PaymentsTypeOK
  <1>2. CASE \/ \E seller \in Sellers, plan \in Plans : BeginCheckout(c, seller, plan)
             \/ \E s \in Subs : CreatePendingSubscription(c, s)
             \/ ReuseSession(c) \/ NoReusableSession(c) \/ CheckoutCrash(c)
    <2>1. UNCHANGED <<attempts, sessions>>
      BY <1>2 DEF BeginCheckout, CreatePendingSubscription, ReuseSession,
                  NoReusableSession, CheckoutCrash
    <2>2. /\ checkout'[c].pc # "insert" /\ checkout'[c].attempt = "none"
          /\ \A d \in Checkouts \ {c} : checkout'[d] = checkout[d]
      <3>1. CASE \E seller \in Sellers, plan \in Plans : BeginCheckout(c, seller, plan)
        BY <1>1, <3>1 DEF BeginCheckout, CheckoutIdle
      <3>2. CASE \/ \E s \in Subs : CreatePendingSubscription(c, s)
                 \/ NoReusableSession(c)
        BY <1>1, <3>2 DEF CreatePendingSubscription, NoReusableSession, CheckoutRequest,
                          FreshAttempts
      <3>3. CASE ReuseSession(c) \/ CheckoutCrash(c)
        BY <1>1, <3>3 DEF ReuseSession, CheckoutCrash, CheckoutIdle
      <3> QED
        BY <1>2, <3>1, <3>2, <3>3
    <2> QED
      BY <2>1, <2>2, FreshAttemptsKept
  <1>3. ASSUME NEW a \in Attempts, ExpireStaleAndOpenSession(c, a)
        PROVE  FreshAttempts'
    <2>1. checkout' = [checkout EXCEPT ![c].pc = "insert", ![c].attempt = a]
      BY <1>3 DEF ExpireStaleAndOpenSession
    <2>2. /\ checkout'[c].pc = "insert" /\ checkout'[c].attempt = a
          /\ \A d \in Checkouts \ {c} : checkout'[d] = checkout[d]
      BY <1>1, <2>1 DEF CheckoutRequest
    <2>3. /\ sessions' = sessions \union {a}
          /\ attempts[a].status = "none"
          /\ \A d \in Checkouts : checkout[d].pc = "insert" => checkout[d].attempt # a
      BY <1>3 DEF ExpireStaleAndOpenSession, Fresh, FreshAttempts
    <2>4. \A x \in Attempts : attempts[x].status = "none" => attempts'[x].status = "none"
      BY <1>3, ExpireStaleEffect
    <2>5. \A d \in Checkouts : checkout[d].pc = "insert" => checkout[d].attempt \in Attempts
      BY DEF WellFormed, CheckoutHolds
    <2>6. a # "none"
      BY PaymentsAssumption DEF PaymentsAssumption
    <2> QED
      BY <2>2, <2>3, <2>4, <2>5, <2>6 DEF FreshAttempts
  <1>4. CASE InsertAttempt(c)
    <2>1. /\ checkout' = [checkout EXCEPT ![c] = CheckoutIdle]
          /\ checkout[c].pc = "insert"
          /\ UNCHANGED sessions
      BY <1>4 DEF InsertAttempt
    <2>2. /\ checkout'[c].pc # "insert" /\ checkout'[c].attempt = "none"
          /\ \A d \in Checkouts \ {c} : checkout'[d] = checkout[d]
      BY <1>1, <2>1 DEF CheckoutIdle
    <2>3. \A x \in Attempts : x # checkout[c].attempt => attempts'[x] = attempts[x]
      BY <1>4, InsertAttemptEffect
    <2>4. \A d \in Checkouts : checkout[d].pc = "insert" =>
            checkout[d].attempt \in Attempts /\ checkout[d].attempt # "none"
      BY PaymentsAssumption DEF WellFormed, CheckoutHolds, PaymentsAssumption
    <2> QED
      BY <2>1, <2>2, <2>3, <2>4 DEF FreshAttempts
  <1> QED
    BY <1>2, <1>3, <1>4 DEF CheckoutStep

\* Freshness is inductive.
LEMMA NextFresh ==
    ASSUME WellFormed, FreshAttempts, [Next]_vars
    PROVE  FreshAttempts'
  <1>1. CASE UNCHANGED <<checkout, attempts, sessions>>
    BY <1>1 DEF FreshAttempts
  <1>2. ASSUME NEW w \in Workers, WebhookStep(w)
        PROVE  FreshAttempts'
    <2>1. UNCHANGED <<checkout, sessions>>
      BY <1>2 DEF WebhookStep, RecordProviderEvent, ApplyUnpaid, ApplySucceeded,
                  ActivateRead, ActivateWrite, WebhookCrash
    <2> QED
      BY <1>2, <2>1, WebhookAttempts, FreshAttemptsKept
  <1>3. ASSUME NEW e \in EventIds, NEW a \in Attempts, ProviderEmits(e, a)
        PROVE  UNCHANGED <<checkout, attempts, sessions>>
    BY <1>3 DEF ProviderEmits
  <1>4. ASSUME NEW e \in EventIds, IgnoreEvent(e)
        PROVE  UNCHANGED <<checkout, attempts, sessions>>
    BY <1>4 DEF IgnoreEvent
  <1> QED
    BY <1>1, <1>2, <1>3, <1>4, CheckoutFresh DEF Next, vars, paymentVars

\* A stored payment attempt is never overwritten by another checkout's insert.
THEOREM ReferencesAreFresh == Spec => []FreshAttempts
  <1>1. Init => FreshAttempts
    BY DEF Init, PaymentsInit, FreshAttempts, CheckoutIdle, NoAttempt
  <1>2. WellFormed /\ FreshAttempts /\ [Next]_vars => FreshAttempts'
    BY NextFresh
  <1> QED
    BY <1>1, <1>2, AlwaysWellFormed, PTL DEF Spec

-----------------------------------------------------------------------------
(* Access is backed by a recorded payment.  A sweep writes rows by the id   *)
(* it selected earlier, so the rows it still holds must be paid for too.    *)

SweptIsPaid ==
    \A w \in Sweepers : \A i \in sweeper[w].todo : PaymentRecorded(i.id)

AccessInv == AccessIsPaidFor /\ SweptIsPaid

\* A stored attempt never changes its subscription.
LEMMA AttemptsKeepTheirSubscription ==
    ASSUME WellFormed, FreshAttempts, [Next]_vars, NEW a \in Attempts,
           attempts[a].status # "none"
    PROVE  attempts'[a].sub = attempts[a].sub
  <1>1. ASSUME NEW c \in Checkouts, CheckoutStep(c), attempts' # attempts
        PROVE  InsertAttempt(c) \/ \E x \in Attempts : ExpireStaleAndOpenSession(c, x)
    BY <1>1 DEF CheckoutStep, BeginCheckout, CreatePendingSubscription, ReuseSession,
                NoReusableSession, CheckoutCrash
  <1>2. ASSUME NEW e \in EventIds, NEW x \in Attempts, ProviderEmits(e, x)
        PROVE  attempts' = attempts
    BY <1>2 DEF ProviderEmits
  <1>3. ASSUME NEW e \in EventIds, IgnoreEvent(e)
        PROVE  attempts' = attempts
    BY <1>3 DEF IgnoreEvent
  <1> QED
    BY <1>1, <1>2, <1>3, ExpireStaleEffect, InsertAttemptEffect, WebhookAttempts
    DEF Next, vars, paymentVars

\* A recorded payment event is never removed.
LEMMA EventsAreKept ==
    ASSUME WellFormed, [Next]_vars
    PROVE  /\ paymentEvents \subseteq paymentEvents'
           /\ \A e \in EventIds : providerEvents[e] # NotEmitted
                => providerEvents'[e] = providerEvents[e]
  <1>1. ASSUME NEW w \in Workers, WebhookStep(w)
        PROVE  UNCHANGED providerEvents /\ paymentEvents \subseteq paymentEvents'
    BY <1>1 DEF WebhookStep, RecordProviderEvent, ApplyUnpaid, ApplySucceeded,
                ActivateRead, ActivateWrite, WebhookCrash, CommitAttempt
  <1>2. ASSUME NEW c \in Checkouts, CheckoutStep(c)
        PROVE  UNCHANGED <<providerEvents, paymentEvents>>
    BY <1>2 DEF CheckoutStep, BeginCheckout, CreatePendingSubscription, ReuseSession,
                NoReusableSession, ExpireStaleAndOpenSession, InsertAttempt, CheckoutCrash
  <1>3. ASSUME NEW e \in EventIds, NEW a \in Attempts, ProviderEmits(e, a)
        PROVE  /\ UNCHANGED paymentEvents
               /\ \A f \in EventIds : providerEvents[f] # NotEmitted
                    => providerEvents'[f] = providerEvents[f]
    BY <1>3 DEF ProviderEmits
  <1>4. ASSUME NEW e \in EventIds, IgnoreEvent(e)
        PROVE  /\ UNCHANGED paymentEvents
               /\ \A f \in EventIds : providerEvents[f] # NotEmitted
                    => providerEvents'[f] = providerEvents[f]
    BY <1>4 DEF IgnoreEvent
  <1> QED
    BY <1>1, <1>2, <1>3, <1>4 DEF Next, vars, paymentVars

\* A row that has been paid for has been paid for ever after.
LEMMA PaymentStaysRecorded ==
    ASSUME WellFormed, FreshAttempts, [Next]_vars, NEW s \in Subs, PaymentRecorded(s)
    PROVE  PaymentRecorded(s)'
  <1>1. PICK e \in paymentEvents :
          /\ providerEvents[e].kind = "payment_succeeded"
          /\ providerEvents[e].exact
          /\ attempts[providerEvents[e].attempt].sub = s
    BY DEF PaymentRecorded
  <1>2. e \in EventIds /\ providerEvents[e] # NotEmitted
    BY <1>1 DEF NotEmitted, WellFormed, TypeOK, PaymentsTypeOK
  <1>3. providerEvents[e] \in ProviderEvent
    BY <1>2 DEF WellFormed, AttemptsHold
  <1>4. /\ providerEvents[e].attempt \in Attempts
        /\ attempts[providerEvents[e].attempt].status # "none"
    BY <1>1, <1>3 DEF WellFormed, AttemptsHold, ProviderEvent
  <1>5. attempts'[providerEvents[e].attempt].sub = s
    BY <1>1, <1>4, AttemptsKeepTheirSubscription
  <1>6. e \in paymentEvents' /\ providerEvents'[e] = providerEvents[e]
    BY <1>1, <1>2, EventsAreKept
  <1> QED
    BY <1>1, <1>5, <1>6 DEF PaymentRecorded

\* The commit that activates a row records its payment.
LEMMA ActivationIsRecorded ==
    ASSUME WellFormed, NEW w \in Workers, ActivateWrite(w), CommitAttempt(w, "succeeded"),
           NEW s, s = attempts[DeliveredTo(w).attempt].sub
    PROVE  PaymentRecorded(s)'
  <1> DEFINE e == worker[w].event
             a == providerEvents[e].attempt
  <1>1. worker[w].pc = "activating"
    BY DEF ActivateWrite
  <1>2. /\ e \in EventIds
        /\ providerEvents[e].kind = "payment_succeeded"
        /\ providerEvents[e].exact
    BY <1>1 DEF WellFormed, WorkerHolds
  <1>3. a \in Attempts
    BY <1>1, DeliveryHolds DEF DeliveredTo
  <1>4. UNCHANGED providerEvents
    BY DEF ActivateWrite
  <1>5. e \in paymentEvents'
    BY DEF CommitAttempt
  <1>6. attempts'[a].sub = s
    BY <1>1, <1>3, CommitAttemptEffect DEF DeliveredTo
  <1> QED
    BY <1>2, <1>4, <1>5, <1>6 DEF PaymentRecorded

\* Rows that change their status only to pending or cancelled.
LEMMA AccessKept ==
    ASSUME WellFormed, FreshAttempts, AccessInv, [Next]_vars,
           \A x \in Subs : subscriptions'[x].status
                             \in {subscriptions[x].status, "pending", "cancelled"}
    PROVE  AccessIsPaidFor'
  <1> SUFFICES ASSUME NEW x \in Subs,
                      subscriptions'[x].status \notin {"none", "pending", "cancelled"}
               PROVE  PaymentRecorded(x)'
    BY DEF AccessIsPaidFor
  <1>1. PaymentRecorded(x)
    BY DEF AccessInv, AccessIsPaidFor
  <1> QED
    BY <1>1, PaymentStaysRecorded

\* A step that moves one row, and leaves it paid for, keeps every row paid for.
LEMMA PaidRowMoves ==
    ASSUME WellFormed, FreshAttempts, AccessInv, [Next]_vars, NEW s \in Subs,
           MovesOne(s), PaymentRecorded(s)'
    PROVE  AccessIsPaidFor'
  <1> SUFFICES ASSUME NEW x \in Subs \ {s},
                      subscriptions'[x].status \notin {"none", "pending", "cancelled"}
               PROVE  PaymentRecorded(x)'
    BY DEF AccessIsPaidFor
  <1>1. PaymentRecorded(x)
    BY DEF AccessInv, AccessIsPaidFor, MovesOne
  <1> QED
    BY <1>1, PaymentStaysRecorded

\* AccessIsPaidFor is inductive, given what sweeps hold.
LEMMA NextAccessIsPaidFor ==
    ASSUME StoreAssumption, WellFormed, FreshAttempts, AccessInv, [Next]_vars
    PROVE  AccessIsPaidFor'
  <1>1. MovesNone => AccessIsPaidFor'
    BY AccessKept DEF MovesNone
  <1>2. UNCHANGED subscriptions => AccessIsPaidFor'
    BY <1>1 DEF MovesNone
  <1>3. ASSUME NEW w \in Sweepers, SweepWrite(w)
        PROVE  AccessIsPaidFor'
    <2>1. /\ sweeper[w].item \in sweeper[w].todo
          /\ sweeper[w].item.id \in Subs
          /\ MovesOne(sweeper[w].item.id) \/ MovesNone
      BY <1>3, SweepWriteMoves
    <2>2. PICK s \in Subs : s = sweeper[w].item.id
      BY <2>1
    <2>3. PaymentRecorded(s)
      BY <2>1, <2>2 DEF AccessInv, SweptIsPaid
    <2>4. PaymentRecorded(s)'
      BY <2>3, PaymentStaysRecorded
    <2>5. MovesOne(s) \/ MovesNone
      BY <2>1, <2>2
    <2> QED
      BY <1>1, <2>4, <2>5, PaidRowMoves
  <1>4. ASSUME NEW w \in Workers, ActivateWrite(w)
        PROVE  AccessIsPaidFor'
    <2>1. attempts[DeliveredTo(w).attempt].sub \in Subs
      BY <1>4, DeliveryHolds DEF ActivateWrite
    <2>2. PICK s \in Subs : s = attempts[DeliveredTo(w).attempt].sub
      BY <2>1
    <2>3. CASE MovesNone
      BY <1>1, <2>3
    <2>4. CASE MovesOne(s) /\ CommitAttempt(w, "succeeded")
      BY <1>4, <2>2, <2>4, ActivationIsRecorded, PaidRowMoves
    <2> QED
      BY <1>4, <2>2, <2>3, <2>4, ActivateWriteMoves
  <1>5. ASSUME NEW c \in Checkouts, NEW s \in Subs, CreatesPending(c, s)
        PROVE  AccessIsPaidFor'
    BY <1>5, AccessKept DEF CreatesPending
  <1>6. ASSUME NEW c \in Checkouts, CheckoutStep(c)
        PROVE  AccessIsPaidFor'
    BY <1>2, <1>5, <1>6, CreatePendingSubscriptionMoves
    DEF CheckoutStep, BeginCheckout, ReuseSession, NoReusableSession,
        ExpireStaleAndOpenSession, InsertAttempt, CheckoutCrash, storeVars
  <1>7. ASSUME NEW w \in Workers, WebhookStep(w)
        PROVE  AccessIsPaidFor'
    BY <1>2, <1>4, <1>7
    DEF WebhookStep, RecordProviderEvent, ApplyUnpaid, ApplySucceeded, ActivateRead,
        WebhookCrash, storeVars
  <1>8. ASSUME NEW w \in Sweepers, SweepStep(w)
        PROVE  AccessIsPaidFor'
    BY <1>2, <1>3, <1>8
    DEF SweepStep, SweepBegin, SweepRead, SweepSelectElapsed, SweepEnd, SweepCrash, storeVars
  <1>9. ASSUME NEW o \in Owners, OwnerStep(o)
        PROVE  AccessIsPaidFor'
    BY <1>1, <1>2, <1>9, OwnerCommitMoves
    DEF OwnerStep, ScheduleCancellation, ResumeSubscription, OwnerReads, OwnerCrash, storeVars
  <1>10. ASSUME NEW e \in EventIds, NEW a \in Attempts, ProviderEmits(e, a)
         PROVE  AccessIsPaidFor'
    BY <1>2, <1>10 DEF ProviderEmits, storeVars
  <1>11. ASSUME NEW e \in EventIds, IgnoreEvent(e)
         PROVE  AccessIsPaidFor'
    BY <1>2, <1>11 DEF IgnoreEvent, storeVars
  <1> QED
    BY <1>2, <1>6, <1>7, <1>8, <1>9, <1>10, <1>11 DEF Next, Tick, vars, storeVars

\* A sweep whose new work list holds only rows it had or rows that are paid for.
LEMMA SweepListIsPaid ==
    ASSUME WellFormed, FreshAttempts, AccessInv, [Next]_vars, NEW w \in Sweepers,
           \A v \in Sweepers \ {w} : sweeper'[v].todo = sweeper[v].todo,
           \A i \in sweeper'[w].todo : i \in sweeper[w].todo \/ PaymentRecorded(i.id)
    PROVE  SweptIsPaid'
  <1> SUFFICES ASSUME NEW v \in Sweepers, NEW i \in sweeper'[v].todo
               PROVE  PaymentRecorded(i.id)'
    BY DEF SweptIsPaid
  <1>1. PICK s \in Subs : s = i.id
    <2>1. sweeper'[v] \in SweepRun
      BY StoreAssumption, PaymentsAssumption, NextWellFormed
      DEF WellFormed, TypeOK, LifecycleTypeOK
    <2> QED
      BY <2>1 DEF SweepRun, SweepItem
  <1>2. PaymentRecorded(s)
    BY <1>1 DEF AccessInv, SweptIsPaid
  <1>3. PaymentRecorded(s)'
    BY <1>2, PaymentStaysRecorded
  <1> QED
    BY <1>1, <1>3 DEF PaymentRecorded

\* Whatever a sweep selects among live rows is paid for.
LEMMA SelectedIsPaid ==
    ASSUME AccessInv, NEW ids \in SUBSET Subs,
           \A s \in ids : subscriptions[s].status \in LiveStatuses,
           NEW i \in Selected(ids)
    PROVE  PaymentRecorded(i.id)
  BY DEF Selected, AccessInv, AccessIsPaidFor, LiveStatuses

\* What a sweep holds stays paid for.
LEMMA NextSweptIsPaid ==
    ASSUME WellFormed, FreshAttempts, AccessInv, [Next]_vars
    PROVE  SweptIsPaid'
  <1>1. ASSUME NEW w \in Sweepers, SweepStep(w)
        PROVE  SweptIsPaid'
    <2>1. sweeper \in [Sweepers -> SweepRun]
      BY DEF WellFormed, TypeOK, LifecycleTypeOK
    <2>2. \A v \in Sweepers \ {w} : sweeper'[v].todo = sweeper[v].todo
      BY <1>1, <2>1 DEF SweepStep, SweepBegin, SweepRead, SweepWrite, SweepSelectElapsed,
                        SweepEnd, SweepCrash
    <2>3. \/ sweeper'[w].todo \subseteq sweeper[w].todo
          \/ \E t : sweeper'[w].todo = Selected(Ended(t))
          \/ \E t : sweeper'[w].todo = Selected(Elapsed(t))
      <3>1. CASE SweepBegin(w)
        BY <2>1, <3>1 DEF SweepBegin, SweepIdle
      <3>2. CASE SweepRead(w)
        BY <2>1, <3>2 DEF SweepRead, SweepIdle, SweepRun
      <3>3. CASE SweepWrite(w)
        BY <2>1, <3>3 DEF SweepWrite, SweepIdle, SweepRun
      <3>4. CASE SweepSelectElapsed(w)
        BY <2>1, <3>4 DEF SweepSelectElapsed, SweepRun
      <3>5. CASE SweepEnd(w) \/ SweepCrash(w)
        BY <2>1, <3>5 DEF SweepEnd, SweepCrash, SweepIdle
      <3> QED
        BY <1>1, <3>1, <3>2, <3>3, <3>4, <3>5 DEF SweepStep
    <2>4. ASSUME NEW t
          PROVE  /\ Ended(t) \in SUBSET Subs /\ Elapsed(t) \in SUBSET Subs
                 /\ \A s \in Ended(t) \union Elapsed(t) :
                      subscriptions[s].status \in LiveStatuses
      BY DEF Ended, Elapsed, LiveStatuses
    <2>5. \A i \in sweeper'[w].todo : i \in sweeper[w].todo \/ PaymentRecorded(i.id)
      BY <2>3, <2>4, SelectedIsPaid
    <2> QED
      BY <2>2, <2>5, SweepListIsPaid
  <1>2. CASE UNCHANGED sweeper
    <2> SUFFICES ASSUME NEW w \in Sweepers
                 PROVE  \A i \in sweeper'[w].todo : PaymentRecorded(i.id)'
      BY DEF SweptIsPaid
    <2>1. SweptIsPaid'
      BY <1>2, SweepListIsPaid
    <2> QED
      BY <2>1 DEF SweptIsPaid
  <1>3. ASSUME NEW o \in Owners, OwnerStep(o)
        PROVE  UNCHANGED sweeper
    BY <1>3 DEF OwnerStep, ScheduleCancellation, ResumeSubscription, OwnerReads,
                OwnerCommit, OwnerCrash
  <1> QED
    BY <1>1, <1>2, <1>3 DEF Next, vars, lifecycleVars

\* No row is or was live without a recorded payment of the right amount for
\* that very row, whatever the interleaving of all five kinds of process.
THEOREM AccessIsAlwaysPaidFor == Spec => []AccessIsPaidFor
  <1>1. Init => AccessInv
    BY DEF Init, StoreInit, LifecycleInit, AccessInv, AccessIsPaidFor, SweptIsPaid,
           NoSubscription, SweepIdle
  <1>2. WellFormed /\ FreshAttempts /\ AccessInv /\ [Next]_vars => AccessInv'
    BY StoreAssumption, NextAccessIsPaidFor, NextSweptIsPaid DEF AccessInv
  <1>3. AccessInv => AccessIsPaidFor
    BY DEF AccessInv
  <1> QED
    BY <1>1, <1>2, <1>3, AlwaysWellFormed, ReferencesAreFresh, PTL DEF Spec
=============================================================================
