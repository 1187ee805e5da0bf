------------------------ MODULE SubscriptionLifecycle ------------------------
(***************************************************************************)
(* The scheduled sweep and the owner's cancel/resume of                    *)
(* src/modules/subscription/subscription-service.ts, one action per        *)
(* database round trip.  Sweeps may overlap: the cron route takes no lock. *)
(***************************************************************************)
EXTENDS SubscriptionStore

CONSTANTS
    Sweepers,   \* runs of the sweep that may be in flight together
    Owners,     \* requests of sellers managing their subscription
    MaxEvents   \* bound: owners stop toggling a row with this many events

VARIABLES sweeper, owner

lifecycleVars == <<sweeper, owner>>

\* What the sweep's first query selects of a row.
SweepItem == [id: Subs, currentPeriodEnd: Times, cancelAt: Times]

NoItem == [id |-> "none", currentPeriodEnd |-> NoTime, cancelAt |-> NoTime]

SweepIdle ==
    [pc |-> "idle", todo |-> {}, item |-> NoItem, seen |-> "none", at |-> 0]

OwnerIdle == [pc |-> "idle", sub |-> "none", seen |-> "none", cancelAt |-> NoTime]

SweepRun ==
    [ pc: {"idle", "active", "active_write", "grace", "grace_write"},
      todo: SUBSET SweepItem,
      item: SweepItem \union {NoItem},
      seen: SubscriptionStatuses \union {"none"},
      at: Nat ]

OwnerRequest ==
    [ pc: {"idle", "schedule", "resume"},
      sub: Subs \union {"none"},
      seen: SubscriptionStatuses \union {"none"},
      cancelAt: Times ]

LifecycleTypeOK ==
    /\ sweeper \in [Sweepers -> SweepRun]
    /\ owner \in [Owners -> OwnerRequest]

LifecycleInit ==
    /\ sweeper = [w \in Sweepers |-> SweepIdle]
    /\ owner = [o \in Owners |-> OwnerIdle]

-----------------------------------------------------------------------------
(* sweepSubscriptionLifecycle *)

Ended(t) == { s \in Subs : /\ subscriptions[s].status = "active"
                           /\ subscriptions[s].currentPeriodEnd # NoTime
                           /\ subscriptions[s].currentPeriodEnd <= t }

\* Mutant: the second query tests the period, not the grace window.
ElapsedByPeriod(t) == { s \in Subs : /\ subscriptions[s].status = "grace_period"
                                     /\ subscriptions[s].currentPeriodEnd <= t }

Elapsed(t) == { s \in Subs : /\ subscriptions[s].status = "grace_period"
                             /\ subscriptions[s].graceEndsAt # NoTime
                             /\ subscriptions[s].graceEndsAt <= t }

Selected(ids) ==
    { [ id |-> s,
        currentPeriodEnd |-> subscriptions[s].currentPeriodEnd,
        cancelAt |-> subscriptions[s].cancelAt ] : s \in ids }

\* The transition the sweep asks for in the phase it is in: the due test is on
\* the selected cancelAt and the sweep's own now.
SweepAction(run, item) ==
    IF run.pc \in {"grace", "grace_write"} THEN "expire"
    ELSE IF item.cancelAt # NoTime /\ item.cancelAt <= run.at THEN "cancel"
    ELSE "enter_grace"

SweepBegin(w) ==
    /\ sweeper[w].pc = "idle"
    /\ sweeper' = [sweeper EXCEPT
                     ![w] = [SweepIdle EXCEPT !.pc = "active", !.at = now,
                                              !.todo = Selected(Ended(now))]]
    /\ UNCHANGED <<storeVars, owner>>

\* transitionSubscription, first half: the row is read outside the transaction
\* and an illegal transition throws, which ends the whole sweep.
SweepRead(w) ==
    /\ sweeper[w].pc \in {"active", "grace"}
    /\ \E item \in sweeper[w].todo :
         LET seen == subscriptions[item.id].status IN
         IF CanTransition(seen, SweepAction(sweeper[w], item))
         THEN sweeper' = [sweeper EXCEPT
                            ![w].pc = IF @ = "active" THEN "active_write"
                                                      ELSE "grace_write",
                            ![w].item = item,
                            ![w].seen = seen]
         ELSE sweeper' = [sweeper EXCEPT ![w] = SweepIdle]
    /\ UNCHANGED <<storeVars, owner>>

\* Mutants: the grace window counted from the sweep, or not stamped at all.
SweepPatchFromNow(row, run, item) ==
    [row EXCEPT !.status = TransitionTarget(SweepAction(run, item)),
                !.graceEndsAt = IF SweepAction(run, item) = "enter_grace"
                                THEN run.at + GraceDays ELSE @]

SweepPatchWithoutGraceEnd(row, run, item) ==
    [row EXCEPT !.status = TransitionTarget(SweepAction(run, item)),
                !.graceEndsAt = NoTime]

SweepPatch(row, run, item) ==
    IF SweepAction(run, item) = "enter_grace"
    THEN [row EXCEPT !.status = "grace_period",
                     !.graceEndsAt = item.currentPeriodEnd + GraceDays]
    ELSE [row EXCEPT !.status = TransitionTarget(SweepAction(run, item))]

\* transitionSubscription, second half: update by id and event, one commit.
\* The live-slot index refuses a second live row and that also ends the sweep.
SweepWrite(w) ==
    /\ sweeper[w].pc \in {"active_write", "grace_write"}
    /\ LET item == sweeper[w].item
           s == item.id
           row == SweepPatch(subscriptions[s], sweeper[w], item)
       IN IF row.status \in LiveStatuses /\ ~LiveSlotFree(s)
          THEN /\ sweeper' = [sweeper EXCEPT ![w] = SweepIdle]
               /\ UNCHANGED storeVars
          ELSE /\ subscriptions' = [subscriptions EXCEPT ![s] = row]
               /\ RecordEvent(s, sweeper[w].seen, row.status)
               /\ sweeper' = [sweeper EXCEPT
                                ![w].pc = IF @ = "active_write" THEN "active"
                                                                ELSE "grace",
                                ![w].todo = @ \ {item},
                                ![w].item = NoItem,
                                ![w].seen = "none"]
               /\ UNCHANGED now
    /\ UNCHANGED owner

\* The second query, with the now of the start.
SweepSelectElapsed(w) ==
    /\ sweeper[w].pc = "active"
    /\ sweeper[w].todo = {}
    /\ sweeper' = [sweeper EXCEPT
                     ![w].pc = "grace",
                     ![w].todo = Selected(Elapsed(sweeper[w].at))]
    /\ UNCHANGED <<storeVars, owner>>

SweepEnd(w) ==
    /\ sweeper[w].pc = "grace"
    /\ sweeper[w].todo = {}
    /\ sweeper' = [sweeper EXCEPT ![w] = SweepIdle]
    /\ UNCHANGED <<storeVars, owner>>

\* The process dies, or a query fails: what was committed stays.
SweepCrash(w) ==
    /\ sweeper[w].pc # "idle"
    /\ sweeper' = [sweeper EXCEPT ![w] = SweepIdle]
    /\ UNCHANGED <<storeVars, owner>>

-----------------------------------------------------------------------------
(* scheduleCancellation and resumeSubscription *)

OwnerBusy(s) == Len(subscriptionEvents[s]) >= MaxEvents

OwnerReads(o, pc, s, cancelAt) ==
    /\ owner[o].pc = "idle"
    /\ ~OwnerBusy(s)
    /\ owner' = [owner EXCEPT
                   ![o] = [pc |-> pc, sub |-> s, cancelAt |-> cancelAt,
                           seen |-> subscriptions[s].status]]
    /\ UNCHANGED <<storeVars, sweeper>>

ScheduleCancellation(o) ==
    \E seller \in Sellers : \E s \in RowsOf(seller, LiveStatuses) :
      /\ subscriptions[s].cancelAt = NoTime
      /\ OwnerReads(o, "schedule", s,
                    IF subscriptions[s].currentPeriodEnd # NoTime
                    THEN subscriptions[s].currentPeriodEnd ELSE now)

ResumeSubscription(o) ==
    \E seller \in Sellers : \E s \in RowsOf(seller, LiveStatuses) :
      /\ subscriptions[s].cancelAt # NoTime
      /\ OwnerReads(o, "resume", s, NoTime)

\* Mutant: the update writes the row back as it was read.
OwnerCommitWholeRow(o) ==
    /\ owner[o].pc # "idle"
    /\ LET s == owner[o].sub IN
         /\ subscriptions' = [subscriptions EXCEPT ![s].cancelAt = owner[o].cancelAt,
                                                   ![s].status = owner[o].seen]
         /\ RecordEvent(s, owner[o].seen, owner[o].seen)
    /\ owner' = [owner EXCEPT ![o] = OwnerIdle]
    /\ UNCHANGED <<now, sweeper>>

\* Both end the same way: cancelAt by id, and an event from the status that
\* was read to itself.
OwnerCommit(o) ==
    /\ owner[o].pc # "idle"
    /\ LET s == owner[o].sub IN
         /\ subscriptions' = [subscriptions EXCEPT ![s].cancelAt = owner[o].cancelAt]
         /\ RecordEvent(s, owner[o].seen, owner[o].seen)
    /\ owner' = [owner EXCEPT ![o] = OwnerIdle]
    /\ UNCHANGED <<now, sweeper>>

OwnerCrash(o) ==
    /\ owner[o].pc # "idle"
    /\ owner' = [owner EXCEPT ![o] = OwnerIdle]
    /\ UNCHANGED <<storeVars, sweeper>>

SweepStep(w) ==
    \/ SweepBegin(w)
    \/ SweepRead(w)
    \/ SweepWrite(w)
    \/ SweepSelectElapsed(w)
    \/ SweepEnd(w)
    \/ SweepCrash(w)

OwnerStep(o) ==
    \/ ScheduleCancellation(o)
    \/ ResumeSubscription(o)
    \/ OwnerCommit(o)
    \/ OwnerCrash(o)
=============================================================================
