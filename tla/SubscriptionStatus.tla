------------------------- MODULE SubscriptionStatus -------------------------
(***************************************************************************)
(* The pure half of the subscription domain                                *)
(* (src/modules/subscription/subscription-status.ts): which status changes *)
(* are legal and whether a row entitles its seller at a given instant.     *)
(* A row is a record with the fields status, currentPeriodEnd, graceEndsAt *)
(* and cancelAt; instants are naturals and NoTime is the SQL NULL.         *)
(***************************************************************************)
EXTENDS Integers

NoTime == -1

SubscriptionStatuses ==
    {"pending", "active", "grace_period", "expired", "cancelled", "suspended"}

LiveStatuses == {"active", "grace_period"}

\* Documented as final: a seller comes back with a new row.
TerminalStatuses == {"expired", "cancelled"}

SubscriptionTransitions ==
    [ activate    |-> [from |-> {"pending"},      to |-> "active"],
      enter_grace |-> [from |-> {"active"},       to |-> "grace_period"],
      recover     |-> [from |-> {"grace_period"}, to |-> "active"],
      expire      |-> [from |-> LiveStatuses,     to |-> "expired"],
      cancel      |-> [from |-> {"pending"} \union LiveStatuses,
                       to   |-> "cancelled"],
      suspend     |-> [from |-> LiveStatuses,     to |-> "suspended"],
      reinstate   |-> [from |-> {"suspended"},    to |-> "active"] ]

\* applySubscriptionTransition throws exactly when this is false.
CanTransition(from, action) == from \in SubscriptionTransitions[action].from

TransitionTarget(action) == SubscriptionTransitions[action].to

EffectiveEnd(row) ==
    IF row.graceEndsAt # NoTime THEN row.graceEndsAt ELSE row.currentPeriodEnd

IsEntitling(row, t) ==
    /\ row.status \in LiveStatuses
    /\ EffectiveEnd(row) = NoTime \/ t <= EffectiveEnd(row)
=============================================================================
