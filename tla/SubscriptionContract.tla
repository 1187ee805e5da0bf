------------------------ MODULE SubscriptionContract ------------------------
(***************************************************************************)
(* What the subscription domain promises of its rows, whoever moves them:  *)
(* a row is born pending, moves only along the transition table, never     *)
(* leaves expired or cancelled, and a seller has at most one live and one  *)
(* pending row.  One step moves one row, except that a plan change cancels *)
(* the old pending row and creates the new one together.                   *)
(***************************************************************************)
CONSTANTS Sellers, Subs

VARIABLES
    status, \* [Subs -> status, "none" for a key without a row]
    seller  \* [Subs -> owner of the row, "none" without a row]

contractVars == <<status, seller>>

Live == {"active", "grace_period"}

ContractInit ==
    /\ status = [s \in Subs |-> "none"]
    /\ seller = [s \in Subs |-> "none"]

Holds(owner, s, statuses) == seller[s] = owner /\ status[s] \in statuses

Create(s, owner) ==
    /\ status[s] = "none"
    /\ \A x \in Subs : ~Holds(owner, x, {"pending"})
    /\ status' = [status EXCEPT ![s] = "pending"]
    /\ seller' = [seller EXCEPT ![s] = owner]

Supersede(old, s, owner) ==
    /\ status[s] = "none"
    /\ Holds(owner, old, {"pending"})
    /\ status' = [status EXCEPT ![old] = "cancelled", ![s] = "pending"]
    /\ seller' = [seller EXCEPT ![s] = owner]

Move(s, from, to) ==
    /\ status[s] \in from
    /\ status' = [status EXCEPT ![s] = to]
    /\ UNCHANGED seller

Activate(s) ==
    /\ \A x \in Subs \ {s} : ~Holds(seller[s], x, Live)
    /\ Move(s, {"pending"}, "active")

EnterGrace(s) == Move(s, {"active"}, "grace_period")

Expire(s) == Move(s, Live, "expired")

Cancel(s) == Move(s, Live, "cancelled")

ContractNext ==
    \E s \in Subs :
        \/ \E owner \in Sellers : Create(s, owner)
        \/ \E old \in Subs, owner \in Sellers : Supersede(old, s, owner)
        \/ Activate(s)
        \/ EnterGrace(s)
        \/ Expire(s)
        \/ Cancel(s)

ContractSpec == ContractInit /\ [][ContractNext]_contractVars
=============================================================================
