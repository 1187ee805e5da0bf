------------------------------ MODULE MCBilling ------------------------------
(* Small instances of Billing.  Rows, attempts, event ids, plans and the    *)
(* processes of one kind are interchangeable.                               *)
EXTENDS Billing, TLC

Symmetry ==
    UNION { Permutations(ids) :
              ids \in {Subs, Attempts, EventIds, Plans, Checkouts, Workers, Sweepers} }

\* For liveness, where TLC's symmetry is unsound, keys are taken in a fixed order
\* instead: of keys not used yet, the first is used first, and the first row is of
\* the first plan.  Up to the names of keys these are all behaviours, and no
\* action under fairness takes a key.
First(ids) == CHOOSE id \in ids : TRUE

KeysInOrder ==
    /\ \/ \A s \in Subs : subscriptions[s].status = "none"
       \/ /\ subscriptions[First(Subs)].status # "none"
          /\ subscriptions[First(Subs)].plan = First(Plans)
    /\ sessions = {} \/ First(Attempts) \in sessions
    /\ \/ \A e \in EventIds : providerEvents[e] = NotEmitted
       \/ providerEvents[First(EventIds)] # NotEmitted

\* One instance holds two scenes.  Until the first period ends, two rows of two
\* plans and two deliveries race, with no sweep; from then on there are sweeps,
\* one row, one delivery at a time and no checkout.  Nothing under fairness is
\* cut off: no period ends at time 0, and later the one delivery at a time can
\* still take every event.
InScene ==
    IF now = 0
    THEN \A w \in Sweepers : sweeper[w] = SweepIdle
    ELSE /\ \A s \in Subs \ {First(Subs)} : subscriptions[s].status = "none"
         /\ \A w \in Workers \ {First(Workers)} : worker[w] = WorkerIdle
         /\ \A c \in Checkouts : checkout[c] = CheckoutIdle

SceneFairSpec == Init /\ [][Next /\ KeysInOrder' /\ InScene']_vars /\ Fairness
=============================================================================
