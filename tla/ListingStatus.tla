---------------------------- MODULE ListingStatus ----------------------------
(***************************************************************************)
(* The pure half of the listing lifecycle                                  *)
(* (src/modules/catalog/listing-status.ts).  Every action has one target,  *)
(* so the table from -> (action -> to) is given action by action.          *)
(***************************************************************************)
ListingStatuses == {"draft", "published", "paused", "sold", "archived"}

ListingTransitions ==
    [ publish       |-> [from |-> {"draft"},               to |-> "published"],
      pause         |-> [from |-> {"published"},           to |-> "paused"],
      republish     |-> [from |-> {"paused"},              to |-> "published"],
      markSold      |-> [from |-> {"published", "paused"}, to |-> "sold"],
      markAvailable |-> [from |-> {"sold"},                to |-> "published"],
      relist        |-> [from |-> {"archived"},            to |-> "draft"],
      archive       |-> [from |-> ListingStatuses \ {"archived"},
                         to   |-> "archived"] ]

ListingActions == DOMAIN ListingTransitions

\* applyTransition throws exactly when this is false.
CanApply(from, action) == from \in ListingTransitions[action].from

NextStatus(action) == ListingTransitions[action].to

IsEditable(status) == status \in {"draft", "paused"}
=============================================================================
