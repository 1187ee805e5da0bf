-------------------------- MODULE ListingContract ---------------------------
(***************************************************************************)
(* What the listing lifecycle promises of its rows, whoever moves them: a  *)
(* change of status is one step from the status the row has, only a        *)
(* complete row is published, the public address is given by the first     *)
(* publish and kept for ever, and the sale's date is there exactly while   *)
(* the listing is sold.  The fields change in drafts and paused listings   *)
(* only, and none is emptied.                                              *)
(***************************************************************************)
CONSTANTS Listings, Titles

VARIABLE row    \* [Listings -> the listing's row]

NoRow ==
    [ status |-> "none", title |-> "none", filled |-> FALSE, slug |-> "none",
      publishedAt |-> FALSE, soldAt |-> FALSE ]

ContractInit == row = [l \in Listings |-> NoRow]

Becomes(l, after) == row' = [row EXCEPT ![l] = after]

Create(l) ==
    /\ row[l].status = "none"
    /\ \E title \in Titles, filled \in BOOLEAN :
         Becomes(l, [NoRow EXCEPT !.status = "draft", !.title = title, !.filled = filled])

Edit(l) ==
    /\ row[l].status \in {"draft", "paused"}
    /\ \E title \in Titles, filled \in BOOLEAN :
         Becomes(l, [row[l] EXCEPT !.title = title, !.filled = @ \/ filled])

\* One title becomes the address of a listing that has none; later ones keep it.
Publish(l) ==
    /\ row[l].status = "draft"
    /\ row[l].filled
    /\ \E slug \in IF row[l].slug = "none" THEN Titles ELSE {row[l].slug} :
         Becomes(l, [row[l] EXCEPT !.status = "published", !.slug = slug, !.publishedAt = TRUE])

Move(l, from, to) ==
    /\ row[l].status \in from
    /\ Becomes(l, [row[l] EXCEPT !.status = to, !.soldAt = (to = "sold")])

Return(l) == row[l].filled /\ Move(l, {"paused", "sold"}, "published")

Pause(l) == Move(l, {"published"}, "paused")

Sell(l) == Move(l, {"published", "paused"}, "sold")

Archive(l) == Move(l, {"draft", "published", "paused", "sold"}, "archived")

Relist(l) == Move(l, {"archived"}, "draft")

ContractNext ==
    \E l \in Listings :
        \/ Create(l) \/ Edit(l)
        \/ Publish(l) \/ Return(l) \/ Pause(l) \/ Sell(l) \/ Archive(l) \/ Relist(l)

ContractSpec == ContractInit /\ [][ContractNext]_row
=============================================================================
