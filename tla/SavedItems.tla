----------------------------- MODULE SavedItems ------------------------------
(***************************************************************************)
(* The hearts of one listing for one signed-in user (modules/saved,        *)
(* SaveButton): every open card, product page or /saved page has one, with *)
(* its own optimistic state.  A request is handled in the steps it awaits; *)
(* commit and answer are one step, as only the heart's own button waits.   *)
(***************************************************************************)
EXTENDS Integers

CONSTANT Hearts

VARIABLES
    saved,      \* the SavedItem row is there
    onShow,     \* the listing is published or sold
    heart       \* [Hearts -> the button]

savedVars == <<saved, onShow, heart>>

\* fresh, history: no other heart changed the row since this one read or wrote it,
\* and no answer to it was false.
NoHeart == [pc |-> "none", shown |-> FALSE, fresh |-> FALSE]

SavedTypeOK ==
    /\ saved \in BOOLEAN /\ onShow \in BOOLEAN
    /\ heart \in [Hearts -> [pc: {"none", "loading", "idle", "check", "create", "delete"},
                             shown: BOOLEAN, fresh: BOOLEAN]]

SavedInit ==
    /\ saved = FALSE
    /\ onShow = TRUE
    /\ heart = [h \in Hearts |-> NoHeart]

ListingShown ==
    /\ onShow' = ~onShow
    /\ UNCHANGED <<saved, heart>>

\* getSavedListingIds: one query for the collection that is rendered.
SavedState == saved

\* listSavedForUser: a hidden listing keeps its row and is not listed.
ListedAsSaved == saved /\ onShow

Render(h, shown) ==
    /\ heart[h].pc \in {"none", "idle"}
    /\ heart' = [heart EXCEPT ![h] = [pc |-> "loading", shown |-> shown, fresh |-> TRUE]]
    /\ UNCHANGED <<saved, onShow>>

OpenCards(h) == onShow /\ Render(h, SavedState)

OpenSavedPage(h) == ListedAsSaved /\ Render(h, TRUE)

Arrives(h) ==
    /\ heart[h].pc = "loading"
    /\ heart' = [heart EXCEPT ![h].pc = "idle"]
    /\ UNCHANGED <<saved, onShow>>

\* Optimistic; a click on a pending button does nothing.
Toggle(h) ==
    /\ heart[h].pc = "idle"
    /\ heart' = [heart EXCEPT ![h].pc = IF heart[h].shown THEN "delete" ELSE "check",
                              ![h].shown = ~@]
    /\ UNCHANGED <<saved, onShow>>

\* Every other heart may be stale once the row has changed.
Writes(h, row, after) ==
    /\ saved' = row
    /\ heart' = [k \in Hearts |->
          IF k = h THEN after ELSE [heart[k] EXCEPT !.fresh = @ /\ row = saved]]

\* Mutant: the optimism outlives the failure.
StaysOptimistic(h) == [heart[h] EXCEPT !.pc = "idle"]

\* The button reverts on a failure.
Reverted(h) == [heart[h] EXCEPT !.pc = "idle", !.shown = ~@]

\* Only what is publicly viewable may be saved.
SaveCheck(h) ==
    /\ heart[h].pc = "check"
    /\ heart' = [heart EXCEPT ![h] = IF onShow THEN [@ EXCEPT !.pc = "create"] ELSE Reverted(h)]
    /\ UNCHANGED <<saved, onShow>>

\* A row that is there already is no failure.
SaveCreate(h) ==
    /\ heart[h].pc = "create"
    /\ Writes(h, TRUE, [heart[h] EXCEPT !.pc = "idle", !.fresh = TRUE])
    /\ UNCHANGED onShow

Unsave(h) ==
    /\ heart[h].pc = "delete"
    /\ Writes(h, FALSE, [heart[h] EXCEPT !.pc = "idle", !.fresh = TRUE])
    /\ UNCHANGED onShow

\* Signed out, over the limit, or the database fails.
WriteRefused(h) ==
    /\ heart[h].pc \in {"check", "create", "delete"}
    /\ heart' = [heart EXCEPT ![h] = Reverted(h)]
    /\ UNCHANGED <<saved, onShow>>

\* The write commits and is reported as a failure.
WrittenYetRefused(h) ==
    /\ heart[h].pc \in {"create", "delete"}
    /\ Writes(h, heart[h].pc = "create", [Reverted(h) EXCEPT !.fresh = FALSE])
    /\ UNCHANGED onShow

\* The answer does not come: the error boundary takes the page.
HeartLost(h) ==
    /\ heart[h].pc \in {"check", "create", "delete"}
    /\ \/ Writes(h, saved, NoHeart)
       \/ heart[h].pc # "check" /\ Writes(h, heart[h].pc = "create", NoHeart)
    /\ UNCHANGED onShow

HeartStep ==
    \/ ListingShown
    \/ \E h \in Hearts :
         \/ OpenCards(h) \/ OpenSavedPage(h) \/ Arrives(h) \/ Toggle(h)
         \/ SaveCheck(h) \/ SaveCreate(h) \/ Unsave(h)
         \/ WriteRefused(h) \/ WrittenYetRefused(h) \/ HeartLost(h)

SavedSpec == SavedInit /\ [][HeartStep]_savedVars

\* A heart at rest shows the row, whatever was refused, unless another heart of the
\* user changed the row since or the database itself reported a false failure.
HeartTellsTruth ==
    \A h \in Hearts : heart[h].pc = "idle" /\ heart[h].fresh => heart[h].shown = saved
=============================================================================
