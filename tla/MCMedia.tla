------------------------------- MODULE MCMedia -------------------------------
(***************************************************************************)
(* A small instance of Media in three scenes, so that the interleavings of *)
(* two photo managers are not multiplied by those of the bucket.           *)
(***************************************************************************)
EXTENDS Media, TLC

Symmetry == Permutations(Photos) \union Permutations(Nested) \union Permutations(Tabs)
              \union Permutations(Editors)

VARIABLE scene

mcVars == <<vars, scene>>

MCInit == Init /\ scene \in {"managers", "photos", "slot"}

\* Every tab; nobody else uses the bucket.
Managers ==
    \/ \E t \in Tabs : TabStep(t) /\ UNCHANGED homepageVars
    \/ StatusChanges /\ UNCHANGED homepageVars

\* One tab while the command runs.
OneTab ==
    \E t \in Tabs :
        /\ \A u \in Tabs \ {t} : tab[u] = [TabIdle EXCEPT !.pc = "refresh"]
        /\ TabStep(t)
        /\ UNCHANGED homepageVars

\* Every editor while the command runs.
SlotEditors == \E e \in Editors : EditorStep(e) /\ UNCHANGED photoVars

Cleaning ==
    \/ CleanerStep /\ UNCHANGED <<photoVars, homepageVars>>
    \/ ClockTick(InFlight) /\ UNCHANGED <<photoVars, homepageVars>>

MCNext ==
    /\ \/ scene = "managers" /\ Managers
       \/ scene = "photos" /\ (OneTab \/ Cleaning)
       \/ scene = "slot" /\ (SlotEditors \/ Cleaning)
    /\ UNCHANGED scene

MCSpec == MCInit /\ [][MCNext]_mcVars
=============================================================================
