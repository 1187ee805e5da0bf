-------------------------------- MODULE Media --------------------------------
(***************************************************************************)
(* One bucket and everything that writes to it: the photo managers of a    *)
(* listing, the editors of a homepage slot, and the command that removes   *)
(* what the table of listing photos does not know.                         *)
(***************************************************************************)
EXTENDS ListingImages, HomepageMedia

ASSUME MediaAssumption ==
    /\ MinAge \in Nat \ {0} /\ MaxTime \in Nat /\ MaxFaults \in Nat
    /\ Nested \subseteq Keys /\ NoPhoto \notin Keys

vars == <<photoVars, homepageVars, bucketVars>>

Init == PhotosInit /\ HomepageInit /\ BucketInit

CleanerStep == ReconcileBegin(RowKeys) \/ ReconcileList \/ ReconcileRemove

Next ==
    \/ \E t \in Tabs : TabStep(t) /\ UNCHANGED homepageVars
    \/ StatusChanges /\ UNCHANGED homepageVars
    \/ \E e \in Editors : EditorStep(e) /\ UNCHANGED photoVars
    \/ CleanerStep /\ UNCHANGED <<photoVars, homepageVars>>
    \/ ClockTick(InFlight) /\ UNCHANGED <<photoVars, homepageVars>>

Spec == Init /\ [][Next]_vars

-----------------------------------------------------------------------------
(* Invariants of every interleaving of managers, editors and the command *)

\* Types of the bucket, the photos, the slot and their requests.
TypeOK == BucketTypeOK /\ PhotosTypeOK /\ HomepageTypeOK

\* A photo that has a row has its object: no upload, delete, compensation or run
\* of the command takes it away, but the compensation of an insert whose commit
\* was reported as a failure.
RowsHaveObjects == \A k \in RowKeys \ replyLost : Stored(k)

\* The homepage's image is there: replacements that overlap remove what they
\* replaced and never what is shown, and the command does not reach it.
SlotHasObject == slot.key \in Nested \ slotReplyLost => ResolvedOverride = slot.key

\* The count is read long before the insert, so every other upload in progress
\* may exceed the limit by one, and no more than that.
OvershootIsBounded ==
    Cardinality(RowKeys) + Cardinality({t \in Tabs : tab[t].pc \in {"upload", "insert"}})
        <= MaxImages + Cardinality(Tabs) - 1

\* A tab at rest shows the photos in their order, whatever was optimistic,
\* rejected or rolled back, unless another tab changed them or an answer was lost.
ShownIsStored == \A t \in Tabs \ overtaken : tab[t].pc = "idle" => tab[t].shown = Gallery

InOrder(s, a, b) ==
    \E i, j \in DOMAIN s : i < j /\ s[i] = a /\ s[j] = b

\* The photos a delete leaves keep their order, those that were there when it
\* read them: numbering them again from an older order is not seen.
DeleteKeepsOrder ==
    [][\A t \in Tabs : tab[t].pc = "renumber" /\ tab'[t].pc # "renumber" /\ rows' # rows =>
        \A a, b \in ToSet(tab[t].order) : InOrder(Gallery, a, b) => InOrder(Gallery', a, b)]_vars
=============================================================================
