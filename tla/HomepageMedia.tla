---------------------------- MODULE HomepageMedia ----------------------------
(***************************************************************************)
(* The image of one homepage slot (modules/homepage-media/service.ts) and  *)
(* the admins' editors of it (HomepageImageSlotEditor.tsx, the route and   *)
(* the action).  A replacement stores the new object, reads the old key,   *)
(* writes the row and removes the old object, each in a step of its own.   *)
(* The objects are in the bucket of the listing photos, a folder deeper.   *)
(***************************************************************************)
EXTENDS ImageBucket, ImageChecks

CONSTANT Editors    \* editors of the slot open at once

VARIABLES
    slot,           \* the HomepageMedia row
    slotIssued,     \* keys newSlotKey has returned
    editor,         \* [Editors -> the save in progress]
    slotReplyLost   \* history: a key whose upsert committed and was reported failed

homepageVars == <<slot, slotIssued, editor, slotReplyLost>>

NoKey == "none"

\* alt is the editor whose text the row carries.
NoOverride == [key |-> NoKey, alt |-> NoKey]

EditorIdle == [pc |-> "idle", key |-> NoKey, old |-> NoKey]

HomepageTypeOK ==
    /\ slot \in [key: Nested, alt: Editors] \union {NoOverride}
    /\ slotIssued \subseteq Nested
    /\ editor \in [Editors -> [pc: {"idle", "readOld", "upsert", "compensate", "removeOld"},
                               key: Nested \union {NoKey}, old: Nested \union {NoKey}]]
    /\ slotReplyLost \subseteq Nested

HomepageInit ==
    /\ slot = NoOverride
    /\ slotIssued = {}
    /\ editor = [e \in Editors |-> EditorIdle]
    /\ slotReplyLost = {}

\* resolveHomepageOverrides: a key that does not sign is left out, and the page
\* shows the bundled file.
ResolvedOverride == IF slot # NoOverride /\ Stored(slot.key) THEN slot.key ELSE NoKey

EditorAt(e, pc) == editor' = [editor EXCEPT ![e].pc = pc]

Saved(e) == editor' = [editor EXCEPT ![e] = EditorIdle]

\* canSave of the editor, which has a file or another text to save.
CanSave(e) == editor[e].pc = "idle"

\* onSave with a file.  The route and the checks of the bytes may refuse, which
\* changes nothing; an upload that fails may have stored the object.
ReplaceUpload(e) ==
    /\ CanSave(e)
    /\ SomeAccepted
    /\ \E k \in Nested \ slotIssued :
        /\ slotIssued' = slotIssued \union {k}
        /\ \/ Store(k) /\ NoFault /\ editor' = [editor EXCEPT ![e].pc = "readOld", ![e].key = k]
           \/ Store(k) /\ Fault /\ Saved(e)
           \/ UNCHANGED object /\ Fault /\ Saved(e)
    /\ UNCHANGED <<slot, slotReplyLost, cleaner, clock>>

\* Mutant: the old object goes before the row points at the new one.
RemoveOldFirst(e) ==
    /\ editor[e].pc = "readOld"
    /\ RemoveObjects({slot.key})
    /\ editor' = [editor EXCEPT ![e].pc = "upsert", ![e].old = slot.key]
    /\ UNCHANGED <<slot, slotIssued, slotReplyLost, cleaner, clock>>

ReplaceReadOld(e) ==
    /\ editor[e].pc = "readOld"
    /\ editor' = [editor EXCEPT ![e].pc = "upsert", ![e].old = slot.key]
    /\ UNCHANGED <<slot, slotIssued, slotReplyLost, bucketVars>>

ReplaceUpsert(e) ==
    /\ editor[e].pc = "upsert"
    /\ slot' = [key |-> editor[e].key, alt |-> e]
    /\ EditorAt(e, "removeOld")
    /\ UNCHANGED <<slotIssued, slotReplyLost, bucketVars>>

ReplaceUpsertFails(e) ==
    /\ editor[e].pc = "upsert"
    /\ EditorAt(e, "compensate")
    /\ Fault
    /\ UNCHANGED <<slot, slotIssued, slotReplyLost, object, cleaner, clock>>

\* The commit went through and its acknowledgement did not arrive.
ReplaceReplyLost(e) ==
    /\ editor[e].pc = "upsert"
    /\ slot' = [key |-> editor[e].key, alt |-> e]
    /\ EditorAt(e, "compensate")
    /\ slotReplyLost' = slotReplyLost \union {editor[e].key}
    /\ Fault
    /\ UNCHANGED <<slotIssued, object, cleaner, clock>>

ReplaceCompensate(e) ==
    /\ editor[e].pc = "compensate"
    /\ RemoveObjects({editor[e].key})
    /\ Saved(e)
    /\ UNCHANGED <<slot, slotIssued, slotReplyLost, cleaner, clock>>

\* oldKey && oldKey !== newKey; a failure is logged.
ReplaceRemoveOld(e) ==
    /\ editor[e].pc = "removeOld"
    /\ RemoveObjects({editor[e].old} \ {editor[e].key})
    /\ Saved(e)
    /\ UNCHANGED <<slot, slotIssued, slotReplyLost, cleaner, clock>>

\* updateHomepageAlt: an update of nothing is the error no_override.
UpdateAlt(e) ==
    /\ CanSave(e)
    /\ slot # NoOverride
    /\ slot' = [slot EXCEPT !.alt = e]
    /\ UNCHANGED <<slotIssued, editor, slotReplyLost, bucketVars>>

\* The server dies between two steps.
ReplaceCrash(e) ==
    /\ editor[e].pc # "idle"
    /\ Saved(e)
    /\ Fault
    /\ UNCHANGED <<slot, slotIssued, slotReplyLost, object, cleaner, clock>>

EditorStep(e) ==
    \/ ReplaceUpload(e) \/ ReplaceReadOld(e) \/ ReplaceUpsert(e) \/ ReplaceUpsertFails(e)
    \/ ReplaceReplyLost(e) \/ ReplaceCompensate(e) \/ ReplaceRemoveOld(e)
    \/ UpdateAlt(e) \/ ReplaceCrash(e)
=============================================================================
