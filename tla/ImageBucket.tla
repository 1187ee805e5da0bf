----------------------------- MODULE ImageBucket -----------------------------
(***************************************************************************)
(* The private bucket of images (modules/catalog/storage.ts) and the       *)
(* command that reconciles it with the rows (scripts/storage and           *)
(* modules/catalog/image-reconcile.ts).  An object is known by its key and *)
(* the time it was stored.  The command reads the keys of the rows and the *)
(* clock first, lists the bucket next and removes what it found last.      *)
(***************************************************************************)
EXTENDS Integers

CONSTANTS
    Keys,       \* object keys: <listingId>/<uuid> and homepage/<slot>/<uuid>
    Nested,     \* the keys two folders deep, which a listing never shows
    MinAge,     \* --min-age-hours, in clock ticks
    MaxTime,    \* bound: the clock stops here
    MaxFaults   \* bound: calls that fail, answers that are lost and crashes

VARIABLES
    object,     \* [Keys -> when it was stored, or Absent]
    cleaner,    \* one run of the command
    clock,
    faults      \* how many of MaxFaults there were

bucketVars == <<object, cleaner, clock, faults>>

Absent == -1

CleanerIdle == [pc |-> "idle", known |-> {}, at |-> 0, orphans |-> {}]

BucketTypeOK ==
    /\ object \in [Keys -> {Absent} \union Nat]
    /\ cleaner \in [pc: {"idle", "list", "remove"}, known: SUBSET Keys, at: Nat,
                    orphans: SUBSET (Keys \ Nested)]
    /\ clock \in Nat
    /\ faults \in 0..MaxFaults

BucketInit ==
    /\ object = [k \in Keys |-> Absent]
    /\ cleaner = CleanerIdle
    /\ clock = 0
    /\ faults = 0

Fault == faults < MaxFaults /\ faults' = faults + 1

NoFault == UNCHANGED faults

Stored(k) == object[k] # Absent

Store(k) == object' = [object EXCEPT ![k] = clock]

\* adapter.remove
DropObjects(S) == object' = [k \in Keys |-> IF k \in S THEN Absent ELSE object[k]]

\* Its callers carry on when it fails.
RemoveObjects(S) ==
    \/ DropObjects(S) /\ NoFault
    \/ UNCHANGED object /\ Fault

\* main: the keys of the rows, then Date.now(), before the bucket is listed.
ReconcileBegin(rowKeys) ==
    /\ cleaner.pc = "idle"
    /\ cleaner' = [CleanerIdle EXCEPT !.pc = "list", !.known = rowKeys, !.at = clock]
    /\ UNCHANGED <<object, clock, faults>>

\* adapter.list: a folder at the root and the files in it, and no folder in it.
Listed == {k \in Keys \ Nested : Stored(k)}

\* Mutant: the age of an orphan is not looked at.
OrphansOfAnyAge == {k \in Listed : k \notin cleaner.known}

\* computeReconciliation: orphanObjects.
OrphanObjects ==
    {k \in Listed : k \notin cleaner.known /\ cleaner.at - object[k] >= MinAge}

\* A dry run, or one that finds nothing, ends here.
ReconcileList ==
    /\ cleaner.pc = "list"
    /\ \/ /\ OrphanObjects # {}
          /\ cleaner' = [cleaner EXCEPT !.pc = "remove", !.orphans = OrphanObjects]
       \/ cleaner' = CleanerIdle
    /\ UNCHANGED <<object, clock, faults>>

\* adapter.remove; an error or a crash leaves the objects to a later run.
ReconcileRemove ==
    /\ cleaner.pc = "remove"
    /\ RemoveObjects(cleaner.orphans)
    /\ cleaner' = CleanerIdle
    /\ UNCHANGED clock

\* Time passes, but no request lives as long as MinAge: an object a request
\* has stored and not yet recorded (inFlight) stays younger than that.
ClockTick(inFlight) ==
    /\ clock < MaxTime
    /\ \A k \in inFlight : Stored(k) => clock + 1 - object[k] < MinAge
    /\ clock' = clock + 1
    /\ UNCHANGED <<object, cleaner, faults>>
=============================================================================
