---------------------------- MODULE CatalogCache ----------------------------
(***************************************************************************)
(* The in-process cache of public reads (src/lib/catalog-cache.ts).  A     *)
(* miss takes three steps, because the process awaits the database: the    *)
(* clock is read and the store probed, the rows are read, the value is     *)
(* stored with an expiry counted from the first step.  An invalidation     *)
(* between the last two does not reach the value in hand.                  *)
(***************************************************************************)
EXTENDS Integers

CONSTANTS
    Keys,       \* cache keys
    Values,     \* what a read may return
    NoValue,    \* the value of an absent entry
    Fills,      \* reads of the cache that may be in flight together
    Ttl,        \* CATALOG_TTL_MS in clock ticks
    MaxTime     \* bound: the clock stops here

VARIABLES
    cache,      \* [Keys -> entry]
    fill,       \* [Fills -> a cachedCatalog call that missed]
    clock

cacheVars == <<cache, fill, clock>>

\* overtaken is a history variable: the value was in hand when an invalidation
\* came, or its invalidation never came.  No action reads it.
Entry == [value: Values \union {NoValue}, expiresAt: Nat, overtaken: BOOLEAN]

NoEntry == [value |-> NoValue, expiresAt |-> 0, overtaken |-> FALSE]

Fill ==
    [ pc: {"idle", "read", "store"},
      key: Keys \union {"none"},
      at: Nat,
      value: Values \union {NoValue},
      overtaken: BOOLEAN ]

FillIdle ==
    [pc |-> "idle", key |-> "none", at |-> 0, value |-> NoValue, overtaken |-> FALSE]

CacheTypeOK ==
    /\ cache \in [Keys -> Entry]
    /\ fill \in [Fills -> Fill]
    /\ clock \in Nat

CacheInit ==
    /\ cache = [k \in Keys |-> NoEntry]
    /\ fill = [f \in Fills |-> FillIdle]
    /\ clock = 0

\* hit.expiresAt > now: the entry is served.
Live(k) == cache[k].expiresAt > clock

FillBegin(f, k) ==
    /\ fill[f].pc = "idle"
    /\ ~Live(k)
    /\ fill' = [fill EXCEPT ![f] = [FillIdle EXCEPT !.pc = "read", !.key = k, !.at = clock]]
    /\ UNCHANGED <<cache, clock>>

FillRead(f, value) ==
    /\ fill[f].pc = "read"
    /\ fill' = [fill EXCEPT ![f].pc = "store", ![f].value = value]
    /\ UNCHANGED <<cache, clock>>

\* Mutant: the expiry is counted from the moment the value is stored.
StoreFromNow(f) ==
    /\ fill[f].pc = "store"
    /\ cache' = [cache EXCEPT ![fill[f].key] = [ value |-> fill[f].value,
                                                 expiresAt |-> clock + Ttl,
                                                 overtaken |-> fill[f].overtaken ]]
    /\ fill' = [fill EXCEPT ![f] = FillIdle]
    /\ UNCHANGED clock

FillStore(f) ==
    /\ fill[f].pc = "store"
    /\ cache' = [cache EXCEPT ![fill[f].key] = [ value |-> fill[f].value,
                                                 expiresAt |-> fill[f].at + Ttl,
                                                 overtaken |-> fill[f].overtaken ]]
    /\ fill' = [fill EXCEPT ![f] = FillIdle]
    /\ UNCHANGED clock

\* The query, or the signing of its images, rejects and nothing is stored.
FillFails(f) ==
    /\ fill[f].pc \in {"read", "store"}
    /\ fill' = [fill EXCEPT ![f] = FillIdle]
    /\ UNCHANGED <<cache, clock>>

OvertakeFills ==
    fill' = [f \in Fills |-> [fill[f] EXCEPT !.overtaken = @ \/ fill[f].pc = "store"]]

\* Mutant: only the entries that have expired are dropped.
InvalidateExpired ==
    /\ cache' = [k \in Keys |-> IF Live(k) THEN cache[k] ELSE NoEntry]
    /\ OvertakeFills
    /\ UNCHANGED clock

InvalidateCatalog ==
    /\ cache' = [k \in Keys |-> NoEntry]
    /\ OvertakeFills
    /\ UNCHANGED clock

\* The mutation committed but its request never got to invalidate.
MissInvalidation ==
    /\ cache' = [k \in Keys |-> [cache[k] EXCEPT !.overtaken = Live(k)]]
    /\ OvertakeFills
    /\ UNCHANGED clock

ClockTick ==
    /\ clock < MaxTime
    /\ clock' = clock + 1
    /\ UNCHANGED <<cache, fill>>
=============================================================================
