----------------------------- MODULE RequestGate -----------------------------
(***************************************************************************)
(* What stands before a handler: the middleware (middleware.ts) with its   *)
(* origin check (lib/security/csrf.ts), and the in-memory limiter          *)
(* (lib/security/rate-limit.ts) that it and the server actions share the   *)
(* code of.  One store of one process: all its limits have one window.  An *)
(* identity is a key of the store: a client at a path or in an action, so  *)
(* that each path has its own count.  Keys whose limit is another one      *)
(* share nothing with these but the sweep, which looks at no limit.        *)
(***************************************************************************)
EXTENDS Integers, FiniteSets, FiniteSetsExt

CONSTANTS
    Identities,     \* keys: a path with clientIdentity, or an action with a user id
    Window,         \* windowMs
    Limit,          \* max
    MaxClock

ASSUME GateAssumption == Window \in Nat \ {0} /\ Limit \in Nat \ {0} /\ MaxClock \in Nat \ {0}

VARIABLES
    clock,
    hits,       \* [Identities -> [time -> how many timestamps the store holds]]
    lastSweep,
    passed,     \* history: how many requests reached a throttled handler, and when
    verdict     \* history: the last answer of the limiter

gateVars == <<clock, hits, lastSweep, passed, verdict>>

Moments == 1..MaxClock

Nothing == [t \in Moments |-> 0]

\* What a browser or a service may send: the path's class, its Origin or else the
\* origin of its Referer, and the host the edge served it on.
Arrivals ==
    [ safe: BOOLEAN, path: {"webhook", "payments", "page"},
      origin: {"app", "served", "foreign", "none"}, referer: {"app", "foreign", "none"},
      host: {"app", "served"}, from: Identities ]

NoVerdict == [allowed |-> TRUE, before |-> 0, resetAt |-> 0, who |-> "nobody"]

GateTypeOK ==
    /\ clock \in Moments
    /\ lastSweep \in -Window..MaxClock
    /\ hits \in [Identities -> [Moments -> 0..Limit]]
    /\ \A i \in Identities, t \in Moments : t > clock => hits[i][t] = 0

GateInit ==
    /\ clock = 1
    /\ hits = [i \in Identities |-> Nothing]
    /\ lastSweep = -Window     \* long ago
    /\ passed = [i \in Identities |-> Nothing]
    /\ verdict = NoVerdict

-----------------------------------------------------------------------------
(* The origin check *)

\* The webhook and the scheduler authenticate their callers themselves.
IsExemptFromCsrf(r) == r.path = "webhook"

BuildAllowedOrigins(r) == {"app", r.host}

\* The Origin header, or else the origin of the Referer.
Candidate(r) == IF r.origin = "none" THEN r.referer ELSE r.origin

VerifyCsrf(r) ==
    \/ r.safe
    \/ IsExemptFromCsrf(r)
    \/ Candidate(r) \in BuildAllowedOrigins(r)

IsSensitive(r) == r.path \in {"webhook", "payments"}

-----------------------------------------------------------------------------
(* The limiter *)

\* The timestamps a window holds that ends at this moment.
Live(log, at) == [t \in Moments |-> IF t > at - Window THEN log[t] ELSE 0]

\* The timestamps of a log, those of one moment numbered.
Stamps(log) == {x \in Moments \X (1..Limit) : x[2] <= log[x[1]]}

Total(log) == Cardinality(Stamps(log))

\* Mutant: the sweep takes the younger half of the window as well.
SweepTooMuch ==
    IF clock - lastSweep < Window THEN hits
    ELSE [i \in Identities |-> [t \in Moments |-> IF t > clock - (Window \div 2) THEN hits[i][t] ELSE 0]]

\* sweep
Swept ==
    IF clock - lastSweep < Window THEN hits
    ELSE [i \in Identities |-> Live(hits[i], clock)]

\* Mutant: one too many.
RoomOffByOne(log) == Total(log) <= Limit

Room(log) == Total(log) < Limit

\* check
Check(who) ==
    LET log == Live(Swept[who], clock)
        allowed == Room(log)
        oldest == Min({t \in Moments : log[t] > 0})
    IN  /\ lastSweep' = IF clock - lastSweep < Window THEN lastSweep ELSE clock
        /\ hits' = [Swept EXCEPT ![who] = IF allowed THEN [log EXCEPT ![clock] = @ + 1] ELSE log]
        /\ verdict' = [ allowed |-> allowed, who |-> who,
                        before |-> Total(Live(passed[who], clock)),
                        resetAt |-> IF allowed THEN clock + Window ELSE oldest + Window ]
        /\ passed' = IF allowed THEN [passed EXCEPT ![who][clock] = @ + 1] ELSE passed

\* The middleware: the origin check comes first, then the limit of sensitive paths.
Request(r) ==
    /\ IF VerifyCsrf(r) /\ IsSensitive(r)
       THEN Check(r.from)
       ELSE UNCHANGED <<hits, lastSweep, passed, verdict>>
    /\ UNCHANGED clock

\* enforceActionRateLimit
ActionRequest(user) == Check(user) /\ UNCHANGED clock

Tick ==
    /\ clock < MaxClock
    /\ clock' = clock + 1
    /\ UNCHANGED <<hits, lastSweep, passed, verdict>>

\* The counters are in memory only: a new process begins anew.
NewProcess ==
    /\ hits' = [i \in Identities |-> Nothing]
    /\ lastSweep' = -Window
    /\ passed' = [i \in Identities |-> Nothing]
    /\ verdict' = NoVerdict
    /\ UNCHANGED clock

GateStep ==
    \/ \E r \in Arrivals : Request(r)
    \/ \E who \in Identities : ActionRequest(who)
    \/ Tick
    \/ NewProcess

GateSpec == GateInit /\ [][GateStep]_gateVars

-----------------------------------------------------------------------------
(* Properties *)

\* The limiter is accurate at the edges of its window: it refuses exactly when the
\* process let Limit requests of that identity through within the window, however
\* sweeps, other identities and rejected requests came in between, and by the moment it
\* names as the reset there is room again.
LimitIsExact ==
    /\ verdict.allowed <=> verdict.before < Limit
    /\ ~verdict.allowed => Total(Live(hits[verdict.who], verdict.resetAt)) < Limit \/ clock >= verdict.resetAt
    /\ \A i \in Identities : Total(Live(passed[i], clock)) <= Limit
=============================================================================
