-------------------------------- MODULE Roles --------------------------------
(***************************************************************************)
(* Profiles, roles and their audit trail (modules/auth/provisioning.ts,    *)
(* role-service.ts): transactions under READ COMMITTED, statement by       *)
(* statement.  A statement sees what is committed and its own writes; an   *)
(* insert or delete of a row that another transaction is writing waits.    *)
(***************************************************************************)
EXTENDS Integers, Sequences, FiniteSets

CONSTANTS
    Users,
    Founders,       \* admins before anything happens (prisma/seed, operators)
    Requests,       \* browsers, or requests of an admin
    MaxMishaps

System == "system"      \* provisioning acts for nobody

ASSUME RolesAssumption ==
    Founders \subseteq Users /\ System \notin Users /\ MaxMishaps \in Nat

VARIABLES
    profiles,   \* committed rows: users with a profile
    granted,    \* committed rows: <<user, role>>
    audit,      \* committed entries, in order
    tx,         \* [Requests -> the transaction of the request]
    mistakes    \* faults so far

roleVars == <<profiles, granted, audit, tx, mistakes>>

ROLES == {"buyer", "seller", "admin"}

TxIdle == [ pc |-> "idle", what |-> "none", user |-> System, role |-> "buyer", actor |-> System,
            profile |-> {}, inserts |-> {}, deletes |-> {}, previous |-> {} ]

RolesTypeOK ==
    /\ profiles \subseteq Users
    /\ granted \subseteq Users \X ROLES
    /\ \A k \in DOMAIN audit :
         audit[k] \in [ action: {"granted", "revoked"}, user: Users, role: ROLES,
                        actor: Users \union {System}, previous: SUBSET ROLES, resulting: SUBSET ROLES ]
    /\ \A r \in Requests :
         /\ tx[r].pc \in {"idle", "profile", "read", "check", "count", "insert", "delete", "commit"}
         /\ tx[r].what \in {"none", "provision", "grant", "revoke"}
         /\ tx[r].profile \subseteq Users
         /\ tx[r].inserts \union tx[r].deletes \subseteq Users \X ROLES
    /\ mistakes \in 0..MaxMishaps

RolesInit ==
    /\ profiles = Founders
    /\ granted = Founders \X {"buyer", "admin"}
    /\ audit = <<>>
    /\ tx = [r \in Requests |-> TxIdle]
    /\ mistakes = 0

\* What the transaction's next statement sees of the roles.
Visible(r) == (granted \union tx[r].inserts) \ tx[r].deletes

\* currentRoles
CurrentRoles(r, user) == {role \in ROLES : <<user, role>> \in Visible(r)}

\* Another transaction is writing the row.
Waits(r, row) == \E q \in Requests \ {r} : row \in tx[q].inserts \union tx[q].deletes

Row(r) == <<tx[r].user, tx[r].role>>

Goes(r, step) == tx' = [tx EXCEPT ![r] = step] /\ UNCHANGED <<profiles, granted, audit, mistakes>>

-----------------------------------------------------------------------------
(* provisionProfile *)

BeginProvision(r, user) ==
    Goes(r, [TxIdle EXCEPT !.pc = "profile", !.what = "provision", !.user = user])

\* INSERT .. ON CONFLICT DO NOTHING
ProvisionProfile(r) ==
    /\ tx[r].pc = "profile"
    /\ \A q \in Requests \ {r} : tx[r].user \notin tx[q].profile
    /\ Goes(r, [tx[r] EXCEPT !.pc = "insert", !.profile = {tx[r].user} \ profiles])

-----------------------------------------------------------------------------
(* grantRole and revokeRole: the actor's roles were read with the request *)

ActorIsAdmin(actor) == <<actor, "admin">> \in granted

BeginGrant(r, actor, user, role) ==
    /\ tx[r].pc = "idle"
    /\ ActorIsAdmin(actor)
    /\ Goes(r, [TxIdle EXCEPT !.pc = "read", !.what = "grant", !.user = user, !.role = role, !.actor = actor])

\* A target without a profile is refused.
GrantRead(r) ==
    /\ tx[r].pc = "read"
    /\ IF tx[r].user \in profiles
       THEN Goes(r, [tx[r] EXCEPT !.pc = "insert", !.previous = CurrentRoles(r, tx[r].user)])
       ELSE Goes(r, TxIdle)

\* createMany with skipDuplicates, for either.
InsertRole(r) ==
    /\ tx[r].pc = "insert"
    /\ ~Waits(r, Row(r))
    /\ Goes(r, [tx[r] EXCEPT !.pc = "commit", !.inserts = {Row(r)} \ granted])

BeginRevoke(r, actor, user, role) ==
    /\ tx[r].pc = "idle"
    /\ ActorIsAdmin(actor)
    /\ Goes(r, [TxIdle EXCEPT !.pc = "check", !.what = "revoke", !.user = user, !.role = role, !.actor = actor])

RevokeRead(r) ==
    /\ tx[r].pc = "check"
    /\ Goes(r, [tx[r] EXCEPT !.previous = CurrentRoles(r, tx[r].user),
                            !.pc = IF tx[r].role = "admin" THEN "count" ELSE "delete"])

\* The last admin is protected, by the number of admins now.
RevokeCount(r) ==
    /\ tx[r].pc = "count"
    /\ IF "admin" \in tx[r].previous /\ Cardinality({u \in Users : <<u, "admin">> \in granted}) <= 1
       THEN Goes(r, TxIdle)
       ELSE Goes(r, [tx[r] EXCEPT !.pc = "delete"])

DeleteRole(r) ==
    /\ tx[r].pc = "delete"
    /\ ~Waits(r, Row(r))
    /\ Goes(r, [tx[r] EXCEPT !.pc = "commit", !.deletes = {Row(r)} \intersect granted])

-----------------------------------------------------------------------------
(* The end of a transaction *)

NewEntry(r, resulting) ==
    <<[ action |-> IF tx[r].what = "revoke" THEN "revoked" ELSE "granted",
        user |-> tx[r].user, role |-> tx[r].role, actor |-> tx[r].actor,
        previous |-> tx[r].previous, resulting |-> resulting ]>>

\* Mutant: every provisioning writes its entry.
EntryAlways(r) == NewEntry(r, CurrentRoles(r, tx[r].user))

\* Provisioning writes one only if it inserted the role, and always the same.
Entry(r) ==
    IF tx[r].what # "provision" THEN NewEntry(r, CurrentRoles(r, tx[r].user))
    ELSE IF tx[r].inserts = {} THEN <<>>
    ELSE NewEntry(r, {"buyer"})

CommitTx(r) ==
    /\ profiles' = profiles \union tx[r].profile
    /\ granted' = Visible(r)
    /\ audit' = audit \o Entry(r)
    /\ tx' = [tx EXCEPT ![r] = TxIdle]

Commit(r) ==
    /\ tx[r].pc = "commit"
    /\ CommitTx(r)
    /\ UNCHANGED mistakes

\* It is rolled back, or commits and is reported as failed.
TxFails(r) ==
    /\ tx[r].pc # "idle"
    /\ mistakes < MaxMishaps /\ mistakes' = mistakes + 1
    /\ \/ tx' = [tx EXCEPT ![r] = TxIdle] /\ UNCHANGED <<profiles, granted, audit>>
       \/ tx[r].pc = "commit" /\ CommitTx(r)

Mutation(r) ==
    \/ \E actor, user \in Users, role \in ROLES :
         BeginGrant(r, actor, user, role) \/ BeginRevoke(r, actor, user, role)
    \/ GrantRead(r) \/ InsertRole(r)
    \/ RevokeRead(r) \/ RevokeCount(r) \/ DeleteRole(r)
    \/ Commit(r) \/ TxFails(r)

\* As documented: revoking never removes the final remaining admin.
LastAdminRemains == \E u \in Users : <<u, "admin">> \in granted

\* A request that takes the admin role away, from the read of the roles to its commit.
Dethrones(r) ==
    tx[r].what = "revoke" /\ tx[r].role = "admin" /\ tx[r].pc \in {"count", "delete", "commit"}

OtherAdmin(u) == \E v \in Users \ {u} : <<v, "admin">> \in granted

\* It leaves another admin, or has yet to count them.
CountHolds(r) == Dethrones(r) =>
    OtherAdmin(tx[r].user) \/ (tx[r].pc = "count" /\ "admin" \in tx[r].previous)

\* There is an admin, and every such request leaves one.
CountsHold == LastAdminRemains /\ \A r \in Requests : CountHolds(r)

\* One such request commits while another is under way.
RevocationsOverlap ==
    \E q, r \in Requests :
        q # r /\ Dethrones(q) /\ Dethrones(r) /\ tx[r].pc = "commit" /\ CommitTx(r)
=============================================================================
