---------------------------- MODULE MembersProofs ----------------------------
(***************************************************************************)
(* Theorems of the parts that serve a person: accounts and the audit trail *)
(* of roles (Accounts), the heart buttons (SavedItems) and the limiter     *)
(* before every handler (RequestGate), for any number of users, browsers,  *)
(* admins' requests, faults, hearts and callers, every limit and window.   *)
(***************************************************************************)
EXTENDS Members, PagingProofs, DeskProofs, FiniteSetTheorems, SequenceTheorems, NaturalsInduction,
        WellFoundedInduction, TLAPS

-----------------------------------------------------------------------------
(* The audit trail *)

AuditEntry == [ action: {"granted", "revoked"}, user: Users, role: ROLES,
                actor: Users \union {System}, previous: SUBSET ROLES, resulting: SUBSET ROLES ]

Tells(e, u, action, actors) ==
    e.user = u /\ e.role = "buyer" /\ e.action = action /\ e.actor \in actors

BuyerGiven(u) == Entries(u, "granted", {System})

BuyerTaken(u) == Entries(u, "revoked", Users)

\* What a trail tells of a user is finite.
LEMMA EntriesFinite ==
  ASSUME audit \in Seq(AuditEntry), NEW u, NEW action, NEW actors
  PROVE  /\ IsFiniteSet(Entries(u, action, actors)) /\ Cardinality(Entries(u, action, actors)) \in Nat
         /\ Entries(u, action, actors) \subseteq 1..Len(audit)
<1>1. Entries(u, action, actors) \subseteq 1..Len(audit)
  BY DEF Entries
<1>2. IsFiniteSet(1..Len(audit))
  BY FS_Interval
<1> QED
  BY <1>1, <1>2, FS_Subset, FS_CardinalityType

\* A new entry is told of, once, to whom it concerns.
LEMMA EntriesGrow ==
  ASSUME audit \in Seq(AuditEntry), NEW e \in AuditEntry, audit' = audit \o <<e>>,
         NEW u, NEW action, NEW actors
  PROVE  /\ Entries(u, action, actors)' = IF Tells(e, u, action, actors)
                                          THEN Entries(u, action, actors) \union {Len(audit) + 1}
                                          ELSE Entries(u, action, actors)
         /\ Cardinality(Entries(u, action, actors)') =
                Cardinality(Entries(u, action, actors)) + (IF Tells(e, u, action, actors) THEN 1 ELSE 0)
<1>1. /\ Len(audit) \in Nat /\ DOMAIN audit = 1..Len(audit)
      /\ DOMAIN audit' = 1..(Len(audit) + 1)
      /\ \A k \in 1..Len(audit) : audit'[k] = audit[k]
      /\ audit'[Len(audit) + 1] = e
  BY ConcatProperties
<1>2. Entries(u, action, actors)' = IF Tells(e, u, action, actors)
                                    THEN Entries(u, action, actors) \union {Len(audit) + 1}
                                    ELSE Entries(u, action, actors)
  BY <1>1 DEF Entries, Tells
<1>3. /\ IsFiniteSet(Entries(u, action, actors)) /\ Cardinality(Entries(u, action, actors)) \in Nat
      /\ Len(audit) + 1 \notin Entries(u, action, actors)
  BY <1>1, EntriesFinite
<1>4. Cardinality(Entries(u, action, actors) \union {Len(audit) + 1})
        = Cardinality(Entries(u, action, actors)) + 1
  BY <1>3, FS_AddElement
<1> QED
  BY <1>2, <1>3, <1>4

-----------------------------------------------------------------------------
(* The invariant of profiles and roles *)

Tx == [ pc: {"idle", "profile", "read", "check", "count", "insert", "delete", "commit"},
        what: {"none", "provision", "grant", "revoke"}, user: Users \union {System}, role: ROLES,
        actor: Users \union {System}, profile: SUBSET Users, inserts: SUBSET (Users \X ROLES),
        deletes: SUBSET (Users \X ROLES), previous: SUBSET ROLES ]

\* Admins grant to who has a profile; provisioning gives both.
RolesTyped ==
    /\ profiles \subseteq Users
    /\ granted \subseteq profiles \X ROLES
    /\ audit \in Seq(AuditEntry)
    /\ tx \in [Requests -> Tx]
    /\ mistakes \in Nat

\* The steps of a transaction belong to what it does.
Ordered(t) ==
    /\ t.pc = "idle" <=> t.what = "none"
    /\ t.pc = "profile" => t.what = "provision"
    /\ t.pc = "read" => t.what = "grant"
    /\ t.pc = "insert" => t.what \in {"provision", "grant"}
    /\ t.pc \in {"check", "count", "delete"} => t.what = "revoke"
    /\ t.what # "none" => t.user \in Users
    /\ t.what = "provision" => t.role = "buyer" /\ t.actor = System
    /\ t.what \in {"grant", "revoke"} => t.actor \in Users

\* It writes one row, the row of its user and role.
Writing(t) ==
    /\ t.pc # "commit" => t.inserts = {} /\ t.deletes = {}
    /\ t.inserts # {} => t.inserts = {<<t.user, t.role>>} /\ t.what # "revoke"
    /\ t.deletes # {} => t.deletes = {<<t.user, t.role>>} /\ t.what = "revoke"
    /\ t.inserts \intersect granted = {}
    /\ t.profile # {} => t.profile = {t.user} /\ t.what = "provision"

HasBuyer(u) == <<u, "buyer">> \in granted \/ BuyerTaken(u) # {}

\* What a provisioning need not insert was there.
Founded(t) ==
    /\ t.pc \in {"insert", "commit"} /\ t.what = "grant" => t.user \in profiles
    /\ t.pc \in {"insert", "commit"} /\ t.what = "provision" => t.user \in profiles \union t.profile
    /\ t.pc = "commit" /\ t.what = "provision" /\ t.inserts = {} => t.user \in profiles /\ HasBuyer(t.user)

Legal(t) == Ordered(t) /\ Writing(t) /\ Founded(t)

\* No two transactions write one row.
Apart(s, t) == (s.inserts \union s.deletes) \intersect (t.inserts \union t.deletes) = {}

\* Every insert of a buyer role by provisioning but the first follows a removal.
Balanced(u) == Cardinality(BuyerGiven(u)) <= Cardinality(BuyerTaken(u)) + (IF <<u, "buyer">> \in granted THEN 1 ELSE 0)

Traced(u) ==
    /\ u \in profiles => HasBuyer(u)
    /\ Balanced(u)
    /\ u \in profiles \ Founders => BuyerGiven(u) # {}
    /\ u \notin profiles => BuyerGiven(u) = {}

RolesInv ==
    /\ RolesTyped
    /\ \A r \in Requests : Legal(tx[r])
    /\ \A r, q \in Requests : r # q => Apart(tx[r], tx[q])
    /\ \A u \in Users : Traced(u)

\* Only the founders are there, and no entry.
LEMMA InitRolesInv == RolesInit => RolesInv
<1> SUFFICES ASSUME RolesInit PROVE RolesInv
  OBVIOUS
<1>1. RolesTyped
  <2>1. TxIdle \in Tx
    BY DEF TxIdle, Tx, ROLES
  <2> QED
    BY <2>1, RolesAssumption DEF RolesInit, RolesTyped, ROLES
<1>2. \A r \in Requests : Legal(tx[r]) /\ \A q \in Requests : Apart(tx[r], tx[q])
  BY DEF RolesInit, TxIdle, Legal, Ordered, Writing, Founded, Apart
<1>3. ASSUME NEW u \in Users PROVE Traced(u)
  <2>1. BuyerGiven(u) = {} /\ BuyerTaken(u) = {}
    BY DEF RolesInit, BuyerGiven, BuyerTaken, Entries
  <2>2. Cardinality(BuyerGiven(u)) = 0 /\ Cardinality(BuyerTaken(u)) = 0
    BY <2>1, FS_EmptySet
  <2>3. u \in profiles <=> <<u, "buyer">> \in granted
    BY DEF RolesInit
  <2> QED
    BY <2>1, <2>2, <2>3 DEF Traced, HasBuyer, Balanced, RolesInit
<1> QED
  BY <1>1, <1>2, <1>3 DEF RolesInv

\* One transaction takes a step before its end.
LEMMA Advances ==
  ASSUME RolesInv, NEW r \in Requests, NEW t \in Tx, tx' = [tx EXCEPT ![r] = t],
         profiles' = profiles, granted' = granted, audit' = audit, mistakes' \in Nat,
         Legal(t), \A q \in Requests \ {r} : Apart(t, tx[q])
  PROVE  RolesInv'
<1>1. tx' \in [Requests -> Tx] /\ \A q \in Requests : tx'[q] = IF q = r THEN t ELSE tx[q]
  BY DEF RolesInv, RolesTyped
<1>2. RolesTyped'
  BY <1>1 DEF RolesInv, RolesTyped
<1>3. \A u : HasBuyer(u)' = HasBuyer(u)
  BY DEF HasBuyer, BuyerTaken, Entries
<1>4. \A q \in Requests : Legal(tx'[q])
  BY <1>1 DEF RolesInv
<1>5. \A q \in Requests : Legal(tx[q])'
  <2> SUFFICES ASSUME NEW q \in Requests PROVE Legal(tx[q])'
    OBVIOUS
  <2>1. Legal(tx'[q])
    BY <1>4
  <2> QED
    BY <1>3, <2>1 DEF Legal, Ordered, Writing, Founded
<1>6. \A p, q \in Requests : p # q => Apart(tx[p], tx[q])'
  BY <1>1 DEF RolesInv, Apart
<1>7. \A u \in Users : Traced(u)'
  BY <1>3 DEF RolesInv, Traced, Balanced, BuyerGiven, BuyerTaken, Entries
<1> QED
  BY <1>2, <1>5, <1>6, <1>7 DEF RolesInv

\* A transaction that holds no row is apart from all.
LEMMA HoldsNothing ==
  ASSUME NEW t, t.inserts = {}, t.deletes = {}
  PROVE  \A s : Apart(t, s)
  BY DEF Apart

\* A transaction is rolled back, or refused.
LEMMA RollsBack ==
  ASSUME RolesInv, NEW r \in Requests, tx' = [tx EXCEPT ![r] = TxIdle],
         UNCHANGED <<profiles, granted, audit>>, mistakes' \in Nat
  PROVE  RolesInv'
<1>1. TxIdle \in Tx
  BY DEF TxIdle, Tx, ROLES
<1>2. Legal(TxIdle) /\ TxIdle.inserts = {} /\ TxIdle.deletes = {}
  BY DEF TxIdle, Legal, Ordered, Writing, Founded
<1> QED
  BY <1>1, <1>2, Advances, HoldsNothing

\* What a transaction at its end has written, whatever it does.
LEMMA CommitRows ==
  ASSUME RolesInv, NEW r \in Requests, tx[r].pc = "commit", CommitTx(r)
  PROVE  /\ tx[r] \in Tx /\ Legal(tx[r]) /\ tx[r].user \in Users
         /\ profiles' = profiles \union tx[r].profile /\ profiles' \subseteq Users
         /\ granted' \subseteq profiles' \X ROLES
         /\ tx[r].what = "revoke" => granted' = granted \ tx[r].deletes /\ profiles' = profiles
         /\ tx[r].what # "revoke" => granted' = granted \union tx[r].inserts
         /\ tx' \in [Requests -> Tx]
         /\ \A q \in Requests : tx'[q] = IF q = r THEN TxIdle ELSE tx[q]
<1>1. tx[r] \in Tx /\ Legal(tx[r]) /\ tx[r].user \in Users
  BY DEF RolesInv, RolesTyped, Legal, Ordered
<1>2. profiles' = profiles \union tx[r].profile /\ profiles' \subseteq Users
  BY <1>1 DEF CommitTx, Tx, RolesInv, RolesTyped
<1>3. /\ tx[r].what = "revoke" => granted' = granted \ tx[r].deletes /\ profiles' = profiles
      /\ tx[r].what # "revoke" => granted' = granted \union tx[r].inserts
  BY <1>1, <1>2 DEF CommitTx, Visible, Legal, Writing
<1>4. granted' \subseteq profiles' \X ROLES
  <2>1. CASE tx[r].what = "revoke" \/ tx[r].inserts = {}
    BY <1>2, <1>3, <2>1 DEF RolesInv, RolesTyped
  <2>2. CASE tx[r].what # "revoke" /\ tx[r].inserts = {<<tx[r].user, tx[r].role>>}
    <3>1. tx[r].user \in profiles'
      BY <1>1, <1>2, <2>2 DEF Legal, Ordered, Founded, Tx
    <3>2. tx[r].role \in ROLES
      BY <1>1 DEF Tx
    <3>3. <<tx[r].user, tx[r].role>> \in profiles' \X ROLES
      BY <3>1, <3>2
    <3>4. granted \subseteq profiles' \X ROLES
      BY <1>2 DEF RolesInv, RolesTyped
    <3> QED
      BY <1>3, <2>2, <3>3, <3>4
  <2> QED
    BY <1>1, <2>1, <2>2 DEF Legal, Writing
<1>5. TxIdle \in Tx
  BY DEF TxIdle, Tx, ROLES
<1>6. tx' \in [Requests -> Tx] /\ \A q \in Requests : tx'[q] = IF q = r THEN TxIdle ELSE tx[q]
  BY <1>5 DEF CommitTx, RolesInv, RolesTyped
<1> QED
  BY <1>1, <1>2, <1>3, <1>4, <1>6

\* What it adds to the trail.
LEMMA CommitEntry ==
  ASSUME RolesInv, NEW r \in Requests, tx[r].pc = "commit", CommitTx(r)
  PROVE  \/ tx[r].what = "provision" /\ tx[r].inserts = {} /\ audit' = audit
         \/ \E e \in AuditEntry :
              /\ audit' = audit \o <<e>>
              /\ e.user = tx[r].user /\ e.role = tx[r].role /\ e.actor = tx[r].actor
              /\ e.action = IF tx[r].what = "revoke" THEN "revoked" ELSE "granted"
              /\ tx[r].what # "provision" \/ tx[r].inserts # {}
<1>1. tx[r] \in Tx /\ tx[r].user \in Users /\ audit \in Seq(AuditEntry)
  BY CommitRows DEF RolesInv, RolesTyped
<1>2. CASE tx[r].what = "provision" /\ tx[r].inserts = {}
  BY <1>1, <1>2, ConcatEmptySeq DEF CommitTx, Entry
<1>3. ASSUME NEW resulting \in SUBSET ROLES, Entry(r) = NewEntry(r, resulting),
             tx[r].what # "provision" \/ tx[r].inserts # {}
      PROVE  \E e \in AuditEntry :
               /\ audit' = audit \o <<e>>
               /\ e.user = tx[r].user /\ e.role = tx[r].role /\ e.actor = tx[r].actor
               /\ e.action = IF tx[r].what = "revoke" THEN "revoked" ELSE "granted"
               /\ tx[r].what # "provision" \/ tx[r].inserts # {}
  <2> DEFINE e == [ action |-> IF tx[r].what = "revoke" THEN "revoked" ELSE "granted",
                    user |-> tx[r].user, role |-> tx[r].role, actor |-> tx[r].actor,
                    previous |-> tx[r].previous, resulting |-> resulting ]
  <2>1. e \in AuditEntry
    BY <1>1 DEF AuditEntry, Tx
  <2>2. audit' = audit \o <<e>>
    BY <1>3 DEF CommitTx, NewEntry
  <2> QED
    BY <1>3, <2>1, <2>2
<1>4. CASE ~(tx[r].what = "provision" /\ tx[r].inserts = {})
  <2>1. CurrentRoles(r, tx[r].user) \in SUBSET ROLES /\ {"buyer"} \in SUBSET ROLES
    BY DEF CurrentRoles, ROLES
  <2>2. Entry(r) = NewEntry(r, CurrentRoles(r, tx[r].user)) \/ Entry(r) = NewEntry(r, {"buyer"})
    BY <1>4 DEF Entry
  <2> QED
    BY <1>3, <1>4, <2>1, <2>2
<1> QED
  BY <1>2, <1>4

\* What the trail tells of a user after it: an insert of provisioning, a removal, or no change.
LEMMA CommitTrail ==
  ASSUME RolesInv, NEW r \in Requests, tx[r].pc = "commit", CommitTx(r), NEW u \in Users
  PROVE  LET inserts == tx[r].what = "provision" /\ tx[r].inserts # {} /\ tx[r].user = u
             removes == tx[r].what = "revoke" /\ tx[r].role = "buyer" /\ tx[r].user = u
         IN  /\ Cardinality(BuyerGiven(u)') = Cardinality(BuyerGiven(u)) + (IF inserts THEN 1 ELSE 0)
             /\ Cardinality(BuyerTaken(u)') = Cardinality(BuyerTaken(u)) + (IF removes THEN 1 ELSE 0)
             /\ BuyerGiven(u)' # {} <=> inserts \/ BuyerGiven(u) # {}
             /\ BuyerTaken(u)' # {} <=> removes \/ BuyerTaken(u) # {}
             /\ audit' \in Seq(AuditEntry)
<1> DEFINE inserts == tx[r].what = "provision" /\ tx[r].inserts # {} /\ tx[r].user = u
           removes == tx[r].what = "revoke" /\ tx[r].role = "buyer" /\ tx[r].user = u
<1>1. /\ audit \in Seq(AuditEntry) /\ System \notin Users
      /\ tx[r].what = "provision" => tx[r].role = "buyer" /\ tx[r].actor = System
      /\ tx[r].what \in {"grant", "revoke"} => tx[r].actor \in Users
      /\ tx[r].what \in {"grant", "revoke", "provision"}
  BY CommitRows, RolesAssumption DEF RolesInv, RolesTyped, Legal, Ordered, Tx
<1>2. Cardinality(BuyerGiven(u)) \in Nat /\ Cardinality(BuyerTaken(u)) \in Nat
  BY <1>1, EntriesFinite DEF BuyerGiven, BuyerTaken
<1>3. CASE tx[r].what = "provision" /\ tx[r].inserts = {} /\ audit' = audit
  BY <1>1, <1>2, <1>3 DEF BuyerGiven, BuyerTaken, Entries
<1>4. ASSUME NEW e \in AuditEntry, audit' = audit \o <<e>>,
             e.user = tx[r].user, e.role = tx[r].role, e.actor = tx[r].actor,
             e.action = IF tx[r].what = "revoke" THEN "revoked" ELSE "granted",
             tx[r].what # "provision" \/ tx[r].inserts # {}
      PROVE  /\ Cardinality(BuyerGiven(u)') = Cardinality(BuyerGiven(u)) + (IF inserts THEN 1 ELSE 0)
             /\ Cardinality(BuyerTaken(u)') = Cardinality(BuyerTaken(u)) + (IF removes THEN 1 ELSE 0)
             /\ BuyerGiven(u)' # {} <=> inserts \/ BuyerGiven(u) # {}
             /\ BuyerTaken(u)' # {} <=> removes \/ BuyerTaken(u) # {}
             /\ audit' \in Seq(AuditEntry)
  <2>1. Tells(e, u, "granted", {System}) <=> inserts
    BY <1>1, <1>4 DEF Tells
  <2>2. Tells(e, u, "revoked", Users) <=> removes
    BY <1>1, <1>4 DEF Tells
  <2>3. /\ BuyerGiven(u)' = IF inserts THEN BuyerGiven(u) \union {Len(audit) + 1} ELSE BuyerGiven(u)
        /\ Cardinality(BuyerGiven(u)') = Cardinality(BuyerGiven(u)) + (IF inserts THEN 1 ELSE 0)
    BY <1>1, <1>4, <2>1, EntriesGrow DEF BuyerGiven
  <2>4. /\ BuyerTaken(u)' = IF removes THEN BuyerTaken(u) \union {Len(audit) + 1} ELSE BuyerTaken(u)
        /\ Cardinality(BuyerTaken(u)') = Cardinality(BuyerTaken(u)) + (IF removes THEN 1 ELSE 0)
    BY <1>1, <1>4, <2>2, EntriesGrow DEF BuyerTaken
  <2>5. audit' \in Seq(AuditEntry)
    BY <1>1, <1>4, ConcatProperties
  <2> QED
    BY <2>3, <2>4, <2>5
<1> QED
  BY <1>3, <1>4, CommitEntry

\* A commit keeps every user's trail in step with the rows.
LEMMA CommitTraced ==
  ASSUME RolesInv, NEW r \in Requests, tx[r].pc = "commit", CommitTx(r), NEW u \in Users
  PROVE  Traced(u)' /\ (HasBuyer(u) => HasBuyer(u)')
<1> DEFINE inserts == tx[r].what = "provision" /\ tx[r].inserts # {} /\ tx[r].user = u
           removes == tx[r].what = "revoke" /\ tx[r].role = "buyer" /\ tx[r].user = u
<1>1. /\ Cardinality(BuyerGiven(u)') = Cardinality(BuyerGiven(u)) + (IF inserts THEN 1 ELSE 0)
      /\ Cardinality(BuyerTaken(u)') = Cardinality(BuyerTaken(u)) + (IF removes THEN 1 ELSE 0)
      /\ BuyerGiven(u)' # {} <=> inserts \/ BuyerGiven(u) # {}
      /\ BuyerTaken(u)' # {} <=> removes \/ BuyerTaken(u) # {}
  BY CommitTrail
<1>2. Traced(u) /\ Cardinality(BuyerGiven(u)) \in Nat /\ Cardinality(BuyerTaken(u)) \in Nat
  BY EntriesFinite DEF RolesInv, RolesTyped, BuyerGiven, BuyerTaken
<1>3. tx[r] \in Tx /\ Legal(tx[r])
  BY CommitRows
<1>4. <<u, "buyer">> \in granted /\ <<u, "buyer">> \notin granted' => removes
  BY <1>3, CommitRows DEF Legal, Writing
<1>5. inserts => <<u, "buyer">> \in granted' /\ <<u, "buyer">> \notin granted /\ u \in profiles'
  BY <1>3, CommitRows DEF Legal, Writing, Ordered, Founded
<1>6. u \in profiles => u \in profiles'
  BY CommitRows
<1>7. u \in profiles' /\ u \notin profiles => tx[r].what = "provision" /\ tx[r].user = u
  BY <1>3, CommitRows DEF Legal, Writing
<1>8. u \in profiles' /\ u \notin profiles => inserts
  <2>1. tx[r].pc = "commit" /\ tx[r].what = "provision" /\ tx[r].inserts = {} => tx[r].user \in profiles
    BY <1>3 DEF Legal, Founded
  <2> QED
    BY <1>7, <2>1
<1>9. HasBuyer(u) => HasBuyer(u)'
  BY <1>1, <1>4 DEF HasBuyer
<1>10. u \in profiles' => HasBuyer(u)'
  BY <1>2, <1>5, <1>8, <1>9 DEF Traced, HasBuyer
<1>11. Balanced(u)'
  <2>1. CASE inserts
    BY <1>1, <1>2, <1>5, <2>1 DEF Traced, Balanced
  <2>2. CASE ~inserts
    BY <1>1, <1>2, <1>4, <2>2 DEF Traced, Balanced
  <2> QED
    BY <2>1, <2>2
<1> QED
  BY <1>1, <1>2, <1>5, <1>6, <1>8, <1>9, <1>10, <1>11 DEF Traced

\* A commit keeps the invariant, also one that is reported as failed.
LEMMA Commits ==
  ASSUME RolesInv, NEW r \in Requests, tx[r].pc = "commit", CommitTx(r), mistakes' \in Nat
  PROVE  RolesInv'
<1>1. \A u \in Users : Traced(u)' /\ (HasBuyer(u) => HasBuyer(u)')
  BY CommitTraced
<1>2. RolesTyped'
  <2>1. \A u \in Users : audit' \in Seq(AuditEntry)
    BY CommitTrail
  <2>2. tx[r].user \in Users
    BY CommitRows
  <2> QED
    BY <2>1, <2>2, CommitRows DEF RolesTyped
<1>3. ASSUME NEW q \in Requests PROVE Legal(tx[q])'
  <2>1. CASE q = r
    <3>1. tx'[q] = TxIdle
      BY <2>1, CommitRows
    <3> QED
      BY <3>1 DEF TxIdle, Legal, Ordered, Writing, Founded
  <2>2. CASE q # r
    <3>1. tx'[q] = tx[q] /\ Legal(tx[q])
      BY <2>2, CommitRows DEF RolesInv
    <3>2. tx[q].inserts \intersect granted' = {}
      <4>1. granted' \subseteq granted \union tx[r].inserts
        BY CommitRows
      <4>2. tx[q].inserts \intersect tx[r].inserts = {}
        BY <2>2 DEF RolesInv, Apart
      <4> QED
        BY <3>1, <4>1, <4>2 DEF Legal, Writing
    <3>3. profiles \subseteq profiles'
      BY CommitRows
    <3>4. tx[q].what # "none" => tx[q].user \in Users
      BY <3>1 DEF Legal, Ordered
    <3>5. Writing(tx[q])'
      BY <3>1, <3>2 DEF Legal, Writing
    <3>6. Founded(tx[q])'
      BY <1>1, <3>1, <3>3, <3>4 DEF Legal, Founded
    <3> QED
      BY <3>1, <3>5, <3>6 DEF Legal, Ordered
  <2> QED
    BY <2>1, <2>2
<1>4. \A p, q \in Requests : p # q => Apart(tx[p], tx[q])'
  <2>1. TxIdle.inserts = {} /\ TxIdle.deletes = {}
    BY DEF TxIdle
  <2> QED
    BY <2>1, CommitRows DEF RolesInv, Apart
<1> QED
  BY <1>1, <1>2, <1>3, <1>4 DEF RolesInv

-----------------------------------------------------------------------------
(* The steps of provisioning and of the admins *)

\* A provisioning that is under way stays so, or has given its user a profile, or failed.
Continued ==
    /\ profiles \subseteq profiles'
    /\ mistakes' = 0 => mistakes = 0
    /\ \A b \in Requests : mistakes' = 0 /\ tx[b].what = "provision" =>
         (tx'[b].what = "provision" /\ tx'[b].user = tx[b].user) \/ tx[b].user \in profiles'

\* A step before the end of a transaction serves what was being provisioned.
LEMMA GoesServes ==
  ASSUME RolesInv, NEW r \in Requests, NEW t, Goes(r, t),
         tx[r].what # "provision" \/ (t.what = "provision" /\ t.user = tx[r].user)
  PROVE  Continued
<1>1. \A b \in Requests : tx'[b] = IF b = r THEN t ELSE tx[b]
  BY DEF Goes, RolesInv, RolesTyped
<1> QED
  BY <1>1 DEF Goes, Continued

\* A step before the end that is legal keeps the invariant.
LEMMA GoesInv ==
  ASSUME RolesInv, NEW r \in Requests, NEW t \in Tx, Goes(r, t), Legal(t),
         \A q \in Requests \ {r} : Apart(t, tx[q]),
         tx[r].what # "provision" \/ (t.what = "provision" /\ t.user = tx[r].user)
  PROVE  RolesInv' /\ Continued
<1>1. mistakes' \in Nat
  BY DEF Goes, RolesInv, RolesTyped
<1> QED
  BY <1>1, Advances, GoesServes DEF Goes

\* A new transaction holds nothing.
LEMMA Begins ==
  ASSUME RolesInv, NEW r \in Requests, tx[r].pc = "idle",
         \E actor, user \in Users, role \in ROLES :
            BeginGrant(r, actor, user, role) \/ BeginRevoke(r, actor, user, role) \/ BeginProvision(r, user)
  PROVE  RolesInv' /\ Continued
<1>1. PICK actor \in Users, user \in Users, role \in ROLES :
         BeginGrant(r, actor, user, role) \/ BeginRevoke(r, actor, user, role) \/ BeginProvision(r, user)
  OBVIOUS
<1>2. tx[r].what # "provision"
  BY DEF RolesInv, Legal, Ordered
<1>3. CASE BeginGrant(r, actor, user, role)
  <2> DEFINE t == [TxIdle EXCEPT !.pc = "read", !.what = "grant", !.user = user, !.role = role, !.actor = actor]
  <2>1. t \in Tx /\ Legal(t) /\ t.inserts = {} /\ t.deletes = {}
    BY DEF TxIdle, Tx, ROLES, Legal, Ordered, Writing, Founded
  <2>2. Goes(r, t)
    BY <1>3 DEF BeginGrant
  <2> HIDE DEF t
  <2> QED
    BY <1>2, <2>1, <2>2, GoesInv, HoldsNothing
<1>4. CASE BeginRevoke(r, actor, user, role)
  <2> DEFINE t == [TxIdle EXCEPT !.pc = "check", !.what = "revoke", !.user = user, !.role = role, !.actor = actor]
  <2>1. t \in Tx /\ Legal(t) /\ t.inserts = {} /\ t.deletes = {}
    BY DEF TxIdle, Tx, ROLES, Legal, Ordered, Writing, Founded
  <2>2. Goes(r, t)
    BY <1>4 DEF BeginRevoke
  <2> HIDE DEF t
  <2> QED
    BY <1>2, <2>1, <2>2, GoesInv, HoldsNothing
<1>5. CASE BeginProvision(r, user)
  <2> DEFINE t == [TxIdle EXCEPT !.pc = "profile", !.what = "provision", !.user = user]
  <2>1. t \in Tx /\ Legal(t) /\ t.inserts = {} /\ t.deletes = {}
    BY DEF TxIdle, Tx, ROLES, Legal, Ordered, Writing, Founded
  <2>2. Goes(r, t)
    BY <1>5 DEF BeginProvision
  <2> HIDE DEF t
  <2> QED
    BY <1>2, <2>1, <2>2, GoesInv, HoldsNothing
<1> QED
  BY <1>1, <1>3, <1>4, <1>5

\* The reads of an admin's request, and the profile of a provisioning, write no role.
LEMMA Reads ==
  ASSUME RolesInv, NEW r \in Requests,
         ProvisionProfile(r) \/ GrantRead(r) \/ RevokeRead(r) \/ RevokeCount(r)
  PROVE  RolesInv' /\ Continued
<1>1. tx[r] \in Tx /\ Legal(tx[r])
  BY DEF RolesInv, RolesTyped
<1>2. ASSUME NEW t \in Tx, Goes(r, t), Legal(t), t.inserts = {}, t.deletes = {},
             t.what = "provision" => tx[r].what = "provision",
             tx[r].what = "provision" => t.what = "provision" /\ t.user = tx[r].user
      PROVE  RolesInv' /\ Continued
  BY <1>2, GoesInv, HoldsNothing
<1>3. CASE ProvisionProfile(r)
  <2> DEFINE t == [tx[r] EXCEPT !.pc = "insert", !.profile = {tx[r].user} \ profiles]
  <2>1. tx[r].what = "provision" /\ tx[r].user \in Users
    BY <1>1, <1>3 DEF ProvisionProfile, Legal, Ordered
  <2>2. t \in Tx /\ Legal(t) /\ t.inserts = {} /\ t.deletes = {} /\ t.what = "provision" /\ t.user = tx[r].user
    <3>1. {tx[r].user} \ profiles \in SUBSET Users
      BY <2>1
    <3>2. t \in Tx
      BY <1>1, <3>1 DEF Tx
    <3>3. /\ t.pc = "insert" /\ t.what = "provision" /\ t.user = tx[r].user /\ t.role = tx[r].role
          /\ t.actor = tx[r].actor /\ t.profile = {tx[r].user} \ profiles
          /\ t.inserts = tx[r].inserts /\ t.deletes = tx[r].deletes
      BY <1>1, <2>1 DEF Tx
    <3>4. tx[r].inserts = {} /\ tx[r].deletes = {}
      BY <1>1, <1>3 DEF ProvisionProfile, Legal, Writing
    <3> HIDE DEF t
    <3>5. Legal(t)
      BY <1>1, <2>1, <3>3, <3>4 DEF Legal, Ordered, Writing, Founded
    <3> QED
      BY <3>2, <3>3, <3>4, <3>5
  <2>3. Goes(r, t)
    BY <1>3 DEF ProvisionProfile
  <2> HIDE DEF t
  <2> QED
    BY <1>2, <2>1, <2>2, <2>3
<1>4. CASE GrantRead(r) /\ tx[r].user \in profiles
  <2> DEFINE t == [tx[r] EXCEPT !.pc = "insert", !.previous = CurrentRoles(r, tx[r].user)]
  <2>1. tx[r].what = "grant" /\ CurrentRoles(r, tx[r].user) \in SUBSET ROLES
    BY <1>1, <1>4 DEF GrantRead, Legal, Ordered, CurrentRoles
  <2>2. t \in Tx /\ Legal(t) /\ t.inserts = {} /\ t.deletes = {} /\ t.what = "grant"
    BY <1>1, <1>4, <2>1 DEF GrantRead, Tx, Legal, Ordered, Writing, Founded
  <2>3. Goes(r, t)
    BY <1>4 DEF GrantRead
  <2> HIDE DEF t
  <2> QED
    BY <1>2, <2>1, <2>2, <2>3
<1>5. CASE RevokeRead(r)
  <2> DEFINE t == [tx[r] EXCEPT !.previous = CurrentRoles(r, tx[r].user),
                                !.pc = IF tx[r].role = "admin" THEN "count" ELSE "delete"]
  <2>1. tx[r].what = "revoke" /\ CurrentRoles(r, tx[r].user) \in SUBSET ROLES
    BY <1>1, <1>5 DEF RevokeRead, Legal, Ordered, CurrentRoles
  <2>2. t \in Tx /\ Legal(t) /\ t.inserts = {} /\ t.deletes = {} /\ t.what = "revoke"
    BY <1>1, <1>5, <2>1 DEF RevokeRead, Tx, Legal, Ordered, Writing, Founded
  <2>3. Goes(r, t)
    BY <1>5 DEF RevokeRead
  <2> HIDE DEF t
  <2> QED
    BY <1>2, <2>1, <2>2, <2>3
<1>6. CASE RevokeCount(r) /\ Goes(r, [tx[r] EXCEPT !.pc = "delete"])
  <2> DEFINE t == [tx[r] EXCEPT !.pc = "delete"]
  <2>1. t \in Tx /\ Legal(t) /\ t.inserts = {} /\ t.deletes = {} /\ t.what = "revoke" /\ tx[r].what = "revoke"
    BY <1>1, <1>6 DEF RevokeCount, Tx, Legal, Ordered, Writing, Founded
  <2>2. Goes(r, t)
    BY <1>6
  <2> HIDE DEF t
  <2> QED
    BY <1>2, <2>1, <2>2
<1>7. CASE (GrantRead(r) \/ RevokeCount(r)) /\ Goes(r, TxIdle)
  <2>1. TxIdle \in Tx /\ Legal(TxIdle) /\ TxIdle.inserts = {} /\ TxIdle.deletes = {} /\ TxIdle.what = "none"
    BY DEF TxIdle, Tx, ROLES, Legal, Ordered, Writing, Founded
  <2>2. tx[r].what # "provision"
    BY <1>1, <1>7 DEF GrantRead, RevokeCount, Legal, Ordered
  <2> QED
    BY <1>2, <1>7, <2>1, <2>2
<1> QED
  BY <1>3, <1>4, <1>5, <1>6, <1>7 DEF GrantRead, RevokeCount

\* The insert of a role waits for whoever writes the row.
LEMMA Inserts ==
  ASSUME RolesInv, NEW r \in Requests, InsertRole(r)
  PROVE  RolesInv' /\ Continued
<1> DEFINE t == [tx[r] EXCEPT !.pc = "commit", !.inserts = {Row(r)} \ granted]
<1>1. tx[r] \in Tx /\ Legal(tx[r])
  BY DEF RolesInv, RolesTyped
<1>2. /\ tx[r].pc = "insert" /\ tx[r].what \in {"provision", "grant"}
      /\ tx[r].user \in Users /\ tx[r].role \in ROLES
      /\ tx[r].inserts = {} /\ tx[r].deletes = {} /\ Goes(r, t)
  BY <1>1 DEF InsertRole, Legal, Ordered, Writing, Tx
<1>3. t \in Tx
  <2>1. Row(r) \in Users \X ROLES
    BY <1>2 DEF Row
  <2>2. {Row(r)} \ granted \in SUBSET (Users \X ROLES)
    BY <2>1
  <2> QED
    BY <1>1, <2>2 DEF Tx
<1>4. /\ t.pc = "commit" /\ t.what = tx[r].what /\ t.user = tx[r].user /\ t.role = tx[r].role
      /\ t.actor = tx[r].actor /\ t.profile = tx[r].profile
      /\ t.inserts = {Row(r)} \ granted /\ t.deletes = {}
  BY <1>1, <1>2 DEF Tx
<1>5. Ordered(t) /\ Writing(t)
  BY <1>1, <1>2, <1>4 DEF Legal, Ordered, Writing, Row
<1>6. Founded(t)
  <2>1. t.inserts = {} => <<tx[r].user, tx[r].role>> \in granted
    BY <1>4 DEF Row
  <2>2. t.inserts = {} => tx[r].user \in profiles
    BY <2>1 DEF RolesInv, RolesTyped
  <2>3. t.what = "provision" /\ t.inserts = {} => HasBuyer(t.user)
    BY <1>1, <1>4, <2>1 DEF HasBuyer, Legal, Ordered
  <2> QED
    BY <1>1, <1>2, <1>4, <2>2, <2>3 DEF Legal, Founded
<1>7. \A q \in Requests \ {r} : Apart(t, tx[q])
  BY <1>4 DEF Apart, InsertRole, Waits
<1> QED
  <2> HIDE DEF t
  <2> QED
    BY <1>2, <1>3, <1>4, <1>5, <1>6, <1>7, GoesInv DEF Legal

\* So does the delete.
LEMMA Deletes ==
  ASSUME RolesInv, NEW r \in Requests, DeleteRole(r)
  PROVE  RolesInv' /\ Continued
<1> DEFINE t == [tx[r] EXCEPT !.pc = "commit", !.deletes = {Row(r)} \intersect granted]
<1>1. tx[r] \in Tx /\ Legal(tx[r])
  BY DEF RolesInv, RolesTyped
<1>2. /\ tx[r].pc = "delete" /\ tx[r].what = "revoke"
      /\ tx[r].user \in Users /\ tx[r].role \in ROLES
      /\ tx[r].inserts = {} /\ tx[r].deletes = {} /\ Goes(r, t)
  BY <1>1 DEF DeleteRole, Legal, Ordered, Writing, Tx
<1>3. t \in Tx
  <2>1. Row(r) \in Users \X ROLES
    BY <1>2 DEF Row
  <2>2. {Row(r)} \intersect granted \in SUBSET (Users \X ROLES)
    BY <2>1
  <2> QED
    BY <1>1, <2>2 DEF Tx
<1>4. /\ t.pc = "commit" /\ t.what = tx[r].what /\ t.user = tx[r].user /\ t.role = tx[r].role
      /\ t.actor = tx[r].actor /\ t.profile = tx[r].profile
      /\ t.inserts = {} /\ t.deletes = {Row(r)} \intersect granted
  BY <1>1, <1>2 DEF Tx
<1>5. Legal(t)
  BY <1>1, <1>2, <1>4 DEF Legal, Ordered, Writing, Founded, Row
<1>6. \A q \in Requests \ {r} : Apart(t, tx[q])
  BY <1>4 DEF Apart, DeleteRole, Waits
<1> QED
  <2> HIDE DEF t
  <2> QED
    BY <1>2, <1>3, <1>4, <1>5, <1>6, GoesInv

\* A transaction ends, or fails.
LEMMA Ends ==
  ASSUME RolesInv, NEW r \in Requests, Commit(r) \/ TxFails(r)
  PROVE  RolesInv' /\ Continued
<1>1. tx[r] \in Tx /\ Legal(tx[r]) /\ mistakes \in Nat
  BY DEF RolesInv, RolesTyped
<1>2. CASE Commit(r)
  <2>1. tx[r].pc = "commit" /\ CommitTx(r) /\ mistakes' = mistakes
    BY <1>2 DEF Commit
  <2>2. RolesInv'
    BY <1>1, <2>1, Commits
  <2>3. tx[r].what = "provision" => tx[r].user \in profiles'
    BY <1>1, <2>1, CommitRows DEF Legal, Founded
  <2> QED
    BY <2>1, <2>2, <2>3, CommitRows DEF Continued
<1>3. CASE TxFails(r)
  <2>1. mistakes' = mistakes + 1
    BY <1>3 DEF TxFails
  <2>2. CASE tx' = [tx EXCEPT ![r] = TxIdle] /\ UNCHANGED <<profiles, granted, audit>>
    <3>1. mistakes' \in Nat /\ mistakes' # 0
      BY <1>1, <2>1
    <3>2. RolesInv'
      BY <2>2, <3>1, RollsBack
    <3> QED
      BY <2>2, <3>1, <3>2 DEF Continued
  <2>3. CASE tx[r].pc = "commit" /\ CommitTx(r)
    <3>1. RolesInv' /\ profiles \subseteq profiles'
      BY <1>1, <2>1, <2>3, Commits, CommitRows
    <3> QED
      BY <1>1, <2>1, <3>1 DEF Continued
  <2> QED
    BY <1>3, <2>2, <2>3 DEF TxFails
<1> QED
  BY <1>2, <1>3

\* Whatever a request does to the roles.
LEMMA RoleSteps ==
  ASSUME RolesInv, NEW r \in Requests, ProvisionProfile(r) \/ Mutation(r)
  PROVE  RolesInv' /\ Continued
<1>1. CASE \E actor, user \in Users, role \in ROLES :
             BeginGrant(r, actor, user, role) \/ BeginRevoke(r, actor, user, role)
  BY <1>1, Begins DEF BeginGrant, BeginRevoke
<1> QED
  BY <1>1, Reads, Inserts, Deletes, Ends DEF Mutation

-----------------------------------------------------------------------------
(* The pages and the sessions *)

Page == [ at: {"home", "login", "register", "verify", "forgot", "reset", "account", "seller", "admin", "missing"},
          pc: {"idle", "pending", "signing in"},
          note: {"none", "error", "expired", "sent", "updated", "sign in"}, who: Users \union {Anyone} ]

\* Without a fault, who is signed in has a profile, and who is signing in has or gets one.
Attended(b) == mistakes = 0 =>
    /\ session[b] # Anyone => session[b] \in profiles
    /\ page[b].pc = "signing in" =>
          page[b].who \in profiles \/ (tx[b].what = "provision" /\ tx[b].user = page[b].who)

PagesInv == AccountsTypeOK /\ \A b \in Requests : Attended(b)

AccountsInv == RolesInv /\ PagesInv

\* The stores are what they were, or serve what was under way.
LEMMA StillAttended ==
  ASSUME PagesInv, Continued, UNCHANGED accountVars
  PROVE  PagesInv'
<1>1. AccountsTypeOK'
  BY DEF PagesInv, AccountsTypeOK, accountVars
<1>2. ASSUME NEW b \in Requests PROVE Attended(b)'
  BY DEF PagesInv, Attended, Continued, accountVars
<1> QED
  BY <1>1, <1>2 DEF PagesInv

\* Where the stores rest, their invariant does.
LEMMA RolesRest ==
  ASSUME RolesInv, UNCHANGED roleVars
  PROVE  RolesInv'
<1>1. RolesTyped'
  BY DEF RolesInv, RolesTyped, roleVars
<1>2. \A u : HasBuyer(u)' = HasBuyer(u) /\ BuyerGiven(u)' = BuyerGiven(u) /\ BuyerTaken(u)' = BuyerTaken(u)
  BY DEF HasBuyer, BuyerGiven, BuyerTaken, Entries, roleVars
<1>3. ASSUME NEW r \in Requests PROVE Legal(tx[r])'
  <2>1. Legal(tx[r]) /\ tx' = tx
    BY DEF RolesInv, roleVars
  <2> QED
    BY <1>2, <2>1 DEF Legal, Ordered, Writing, Founded, roleVars
<1>4. ASSUME NEW u \in Users PROVE Traced(u)'
  BY <1>2 DEF RolesInv, Traced, Balanced, roleVars
<1>5. \A r, q \in Requests : r # q => Apart(tx[r], tx[q])'
  BY DEF RolesInv, Apart, roleVars
<1> QED
  BY <1>1, <1>3, <1>4, <1>5 DEF RolesInv

\* Nothing is asked of the roles: one page changes, and its session stays or ends.
LEMMA PageTurns ==
  ASSUME AccountsInv, NEW b \in Requests, NEW p \in Page, Shows(b, p), p.pc # "signing in",
         UNCHANGED roleVars, session' = session \/ SessionEnds(b),
         account' \in [Users -> {"none", "unverified", "verified"}],
         mail' \subseteq [user: Users, kind: {"signup", "recovery"}]
  PROVE  AccountsInv'
<1>1. RolesInv'
  BY RolesRest DEF AccountsInv
<1>2. page \in [Requests -> Page] /\ session \in [Requests -> Users \union {Anyone}]
  BY DEF AccountsInv, PagesInv, AccountsTypeOK, Page
<1>3. /\ page' \in [Requests -> Page]
      /\ \A c \in Requests : page'[c] = IF c = b THEN p ELSE page[c]
  BY <1>2 DEF Shows
<1>4. /\ session' \in [Requests -> Users \union {Anyone}]
      /\ \A c \in Requests : session'[c] = session[c] \/ session'[c] = Anyone
  BY <1>2 DEF SessionEnds
<1>5. AccountsTypeOK'
  BY <1>3, <1>4 DEF AccountsTypeOK, Page
<1>6. ASSUME NEW c \in Requests PROVE Attended(c)'
  BY <1>3, <1>4 DEF AccountsInv, PagesInv, Attended, roleVars
<1> QED
  BY <1>1, <1>5, <1>6 DEF AccountsInv, PagesInv

\* A sign-in begins with its provisioning.
LEMMA SignsIn ==
  ASSUME AccountsInv, NEW b \in Requests, NEW u \in Users, NEW at, at \in {"login", "reset", "home"},
         Provisions(b, u, at),
         account' \in [Users -> {"none", "unverified", "verified"}],
         mail' \subseteq [user: Users, kind: {"signup", "recovery"}]
  PROVE  AccountsInv'
<1>1. RolesInv' /\ Continued
  <2>1. tx[b].pc = "idle" /\ BeginProvision(b, u) /\ RolesInv
    BY DEF AccountsInv, Provisions
  <2>2. \E actor, user \in Users, role \in ROLES :
          BeginGrant(b, actor, user, role) \/ BeginRevoke(b, actor, user, role) \/ BeginProvision(b, user)
    BY <2>1 DEF ROLES
  <2> QED
    BY <2>1, <2>2, Begins
<1>2. page \in [Requests -> Page] /\ session \in [Requests -> Users \union {Anyone}] /\ session' = session
  BY DEF AccountsInv, PagesInv, AccountsTypeOK, Page, Provisions
<1>3. [Blank(at) EXCEPT !.pc = "signing in", !.who = u] \in Page
  BY DEF Blank, Page
<1>4. /\ page' \in [Requests -> Page]
      /\ \A c \in Requests : c # b => page'[c] = page[c]
      /\ page'[b].pc = "signing in" /\ page'[b].who = u
  BY <1>2, <1>3 DEF Provisions, Shows, Blank
<1>5. AccountsTypeOK'
  BY <1>2, <1>4 DEF AccountsTypeOK, Page
<1>6. tx'[b].what = "provision" /\ tx'[b].user = u
  BY DEF Provisions, BeginProvision, Goes, TxIdle, AccountsInv, RolesInv, RolesTyped
<1>7. ASSUME NEW c \in Requests PROVE Attended(c)'
  <2>1. mistakes' = 0 => mistakes = 0
    BY <1>1 DEF Continued
  <2>2. Attended(c)
    BY DEF AccountsInv, PagesInv
  <2>3. mistakes' = 0 /\ session'[c] # Anyone => session'[c] \in profiles'
    BY <1>1, <1>2, <2>1, <2>2 DEF Attended, Continued
  <2>4. mistakes' = 0 /\ page'[c].pc = "signing in" =>
          page'[c].who \in profiles' \/ (tx'[c].what = "provision" /\ tx'[c].user = page'[c].who)
    BY <1>1, <1>4, <1>6, <2>1, <2>2 DEF Attended, Continued
  <2> QED
    BY <2>3, <2>4 DEF Attended
<1> QED
  BY <1>1, <1>5, <1>7 DEF AccountsInv, PagesInv

\* The answer comes when the transaction has ended.
LEMMA SignedInInv ==
  ASSUME AccountsInv, NEW b \in Requests, SignedIn(b)
  PROVE  AccountsInv'
<1> DEFINE p == Blank(IF page[b].at = "reset" THEN "reset" ELSE "home")
<1>1. page[b] \in Page /\ p \in Page /\ p.pc = "idle"
  BY DEF AccountsInv, PagesInv, AccountsTypeOK, Page, Blank
<1>2. tx[b].what # "provision"
  BY DEF SignedIn, AccountsInv, RolesInv, Legal, Ordered
<1>3. mistakes = 0 => page[b].who \in profiles
  BY <1>2 DEF SignedIn, AccountsInv, PagesInv, Attended
<1>4. RolesInv'
  BY RolesRest DEF SignedIn, AccountsInv
<1>5. /\ page' \in [Requests -> Page]
      /\ \A c \in Requests : page'[c] = IF c = b THEN p ELSE page[c]
  <2> HIDE DEF p
  <2>1. page' = [page EXCEPT ![b] = p]
    BY DEF SignedIn, Shows, p
  <2>2. page \in [Requests -> Page]
    BY DEF AccountsInv, PagesInv, AccountsTypeOK, Page
  <2> QED
    BY <1>1, <2>1, <2>2
<1>6. /\ session' \in [Requests -> Users \union {Anyone}]
      /\ \A c \in Requests : session'[c] = IF c = b THEN page[b].who ELSE session[c]
  BY <1>1 DEF SignedIn, AccountsInv, PagesInv, AccountsTypeOK, Page
<1>7. AccountsTypeOK'
  BY <1>5, <1>6 DEF SignedIn, AccountsInv, PagesInv, AccountsTypeOK, Page
<1>8. ASSUME NEW c \in Requests PROVE Attended(c)'
  <2> HIDE DEF p
  <2> QED
    BY <1>1, <1>3, <1>5, <1>6 DEF SignedIn, AccountsInv, PagesInv, Attended, roleVars
<1> QED
  BY <1>4, <1>7, <1>8 DEF AccountsInv, PagesInv

\* Everything else the pages do.
LEMMA OtherPages ==
  ASSUME AccountsInv, NEW b \in Requests,
         \/ PostFails(b) \/ UpdatePassword(b) \/ Logout(b)
         \/ \E at \in {"home", "forgot", "verify"} : Goto(b, at)
         \/ \E at \in {"login", "register", "verify", "forgot", "reset"} : Post(b, at)
         \/ \E u \in Users : Register(b, u) \/ ResendVerification(b, u) \/ ForgotPassword(b, u)
         \/ \E at \in {"login", "reset"} : BadLink(b, at)
         \/ \E area \in {"account", "seller", "admin", "login", "register"} : Open(b, area)
  PROVE  AccountsInv'
<1>1. /\ page[b] \in Page /\ account \in [Users -> {"none", "unverified", "verified"}]
      /\ mail \subseteq [user: Users, kind: {"signup", "recovery"}]
  BY DEF AccountsInv, PagesInv, AccountsTypeOK, Page
<1>2. ASSUME NEW p \in Page, Shows(b, p), p.pc # "signing in", UNCHANGED <<account, mail, roleVars>>,
             session' = session \/ SessionEnds(b)
      PROVE  AccountsInv'
  BY <1>1, <1>2, PageTurns
<1>3. \A at \in {"home", "login", "register", "verify", "forgot", "reset", "account", "seller", "admin", "missing"},
         note \in {"none", "error", "expired", "sent", "sign in"} :
        /\ Blank(at) \in Page /\ Blank(at).pc = "idle"
        /\ [Blank(at) EXCEPT !.note = note] \in Page /\ [Blank(at) EXCEPT !.note = note].pc = "idle"
  BY DEF Blank, Page
<1>4. CASE PostFails(b)
  <2>1. page[b].at \in {"home", "login", "register", "verify", "forgot", "reset", "account", "seller", "admin", "missing"}
    BY <1>1 DEF Page
  <2> QED
    BY <1>2, <1>3, <1>4, <2>1 DEF PostFails
<1>5. CASE UpdatePassword(b)
  <2> DEFINE p == [page[b] EXCEPT !.pc = "idle", !.note = IF PasswordUpdated(b) THEN "updated" ELSE "error"]
  <2>1. p \in Page /\ p.pc = "idle" /\ Shows(b, p)
    BY <1>1, <1>5 DEF UpdatePassword, Page
  <2> HIDE DEF p
  <2> QED
    BY <1>2, <1>5, <2>1 DEF UpdatePassword
<1>6. CASE Logout(b)
  BY <1>2, <1>3, <1>6 DEF Logout
<1>7. CASE \E at \in {"home", "forgot", "verify"} : Goto(b, at)
  BY <1>2, <1>3, <1>7 DEF Goto
<1>8. CASE \E at \in {"login", "register", "verify", "forgot", "reset"} : Post(b, at)
  <2> DEFINE p == [page[b] EXCEPT !.pc = "pending", !.note = "none"]
  <2>1. p \in Page /\ p.pc = "pending" /\ Shows(b, p)
    BY <1>1, <1>8 DEF Post, Page
  <2> HIDE DEF p
  <2> QED
    BY <1>2, <1>8, <2>1 DEF Post
<1>9. CASE \E u \in Users : Register(b, u) \/ ResendVerification(b, u) \/ ForgotPassword(b, u)
  <2>1. PICK u \in Users : Register(b, u) \/ ResendVerification(b, u) \/ ForgotPassword(b, u)
    BY <1>9
  <2>2. /\ account' \in [Users -> {"none", "unverified", "verified"}]
        /\ mail' \subseteq [user: Users, kind: {"signup", "recovery"}]
    BY <1>1, <2>1 DEF Register, ResendVerification, ForgotPassword, SignUp, Resend, RequestReset, Mailed
  <2>3. UNCHANGED <<session, roleVars>>
    BY <2>1 DEF Register, ResendVerification, ForgotPassword
  <2>4. \E p \in Page : Shows(b, p) /\ p.pc = "idle"
    BY <1>3, <2>1 DEF Register, ResendVerification, ForgotPassword
  <2> QED
    BY <2>2, <2>3, <2>4, PageTurns
<1>10. CASE \E at \in {"login", "reset"} : BadLink(b, at)
  BY <1>2, <1>3, <1>10 DEF BadLink
<1>11. CASE \E area \in {"account", "seller", "admin", "login", "register"} : Open(b, area)
  <2>1. PICK area \in {"account", "seller", "admin", "login", "register"} : Open(b, area)
    BY <1>11
  <2>2. Guarded(b, area) \in {[Blank("login") EXCEPT !.note = "sign in"], Blank("missing"), Blank(area)}
    BY DEF Guarded
  <2>3. Blank(area) \in Page /\ Blank(area).pc = "idle"
    BY <1>3, <2>1
  <2>4. Guarded(b, area) \in Page /\ Guarded(b, area).pc = "idle"
    BY <1>3, <2>2, <2>3
  <2>5. Shows(b, Blank(area)) \/ Shows(b, Guarded(b, area))
    BY <2>1 DEF Open
  <2>6. \E p \in Page : Shows(b, p) /\ p.pc = "idle"
    BY <2>3, <2>4, <2>5
  <2> QED
    BY <1>2, <2>1, <2>6 DEF Open
<1> QED
  BY <1>4, <1>5, <1>6, <1>7, <1>8, <1>9, <1>10, <1>11

-----------------------------------------------------------------------------

\* Nobody is signed in, and the trail is empty.
LEMMA InitAccountsInv == RolesInit /\ AccountsInit => AccountsInv
<1> SUFFICES ASSUME RolesInit, AccountsInit PROVE AccountsInv
  OBVIOUS
<1>1. AccountsTypeOK
  BY DEF AccountsInit, AccountsTypeOK, Blank
<1>2. \A b \in Requests : Attended(b)
  BY DEF AccountsInit, Attended, Blank
<1> QED
  BY <1>1, <1>2, InitRolesInv DEF AccountsInv, PagesInv

\* Every step of the pages and of the requests.
LEMMA StepAccountsInv == AccountsInv /\ [AccountsStep]_<<roleVars, accountVars>> => AccountsInv'
<1> SUFFICES ASSUME AccountsInv, [AccountsStep]_<<roleVars, accountVars>> PROVE AccountsInv'
  OBVIOUS
<1>1. CASE \E r \in Requests : (ProvisionProfile(r) \/ Mutation(r)) /\ UNCHANGED accountVars
  BY <1>1, RoleSteps, StillAttended DEF AccountsInv
<1>2. /\ account \in [Users -> {"none", "unverified", "verified"}]
      /\ mail \subseteq [user: Users, kind: {"signup", "recovery"}]
  BY DEF AccountsInv, PagesInv, AccountsTypeOK
<1>3. CASE \E b \in Requests, u \in Users : Login(b, u) \/ Google(b, u)
  <2>1. PICK b \in Requests, u \in Users : Login(b, u) \/ Google(b, u)
    BY <1>3
  <2>2. Provisions(b, u, "login") \/ Provisions(b, u, "home")
    BY <2>1 DEF Login, Google
  <2>3. account' \in [Users -> {"none", "unverified", "verified"}] /\ mail' = mail
    BY <1>2, <2>1 DEF Login, Google
  <2> QED
    BY <1>2, <2>2, <2>3, SignsIn
<1>4. CASE \E b \in Requests : \E link \in mail : FollowLink(b, link)
  <2>1. PICK b \in Requests : \E link \in mail : FollowLink(b, link)
    BY <1>4
  <2>2. PICK link \in mail : FollowLink(b, link)
    BY <2>1
  <2>3. link.user \in Users /\ link \in [user: Users, kind: {"signup", "recovery"}]
    BY <1>2
  <2>4. Provisions(b, link.user, "reset") \/ Provisions(b, link.user, "home")
    BY <2>2 DEF FollowLink
  <2>5. account' \in [Users -> {"none", "unverified", "verified"}] /\ mail' \subseteq mail
    BY <1>2, <2>2 DEF FollowLink
  <2> QED
    BY <1>2, <2>3, <2>4, <2>5, SignsIn
<1>5. CASE UNCHANGED <<roleVars, accountVars>>
  <2>1. RolesInv'
    BY <1>5, RolesRest DEF AccountsInv
  <2>2. Continued
    BY <1>5 DEF Continued, roleVars
  <2> QED
    BY <1>5, <2>1, <2>2, StillAttended DEF AccountsInv
<1> QED
  BY <1>1, <1>3, <1>4, <1>5, SignedInInv, OtherPages DEF AccountsStep, AuthStep, FollowMenu, Mutation

\* However many first sign-ins overlap, fail half-way or are repeated while admins give and
\* take roles: one profile, one buyer role, one entry for it.
THEOREM SignInsConverge == AccountsSpec => []ProvisioningConverges
<1>1. AccountsInv => ProvisioningConverges
  <2> SUFFICES ASSUME AccountsInv PROVE ProvisioningConverges
    OBVIOUS
  <2>1. ASSUME NEW u \in Users
        PROVE  /\ u \in profiles => <<u, "buyer">> \in granted \/ BuyerTaken(u) # {}
               /\ Cardinality(BuyerGiven(u)) <= 1 + Cardinality(BuyerTaken(u))
               /\ u \in profiles \ Founders => BuyerGiven(u) # {}
               /\ u \notin profiles => BuyerGiven(u) = {}
    <3>1. Cardinality(BuyerGiven(u)) \in Nat /\ Cardinality(BuyerTaken(u)) \in Nat
      BY EntriesFinite DEF BuyerGiven, BuyerTaken, AccountsInv, RolesInv, RolesTyped
    <3> QED
      BY <3>1 DEF AccountsInv, RolesInv, Traced, HasBuyer, Balanced
  <2>2. \A b \in Requests : session[b] # Anyone /\ mistakes = 0 => session[b] \in profiles
    BY DEF AccountsInv, PagesInv, Attended
  <2> QED
    BY <2>1, <2>2 DEF ProvisioningConverges, BuyerGiven, BuyerTaken
<1> QED
  BY <1>1, InitAccountsInv, StepAccountsInv, PTL DEF AccountsSpec

-----------------------------------------------------------------------------
(* The last admin *)

\* No admin is lost, and whoever took a step is safe.
LEMMA AdminsStay ==
  ASSUME CountsHold, NEW r \in Requests,
         \A u \in Users : <<u, "admin">> \in granted => <<u, "admin">> \in granted',
         \A q \in Requests \ {r} : tx'[q] = tx[q],
         CountHolds(r)'
  PROVE  CountsHold'
<1>1. LastAdminRemains'
  BY DEF CountsHold, LastAdminRemains
<1>2. ASSUME NEW q \in Requests \ {r} PROVE CountHolds(q)'
  <2>1. CountHolds(q) /\ tx'[q] = tx[q]
    BY DEF CountsHold
  <2>2. OtherAdmin(tx[q].user) => OtherAdmin(tx[q].user)'
    BY <2>1 DEF OtherAdmin
  <2> QED
    BY <2>1, <2>2 DEF CountHolds, Dethrones
<1> QED
  BY <1>1, <1>2 DEF CountsHold

\* A transaction whose next step takes no admin role away.
LEMMA Harmless ==
  ASSUME RolesInv, CountsHold, NEW r \in Requests, NEW t, Goes(r, t),
         ~(t.what = "revoke" /\ t.role = "admin" /\ t.pc \in {"count", "delete", "commit"})
  PROVE  CountsHold'
<1>1. \A q \in Requests : tx'[q] = IF q = r THEN t ELSE tx[q]
  BY DEF Goes, RolesInv, RolesTyped
<1>2. ~Dethrones(r)'
  BY <1>1 DEF Dethrones
<1>3. CountHolds(r)'
  BY <1>2 DEF CountHolds
<1> QED
  BY <1>1, <1>3, AdminsStay DEF Goes

\* Two admins or more: one besides any user.
LEMMA MoreThanOne ==
  ASSUME NEW user, LET admins == {u \in Users : <<u, "admin">> \in granted} IN ~(Cardinality(admins) <= 1)
  PROVE  OtherAdmin(user)
<1> DEFINE admins == {u \in Users : <<u, "admin">> \in granted}
<1> SUFFICES ASSUME ~OtherAdmin(user) PROVE Cardinality(admins) <= 1
  OBVIOUS
<1>1. admins \subseteq {user}
  BY DEF OtherAdmin
<1>2. IsFiniteSet({user}) /\ Cardinality({user}) = 1
  BY FS_Singleton
<1> HIDE DEF admins
<1>3. Cardinality(admins) <= Cardinality({user})
  BY <1>1, <1>2, FS_Subset
<1> QED
  BY <1>2, <1>3

\* The read: either the user is an admin and there is the count to come, or another is.
LEMMA ReadIsSafe ==
  ASSUME RolesInv, CountsHold, NEW r \in Requests, RevokeRead(r)
  PROVE  CountsHold'
<1> DEFINE t == [tx[r] EXCEPT !.previous = CurrentRoles(r, tx[r].user),
                              !.pc = IF tx[r].role = "admin" THEN "count" ELSE "delete"]
<1>1. tx[r] \in Tx /\ Legal(tx[r]) /\ tx[r].pc = "check"
  BY DEF RolesInv, RolesTyped, RevokeRead
<1>2. Visible(r) = granted
  BY <1>1 DEF Visible, Legal, Writing
<1>3. /\ t.user = tx[r].user /\ t.role = tx[r].role /\ t.previous = CurrentRoles(r, tx[r].user)
      /\ t.pc = IF tx[r].role = "admin" THEN "count" ELSE "delete"
  BY <1>1 DEF Tx
<1>4. Goes(r, t)
  BY DEF RevokeRead
<1> HIDE DEF t
<1>5. \A q \in Requests : tx'[q] = IF q = r THEN t ELSE tx[q]
  BY <1>4 DEF Goes, RolesInv, RolesTyped
<1>6. "admin" \in t.previous \/ OtherAdmin(tx[r].user)
  BY <1>2, <1>3 DEF CurrentRoles, ROLES, OtherAdmin, CountsHold, LastAdminRemains
<1>7. OtherAdmin(tx[r].user)' <=> OtherAdmin(tx[r].user)
  <2>1. granted' = granted /\ tx'[r].user = tx[r].user
    BY <1>3, <1>4, <1>5 DEF Goes
  <2> QED
    BY <2>1 DEF OtherAdmin
<1>8. CountHolds(r)'
  BY <1>3, <1>5, <1>6, <1>7 DEF CountHolds, Dethrones
<1> QED
  BY <1>4, <1>5, <1>8, AdminsStay DEF Goes

\* The count and the delete change nothing yet.
LEMMA CountIsSafe ==
  ASSUME RolesInv, CountsHold, NEW r \in Requests, RevokeCount(r) \/ DeleteRole(r)
  PROVE  CountsHold'
<1>1. tx[r] \in Tx /\ Legal(tx[r])
  BY DEF RolesInv, RolesTyped
<1>2. CASE Goes(r, TxIdle)
  <2>1. TxIdle.what # "revoke"
    BY DEF TxIdle
  <2> QED
    BY <1>2, <2>1, Harmless
<1>3. ASSUME NEW t, Goes(r, t), t.user = tx[r].user, t.role = tx[r].role, t.pc # "count",
             tx[r].role = "admin" => OtherAdmin(tx[r].user)
      PROVE  CountsHold'
  <2>1. \A q \in Requests : tx'[q] = IF q = r THEN t ELSE tx[q]
    BY <1>3 DEF Goes, RolesInv, RolesTyped
  <2>2. OtherAdmin(tx[r].user)' <=> OtherAdmin(tx[r].user)
    <3>1. granted' = granted /\ tx'[r].user = tx[r].user
      BY <1>3, <2>1 DEF Goes
    <3> QED
      BY <3>1 DEF OtherAdmin
  <2>3. CountHolds(r)'
    BY <1>3, <2>1, <2>2 DEF CountHolds, Dethrones
  <2> QED
    BY <1>3, <2>1, <2>3, AdminsStay DEF Goes
<1>4. CASE RevokeCount(r) /\ Goes(r, [tx[r] EXCEPT !.pc = "delete"]) /\ ~Goes(r, TxIdle)
  <2> DEFINE t == [tx[r] EXCEPT !.pc = "delete"]
  <2>1. t.user = tx[r].user /\ t.role = tx[r].role /\ t.pc = "delete"
    BY <1>1 DEF Tx
  <2>2. tx[r].pc = "count" /\ tx[r].what = "revoke"
    BY <1>1, <1>4 DEF RevokeCount, Legal, Ordered
  <2>3. tx[r].role = "admin" => OtherAdmin(tx[r].user)
    <3>1. CASE "admin" \in tx[r].previous
      <4>1. ~(Cardinality({u \in Users : <<u, "admin">> \in granted}) <= 1)
        BY <1>4, <3>1 DEF RevokeCount
      <4> QED
        BY <4>1, MoreThanOne
    <3>2. CASE "admin" \notin tx[r].previous
      BY <2>2, <3>2 DEF CountsHold, CountHolds, Dethrones
    <3> QED
      BY <3>1, <3>2
  <2>4. Goes(r, t)
    BY <1>4
  <2> HIDE DEF t
  <2> QED
    BY <1>3, <2>1, <2>3, <2>4
<1>5. CASE DeleteRole(r)
  <2> DEFINE t == [tx[r] EXCEPT !.pc = "commit", !.deletes = {Row(r)} \intersect granted]
  <2>1. t.user = tx[r].user /\ t.role = tx[r].role /\ t.pc = "commit"
    BY <1>1 DEF Tx
  <2>2. tx[r].pc = "delete" /\ tx[r].what = "revoke"
    BY <1>1, <1>5 DEF DeleteRole, Legal, Ordered
  <2>3. tx[r].role = "admin" => OtherAdmin(tx[r].user)
    BY <2>2 DEF CountsHold, CountHolds, Dethrones
  <2>4. Goes(r, t)
    BY <1>5 DEF DeleteRole
  <2> HIDE DEF t
  <2> QED
    BY <1>3, <2>1, <2>3, <2>4
<1> QED
  BY <1>2, <1>4, <1>5 DEF RevokeCount

\* A commit takes the role from one user, while nobody else takes it from another.
LEMMA CommitIsSafe ==
  ASSUME RolesInv, CountsHold, ~RevocationsOverlap, NEW r \in Requests, tx[r].pc = "commit", CommitTx(r)
  PROVE  CountsHold'
<1>1. /\ tx[r] \in Tx /\ Legal(tx[r])
      /\ \A q \in Requests : tx'[q] = IF q = r THEN TxIdle ELSE tx[q]
      /\ tx[r].what = "revoke" => granted' = granted \ tx[r].deletes
      /\ tx[r].what # "revoke" => granted' = granted \union tx[r].inserts
  BY CommitRows
<1>2. CountHolds(r)'
  BY <1>1 DEF CountHolds, Dethrones, TxIdle
<1>3. CASE \A u \in Users : <<u, "admin">> \in granted => <<u, "admin">> \in granted'
  BY <1>1, <1>2, <1>3, AdminsStay
<1>4. CASE ~ \A u \in Users : <<u, "admin">> \in granted => <<u, "admin">> \in granted'
  <2>1. tx[r].what = "revoke" /\ tx[r].deletes = {<<tx[r].user, tx[r].role>>} /\ tx[r].role = "admin"
    BY <1>1, <1>4 DEF Legal, Writing
  <2>2. Dethrones(r)
    BY <2>1 DEF Dethrones
  <2>3. PICK v \in Users \ {tx[r].user} : <<v, "admin">> \in granted
    BY <2>2 DEF CountsHold, CountHolds, OtherAdmin
  <2>4. <<v, "admin">> \in granted'
    BY <1>1, <2>1, <2>3
  <2>5. ASSUME NEW q \in Requests \ {r} PROVE CountHolds(q)'
    <3>1. ~Dethrones(q)
      BY <2>2 DEF RevocationsOverlap
    <3>2. ~Dethrones(q)'
      BY <1>1, <3>1 DEF Dethrones
    <3> QED
      BY <3>2 DEF CountHolds
  <2> QED
    BY <1>2, <2>4, <2>5 DEF CountsHold, LastAdminRemains
<1> QED
  BY <1>3, <1>4

\* The other steps of a request.
LEMMA RequestIsSafe ==
  ASSUME RolesInv, CountsHold, ~RevocationsOverlap, NEW r \in Requests, ProvisionProfile(r) \/ Mutation(r)
  PROVE  CountsHold'
<1>1. tx[r] \in Tx /\ Legal(tx[r])
  BY DEF RolesInv, RolesTyped
<1>2. TxIdle.what = "none"
  BY DEF TxIdle
<1>3. CASE \E actor, user \in Users, role \in ROLES :
             BeginGrant(r, actor, user, role) \/ BeginRevoke(r, actor, user, role)
  <2>1. PICK actor \in Users, user \in Users, role \in ROLES :
           BeginGrant(r, actor, user, role) \/ BeginRevoke(r, actor, user, role)
    BY <1>3
  <2> DEFINE grant == [TxIdle EXCEPT !.pc = "read", !.what = "grant", !.user = user, !.role = role, !.actor = actor]
             revoke == [TxIdle EXCEPT !.pc = "check", !.what = "revoke", !.user = user, !.role = role, !.actor = actor]
  <2>2. \E t : Goes(r, t) /\ t.pc \in {"read", "check"}
    <3>1. grant.pc = "read" /\ revoke.pc = "check"
      BY DEF TxIdle
    <3>2. Goes(r, grant) \/ Goes(r, revoke)
      BY <2>1 DEF BeginGrant, BeginRevoke
    <3> HIDE DEF grant, revoke
    <3> QED
      BY <3>1, <3>2
  <2> QED
    BY <2>2, Harmless
<1>4. CASE ProvisionProfile(r) \/ GrantRead(r) \/ InsertRole(r)
  <2>1. tx[r].what # "revoke"
    BY <1>1, <1>4 DEF ProvisionProfile, GrantRead, InsertRole, Legal, Ordered
  <2>2. \E t : Goes(r, t) /\ t.what # "revoke"
    <3>1. CASE ProvisionProfile(r)
      <4>1. Goes(r, [tx[r] EXCEPT !.pc = "insert", !.profile = {tx[r].user} \ profiles])
        BY <3>1 DEF ProvisionProfile
      <4>2. [tx[r] EXCEPT !.pc = "insert", !.profile = {tx[r].user} \ profiles].what = tx[r].what
        BY <1>1 DEF Tx
      <4> QED
        BY <2>1, <4>1, <4>2
    <3>2. CASE GrantRead(r)
      <4>1. \/ Goes(r, TxIdle)
            \/ Goes(r, [tx[r] EXCEPT !.pc = "insert", !.previous = CurrentRoles(r, tx[r].user)])
        BY <3>2 DEF GrantRead
      <4>2. [tx[r] EXCEPT !.pc = "insert", !.previous = CurrentRoles(r, tx[r].user)].what = tx[r].what
        BY <1>1 DEF Tx
      <4> QED
        BY <1>2, <2>1, <4>1, <4>2
    <3>3. CASE InsertRole(r)
      <4>1. Goes(r, [tx[r] EXCEPT !.pc = "commit", !.inserts = {Row(r)} \ granted])
        BY <3>3 DEF InsertRole
      <4>2. [tx[r] EXCEPT !.pc = "commit", !.inserts = {Row(r)} \ granted].what = tx[r].what
        BY <1>1 DEF Tx
      <4> QED
        BY <2>1, <4>1, <4>2
    <3> QED
      BY <1>4, <3>1, <3>2, <3>3
  <2> QED
    BY <2>2, Harmless
<1>5. CASE TxFails(r) /\ tx' = [tx EXCEPT ![r] = TxIdle] /\ UNCHANGED <<profiles, granted, audit>>
  <2>1. \A q \in Requests : tx'[q] = IF q = r THEN TxIdle ELSE tx[q]
    BY <1>5 DEF RolesInv, RolesTyped
  <2>2. CountHolds(r)'
    BY <1>2, <2>1 DEF CountHolds, Dethrones
  <2> QED
    BY <1>5, <2>1, <2>2, AdminsStay
<1>6. CASE tx[r].pc = "commit" /\ CommitTx(r)
  BY <1>6, CommitIsSafe
<1> QED
  BY <1>3, <1>4, <1>5, <1>6, ReadIsSafe, CountIsSafe DEF Mutation, Commit, TxFails

\* Whatever else happens leaves the roles alone.
LEMMA StepKeepsAdmins ==
  AccountsInv /\ CountsHold /\ ~RevocationsOverlap /\ [AccountsStep]_<<roleVars, accountVars>> => CountsHold'
<1> SUFFICES ASSUME AccountsInv, CountsHold, ~RevocationsOverlap, [AccountsStep]_<<roleVars, accountVars>>
             PROVE  CountsHold'
  OBVIOUS
<1>1. CASE \E r \in Requests : ProvisionProfile(r) \/ Mutation(r)
  BY <1>1, RequestIsSafe DEF AccountsInv
<1>2. CASE \E b \in Requests, u \in Users, at \in {"login", "home", "reset"} : Provisions(b, u, at)
  <2>1. PICK b \in Requests, u \in Users : BeginProvision(b, u)
    BY <1>2 DEF Provisions
  <2>2. [TxIdle EXCEPT !.pc = "profile", !.what = "provision", !.user = u].what # "revoke"
    BY DEF TxIdle
  <2> QED
    BY <2>1, <2>2, Harmless DEF BeginProvision, AccountsInv
<1>3. CASE UNCHANGED roleVars
  BY <1>3 DEF CountsHold, LastAdminRemains, CountHolds, Dethrones, OtherAdmin, roleVars
<1>4. mail \subseteq [user: Users, kind: {"signup", "recovery"}]
  BY DEF AccountsInv, PagesInv, AccountsTypeOK
<1>5. CASE \E b \in Requests, u \in Users : Login(b, u) \/ Google(b, u)
  BY <1>2, <1>5 DEF Login, Google
<1>6. CASE \E b \in Requests : \E link \in mail : FollowLink(b, link)
  <2>1. PICK b \in Requests : \E link \in mail : FollowLink(b, link)
    BY <1>6
  <2>2. PICK link \in mail : FollowLink(b, link)
    BY <2>1
  <2>3. link.user \in Users
    BY <1>4
  <2>4. Provisions(b, link.user, "reset") \/ Provisions(b, link.user, "home")
    BY <2>2 DEF FollowLink
  <2> QED
    BY <1>2, <2>3, <2>4
<1>7. CASE \E b \in Requests :
             \/ PostFails(b) \/ UpdatePassword(b) \/ SignedIn(b) \/ Logout(b)
             \/ \E at \in {"home", "forgot", "verify"} : Goto(b, at)
             \/ \E at \in {"login", "register", "verify", "forgot", "reset"} : Post(b, at)
             \/ \E u \in Users : Register(b, u) \/ ResendVerification(b, u) \/ ForgotPassword(b, u)
             \/ \E at \in {"login", "reset"} : BadLink(b, at)
             \/ \E area \in {"account", "seller", "admin", "login", "register"} : Open(b, area)
  <2>1. UNCHANGED roleVars
    BY <1>7 DEF PostFails, UpdatePassword, SignedIn, Logout, Goto, Post, Register, ResendVerification,
                ForgotPassword, BadLink, Open
  <2> QED
    BY <1>3, <2>1
<1> QED
  BY <1>1, <1>3, <1>5, <1>6, <1>7 DEF AccountsStep, AuthStep, FollowMenu, Mutation, accountVars

\* Where the last admin can get lost: nowhere but at the commit of a revocation while
\* another one of the admin role is between its read and its commit.  Until then a system
\* that began with an admin has one, and every revocation leaves one behind, however admins
\* give and take roles while users sign in, fail and try again.
THEOREM LastAdminIsLostOnlyByOverlap ==
  ASSUME Founders # {}
  PROVE  AccountsSpec => /\ CountsHold
                         /\ [][CountsHold => CountsHold' \/ RevocationsOverlap]_<<roleVars, accountVars>>
<1>1. RolesInit => CountsHold
  <2> SUFFICES ASSUME RolesInit PROVE CountsHold
    OBVIOUS
  <2>1. LastAdminRemains
    BY RolesAssumption DEF RolesInit, LastAdminRemains
  <2>2. \A r \in Requests : CountHolds(r)
    BY DEF RolesInit, TxIdle, CountHolds, Dethrones
  <2> QED
    BY <2>1, <2>2 DEF CountsHold
<1>2. AccountsInv /\ [AccountsStep]_<<roleVars, accountVars>>
        => [CountsHold => CountsHold' \/ RevocationsOverlap]_<<roleVars, accountVars>>
  BY StepKeepsAdmins DEF CountsHold
<1> QED
  BY <1>1, <1>2, InitAccountsInv, StepAccountsInv, PTL DEF AccountsSpec

-----------------------------------------------------------------------------
(* Hearts *)

Button == [ pc: {"none", "loading", "idle", "check", "create", "delete"}, shown: BOOLEAN, fresh: BOOLEAN ]

\* What a heart shows is the row, or what its request is about to make of it.
HeartSound(b, written) ==
    /\ b.pc \in {"check", "create"} => b.shown
    /\ b.pc = "delete" => ~b.shown
    /\ b.fresh /\ b.pc # "none" => (b.shown <=> IF b.pc \in {"loading", "idle"} THEN written ELSE ~written)

HeartsInv == SavedTypeOK /\ \A h \in Hearts : HeartSound(heart[h], saved)

\* One button changes and the row does not.
LEMMA ButtonMoves ==
  ASSUME HeartsInv, NEW h \in Hearts, NEW b \in Button, heart' = [heart EXCEPT ![h] = b],
         saved' = saved, onShow' \in BOOLEAN, HeartSound(b, saved)
  PROVE  HeartsInv'
<1>1. heart \in [Hearts -> Button]
  BY DEF HeartsInv, SavedTypeOK, Button
<1>2. heart' \in [Hearts -> Button] /\ \A k \in Hearts : heart'[k] = IF k = h THEN b ELSE heart[k]
  BY <1>1
<1>3. \A k \in Hearts : HeartSound(heart'[k], saved')
  BY <1>2 DEF HeartsInv
<1> QED
  BY <1>2, <1>3 DEF HeartsInv, SavedTypeOK, Button

\* The row is written: the others are outdated unless it stays what it was.
LEMMA RowWritten ==
  ASSUME HeartsInv, NEW h \in Hearts, NEW b \in Button, NEW written \in BOOLEAN,
         Writes(h, written, b), onShow' = onShow, HeartSound(b, written)
  PROVE  HeartsInv'
<1>1. heart \in [Hearts -> Button] /\ saved \in BOOLEAN
  BY DEF HeartsInv, SavedTypeOK, Button
<1>2. /\ saved' = written
      /\ \A k \in Hearts : heart'[k] = IF k = h THEN b ELSE [heart[k] EXCEPT !.fresh = @ /\ written = saved]
      /\ heart' = [k \in Hearts |-> heart'[k]]
  BY DEF Writes
<1>3. ASSUME NEW k \in Hearts, k # h
      PROVE  /\ heart'[k] \in Button
             /\ heart'[k].pc = heart[k].pc /\ heart'[k].shown = heart[k].shown
             /\ heart'[k].fresh = (heart[k].fresh /\ written = saved)
  BY <1>1, <1>2, <1>3 DEF Button
<1>4. heart' \in [Hearts -> Button]
  <2>1. \A k \in Hearts : heart'[k] \in Button
    BY <1>2, <1>3
  <2> QED
    BY <1>2, <2>1
<1>5. ASSUME NEW k \in Hearts
      PROVE  HeartSound(heart'[k], saved')
  <2>1. CASE k = h
    BY <1>2, <2>1
  <2>2. CASE k # h
    <3>1. HeartSound(heart[k], saved)
      BY DEF HeartsInv
    <3> QED
      BY <1>1, <1>2, <1>3, <2>2, <3>1 DEF HeartSound
  <2> QED
    BY <2>1, <2>2
<1> QED
  BY <1>1, <1>2, <1>4, <1>5 DEF HeartsInv, SavedTypeOK, Button

\* Every step of a heart keeps it sound.
LEMMA HeartStepInv == HeartsInv /\ HeartStep => HeartsInv'
<1> SUFFICES ASSUME HeartsInv, HeartStep PROVE HeartsInv'
  OBVIOUS
<1>0. saved \in BOOLEAN /\ onShow \in BOOLEAN /\ NoHeart \in Button /\ HeartSound(NoHeart, saved) /\ HeartSound(NoHeart, ~saved)
      /\ HeartSound(NoHeart, TRUE) /\ HeartSound(NoHeart, FALSE)
  BY DEF HeartsInv, SavedTypeOK, NoHeart, Button, HeartSound
<1>1. CASE ListingShown
  BY <1>0, <1>1 DEF ListingShown, HeartsInv, SavedTypeOK
<1>2. ASSUME NEW h \in Hearts,
             \/ OpenCards(h) \/ OpenSavedPage(h) \/ Arrives(h) \/ Toggle(h)
             \/ SaveCheck(h) \/ SaveCreate(h) \/ Unsave(h)
             \/ WriteRefused(h) \/ WrittenYetRefused(h) \/ HeartLost(h)
      PROVE  HeartsInv'
  <2>0. heart[h] \in Button /\ HeartSound(heart[h], saved) /\ heart \in [Hearts -> Button]
    BY DEF HeartsInv, SavedTypeOK, Button
  <2>1. CASE OpenCards(h) \/ OpenSavedPage(h)
    <3> DEFINE b == [pc |-> "loading", shown |-> saved, fresh |-> TRUE]
    <3>1. b \in Button /\ HeartSound(b, saved)
      BY <1>0 DEF Button, HeartSound
    <3>2. heart' = [heart EXCEPT ![h] = b] /\ saved' = saved /\ onShow' \in BOOLEAN
      <4>1. CASE OpenCards(h)
        BY <1>0, <4>1 DEF OpenCards, Render, SavedState
      <4>2. CASE OpenSavedPage(h)
        <5>1. saved = TRUE
          BY <1>0, <4>2 DEF OpenSavedPage, ListedAsSaved
        <5> QED
          BY <1>0, <4>2, <5>1 DEF OpenSavedPage, Render
      <4> QED
        BY <2>1, <4>1, <4>2
    <3> HIDE DEF b
    <3> QED
      BY <3>1, <3>2, ButtonMoves
  <2>2. CASE Arrives(h)
    <3> DEFINE b == [heart[h] EXCEPT !.pc = "idle"]
    <3>1. b \in Button /\ HeartSound(b, saved)
      BY <2>0, <2>2 DEF Arrives, Button, HeartSound
    <3>2. heart' = [heart EXCEPT ![h] = b] /\ saved' = saved /\ onShow' \in BOOLEAN
      BY <1>0, <2>0, <2>2 DEF Arrives
    <3> HIDE DEF b
    <3> QED
      BY <3>1, <3>2, ButtonMoves
  <2>3. CASE Toggle(h)
    <3> DEFINE b == [heart[h] EXCEPT !.pc = IF heart[h].shown THEN "delete" ELSE "check", !.shown = ~@]
    <3>1. b \in Button /\ HeartSound(b, saved)
      BY <1>0, <2>0, <2>3 DEF Toggle, Button, HeartSound
    <3>2. heart' = [heart EXCEPT ![h] = b] /\ saved' = saved /\ onShow' \in BOOLEAN
      BY <1>0, <2>0, <2>3 DEF Toggle
    <3> HIDE DEF b
    <3> QED
      BY <3>1, <3>2, ButtonMoves
  <2>4. CASE heart[h].pc \in {"check", "create", "delete"} /\ heart' = [heart EXCEPT ![h] = Reverted(h)]
             /\ saved' = saved /\ onShow' = onShow
    <3>1. Reverted(h) \in Button /\ HeartSound(Reverted(h), saved)
      BY <1>0, <2>0, <2>4 DEF Reverted, Button, HeartSound
    <3> QED
      BY <1>0, <2>4, <3>1, ButtonMoves
  <2>5. CASE SaveCheck(h) /\ onShow
    <3> DEFINE b == [heart[h] EXCEPT !.pc = "create"]
    <3>1. b \in Button /\ HeartSound(b, saved)
      BY <1>0, <2>0, <2>5 DEF SaveCheck, Button, HeartSound
    <3>2. heart' = [heart EXCEPT ![h] = b] /\ saved' = saved /\ onShow' \in BOOLEAN
      BY <1>0, <2>0, <2>5 DEF SaveCheck
    <3> HIDE DEF b
    <3> QED
      BY <3>1, <3>2, ButtonMoves
  <2>6. CASE SaveCreate(h) \/ Unsave(h)
    <3> DEFINE b == [heart[h] EXCEPT !.pc = "idle", !.fresh = TRUE]
               written == heart[h].pc = "create"
    <3>1. b \in Button /\ HeartSound(b, written) /\ written \in BOOLEAN
      BY <2>0, <2>6 DEF SaveCreate, Unsave, Button, HeartSound
    <3>2. Writes(h, written, b) /\ onShow' = onShow
      BY <2>6 DEF SaveCreate, Unsave
    <3> HIDE DEF b, written
    <3> QED
      BY <3>1, <3>2, RowWritten
  <2>7. CASE WrittenYetRefused(h)
    <3> DEFINE b == [Reverted(h) EXCEPT !.fresh = FALSE]
               written == heart[h].pc = "create"
    <3>1. b \in Button /\ HeartSound(b, written) /\ written \in BOOLEAN
      BY <2>0, <2>7 DEF WrittenYetRefused, Reverted, Button, HeartSound
    <3>2. Writes(h, written, b) /\ onShow' = onShow
      BY <2>7 DEF WrittenYetRefused
    <3> HIDE DEF b, written
    <3> QED
      BY <3>1, <3>2, RowWritten
  <2>8. CASE HeartLost(h)
    <3> DEFINE written == heart[h].pc = "create"
    <3>1. written \in BOOLEAN /\ HeartSound(NoHeart, written)
      BY DEF NoHeart, HeartSound
    <3>2. Writes(h, saved, NoHeart) \/ Writes(h, written, NoHeart)
      BY <2>8 DEF HeartLost
    <3>3. onShow' = onShow
      BY <2>8 DEF HeartLost
    <3> HIDE DEF written
    <3> QED
      BY <1>0, <3>1, <3>2, <3>3, RowWritten
  <2> QED
    BY <1>2, <2>1, <2>2, <2>3, <2>4, <2>5, <2>6, <2>7, <2>8 DEF SaveCheck, WriteRefused
<1> QED
  BY <1>1, <1>2 DEF HeartStep

\* However many hearts there are, what each shows is sound throughout.
LEMMA HeartsInvariant == SavedSpec => []HeartsInv
<1>1. SavedInit => HeartsInv
  <2>1. NoHeart \in Button /\ HeartSound(NoHeart, FALSE)
    BY DEF NoHeart, Button, HeartSound
  <2> QED
    BY <2>1 DEF SavedInit, HeartsInv, SavedTypeOK, Button
<1>2. HeartsInv /\ [HeartStep]_savedVars => HeartsInv'
  <2>1. HeartsInv /\ UNCHANGED savedVars => HeartsInv'
    BY DEF HeartsInv, SavedTypeOK, savedVars
  <2> QED
    BY <2>1, HeartStepInv
<1> QED
  BY <1>1, <1>2, PTL DEF SavedSpec

\* A heart at rest shows the row, whatever was refused or hidden, however many hearts
\* there are, unless another one changed the row or a failure was false.
THEOREM HeartsTellTruth == SavedSpec => []HeartTellsTruth
<1>1. HeartsInv => HeartTellsTruth
  <2> SUFFICES ASSUME HeartsInv, NEW h \in Hearts, heart[h].pc = "idle", heart[h].fresh
               PROVE  heart[h].shown = saved
    BY DEF HeartTellsTruth
  <2>1. heart[h].shown \in BOOLEAN /\ saved \in BOOLEAN
    BY DEF HeartsInv, SavedTypeOK
  <2>2. heart[h].shown <=> saved
    BY DEF HeartsInv, HeartSound
  <2> QED
    BY <2>1, <2>2
<1> QED
  BY <1>1, HeartsInvariant, PTL

-----------------------------------------------------------------------------
(* The limiter: logs and their totals *)

Logs == [Moments -> 0..Limit]

\* A log has finitely many timestamps.
LEMMA StampsFinite ==
  ASSUME NEW log
  PROVE  IsFiniteSet(Stamps(log)) /\ Total(log) \in Nat
<1>1. IsFiniteSet(Moments) /\ IsFiniteSet(1..Limit)
  BY GateAssumption, FS_Interval DEF Moments
<1>2. IsFiniteSet(Moments \X (1..Limit))
  BY <1>1, FS_Product
<1>3. Stamps(log) \in SUBSET (Moments \X (1..Limit))
  BY DEF Stamps
<1> QED
  BY <1>2, <1>3, FS_Subset, FS_CardinalityType DEF Total

\* A log with less at every moment has a smaller total, and an equal total only if it
\* has the same timestamps.
LEMMA TotalIsMonotone ==
  ASSUME NEW a \in Logs, NEW b \in Logs, \A t \in Moments : a[t] <= b[t]
  PROVE  Total(a) <= Total(b) /\ (Total(a) = Total(b) => Stamps(a) = Stamps(b))
<1>1. \A t \in Moments, k \in 1..Limit : k <= a[t] => k <= b[t]
  <2>1. \A t \in Moments : a[t] \in Int /\ b[t] \in Int
    BY DEF Logs
  <2> QED
    BY <2>1
<1>2. Stamps(a) \subseteq Stamps(b)
  BY <1>1 DEF Stamps
<1> QED
  BY <1>2, StampsFinite, FS_Subset DEF Total

\* No moment holds more than all of them.
LEMMA MomentWithinTotal ==
  ASSUME NEW log \in Logs, NEW t \in Moments
  PROVE  log[t] <= Total(log)
<1> DEFINE n == log[t]
           f == [k \in 1..n |-> <<t, k>>]
<1>1. n \in 0..Limit /\ Limit \in Nat
  BY GateAssumption DEF Logs
<1>2. \A k \in 1..n : <<t, k>> \in Stamps(log)
  BY <1>1 DEF Stamps
<1>3. f \in Injection(1..n, Stamps(log))
  BY <1>2 DEF Injection, IsInjective
<1>4. Cardinality(1..n) <= Cardinality(Stamps(log))
  BY <1>3, StampsFinite, FS_Injection
<1>5. Cardinality(1..n) = n
  BY <1>1, FS_Interval
<1> QED
  BY <1>4, <1>5 DEF Total

\* One timestamp more.
LEMMA OneMore ==
  ASSUME NEW log \in Logs, NEW t \in Moments, log[t] < Limit
  PROVE  /\ [log EXCEPT ![t] = @ + 1] \in Logs
         /\ Total([log EXCEPT ![t] = @ + 1]) = Total(log) + 1
<1> DEFINE more == [log EXCEPT ![t] = @ + 1]
<1>1. log[t] \in 0..Limit /\ Limit \in Nat /\ \A u \in Moments : log[u] \in Int
  BY GateAssumption DEF Logs
<1>2. more \in Logs /\ more[t] = log[t] + 1 /\ \A u \in Moments \ {t} : more[u] = log[u]
  BY <1>1 DEF Logs
<1> HIDE DEF more
<1>3. Stamps(more) = Stamps(log) \union {<<t, log[t] + 1>>}
  <2>1. \A u \in Moments, k \in 1..Limit :
           k <= more[u] <=> k <= log[u] \/ (u = t /\ k = log[t] + 1)
    BY <1>1, <1>2
  <2>2. log[t] + 1 \in 1..Limit
    BY <1>1
  <2>3. \A x \in Moments \X (1..Limit) : x[2] <= more[x[1]] <=> x[2] <= log[x[1]] \/ x = <<t, log[t] + 1>>
    BY <2>1
  <2>4. <<t, log[t] + 1>> \in Moments \X (1..Limit)
    BY <2>2
  <2> QED
    BY <2>3, <2>4 DEF Stamps
<1>4. <<t, log[t] + 1>> \notin Stamps(log)
  BY <1>1 DEF Stamps
<1>5. Total(more) = Total(log) + 1
  BY <1>3, <1>4, StampsFinite, FS_AddElement DEF Total
<1> QED
  BY <1>2, <1>5 DEF more

\* A window of a log.
LEMMA LiveLog ==
  ASSUME NEW log \in Logs, NEW at \in Int
  PROVE  /\ Live(log, at) \in Logs
         /\ \A t \in Moments : Live(log, at)[t] = IF t > at - Window THEN log[t] ELSE 0
         /\ \A t \in Moments : Live(log, at)[t] <= log[t]
<1>1. \A t \in Moments : log[t] \in 0..Limit
  BY DEF Logs
<1>2. 0 \in 0..Limit
  BY GateAssumption
<1>3. \A t \in Moments : Live(log, at)[t] = IF t > at - Window THEN log[t] ELSE 0
  BY DEF Live
<1>4. Live(log, at) \in Logs
  BY <1>1, <1>2 DEF Live, Logs
<1>5. \A t \in Moments : Live(log, at)[t] <= log[t]
  BY <1>1, <1>3
<1> QED
  BY <1>3, <1>4, <1>5

\* Two logs that agree within a window have the same window.
LEMMA SameWindow ==
  ASSUME NEW a, NEW b, NEW at, \A t \in Moments : t > at - Window => a[t] = b[t]
  PROVE  Live(a, at) = Live(b, at)
  BY DEF Live

\* The first moment of a log that holds something.
LEMMA OldestStamp ==
  ASSUME NEW log \in Logs, Total(log) > 0
  PROVE  Min({t \in Moments : log[t] > 0}) \in Moments /\ log[Min({t \in Moments : log[t] > 0})] > 0
<1> DEFINE stamps == {t \in Moments : log[t] > 0}
<1>1. stamps # {}
  <2>1. Stamps(log) # {}
    BY FS_EmptySet DEF Total
  <2>2. PICK x \in Moments \X (1..Limit) : x[2] <= log[x[1]]
    BY <2>1 DEF Stamps
  <2>3. x[1] \in Moments /\ x[2] \in 1..Limit /\ log[x[1]] \in Int
    BY <2>2, GateAssumption DEF Logs
  <2>4. log[x[1]] > 0
    BY <2>2, <2>3, GateAssumption
  <2> QED
    BY <2>3, <2>4
<1>2. stamps \in SUBSET Nat
  BY GateAssumption DEF Moments
<1> HIDE DEF stamps
<1> DEFINE less == {ss \in Nat \X Nat : ss[1] < ss[2]}
<1>3. IsWellFoundedOn(less, Nat)
  BY NatLessThanWellFounded DEF OpToRel
<1>4. \E x \in stamps : \A y \in stamps : x <= y
  <2> HIDE DEF less
  <2>1. PICK x \in stamps : \A y \in stamps : <<y, x>> \notin less
    BY <1>1, <1>2, <1>3, WFMin
  <2>2. \A y \in stamps : ~(y < x)
    BY <1>2, <2>1 DEF less
  <2> QED
    BY <1>2, <2>2
<1>5. Min(stamps) \in stamps
  BY <1>4 DEF Min
<1> QED
  BY <1>5 DEF stamps

-----------------------------------------------------------------------------
(* The limiter: what the store remembers *)

\* The store and what really passed: nothing lies in the future, the two agree within the
\* window that ends now, no window holds more than the limit, and the last answer was
\* right when it was given.
GateInv ==
  /\ clock \in Moments
  /\ hits \in [Identities -> Logs]
  /\ passed \in [Identities -> Logs]
  /\ \A i \in Identities, t \in Moments : t > clock => hits[i][t] = 0 /\ passed[i][t] = 0
  /\ \A i \in Identities, t \in Moments : t > clock - Window => hits[i][t] = passed[i][t]
  /\ \A i \in Identities : Total(Live(hits[i], clock)) <= Limit
  /\ verdict.allowed <=> verdict.before < Limit
  /\ ~verdict.allowed =>
       /\ verdict.who \in Identities
       /\ verdict.resetAt \in Int
       /\ clock >= verdict.resetAt \/ Total(Live(hits[verdict.who], verdict.resetAt)) < Limit

\* A log of nothing.
LEMMA EmptyLog ==
  /\ Nothing \in Logs
  /\ \A t \in Moments : Nothing[t] = 0
  /\ \A at \in Int : Total(Live(Nothing, at)) = 0
<1>1. Nothing \in Logs /\ \A t \in Moments : Nothing[t] = 0
  BY GateAssumption DEF Nothing, Logs
<1>2. ASSUME NEW at \in Int PROVE Total(Live(Nothing, at)) = 0
  <2>1. \A t \in Moments : Live(Nothing, at)[t] = 0
    BY <1>1 DEF Live
  <2>2. Stamps(Live(Nothing, at)) = {}
    BY <2>1 DEF Stamps
  <2> QED
    BY <2>2, FS_EmptySet DEF Total
<1> QED
  BY <1>1, <1>2

\* A store with nothing in it.
GateIsEmpty ==
  /\ clock \in Moments
  /\ hits = [i \in Identities |-> Nothing]
  /\ passed = [i \in Identities |-> Nothing]
  /\ verdict = NoVerdict

\* A new process knows nothing, and that is the truth.
LEMMA GateStartsEmpty == GateIsEmpty => GateInv
<1> SUFFICES ASSUME GateIsEmpty PROVE GateInv
  OBVIOUS
<1> USE DEF GateIsEmpty
<1>1. \A i \in Identities : hits[i] = Nothing /\ passed[i] = Nothing
  OBVIOUS
<1>2. clock \in Int /\ Limit \in Nat /\ 0 < Limit
  BY GateAssumption DEF Moments
<1>3. hits \in [Identities -> Logs] /\ passed \in [Identities -> Logs]
  BY EmptyLog
<1>4. \A i \in Identities, t \in Moments : hits[i][t] = 0 /\ passed[i][t] = 0
  BY <1>1, EmptyLog
<1>5. \A i \in Identities : Total(Live(hits[i], clock)) <= Limit
  BY <1>1, <1>2, EmptyLog
<1>6. verdict.allowed /\ verdict.before < Limit
  BY <1>2 DEF NoVerdict
<1> QED
  BY <1>3, <1>4, <1>5, <1>6 DEF GateInv

\* The clock moves on: windows only lose timestamps.
LEMMA TickKeepsGate ==
  ASSUME GateInv, Tick
  PROVE  GateInv'
<1>1. clock \in Int /\ clock' = clock + 1 /\ clock' \in Moments /\ Window \in Int
  BY GateAssumption DEF GateInv, Tick, Moments
<1>2. hits' = hits /\ passed' = passed /\ verdict' = verdict
  BY DEF Tick
<1>3. \A t \in Moments : t \in Int
  BY DEF Moments
<1>4. ASSUME NEW i \in Identities PROVE Total(Live(hits[i], clock + 1)) <= Limit
  <2>1. hits[i] \in Logs
    BY DEF GateInv
  <2>2. PICK log \in Logs : log = hits[i]
    BY <2>1
  <2>3. \A t \in Moments : log[t] \in Int /\ log[t] >= 0
    BY <2>2, GateAssumption DEF Logs
  <2>4. \A t \in Moments : Live(log, clock + 1)[t] <= Live(log, clock)[t]
    BY <1>1, <1>3, <2>3, LiveLog
  <2>5. Live(log, clock + 1) \in Logs /\ Live(log, clock) \in Logs
    BY <1>1, LiveLog
  <2>6. Total(Live(log, clock + 1)) <= Total(Live(log, clock))
    BY <2>4, <2>5, TotalIsMonotone
  <2>7. Total(Live(log, clock)) <= Limit
    BY <2>2 DEF GateInv
  <2> QED
    BY <2>2, <2>6, <2>7, StampsFinite, GateAssumption
<1>5. \A i \in Identities, t \in Moments : t > clock + 1 => hits[i][t] = 0 /\ passed[i][t] = 0
  BY <1>1, <1>3 DEF GateInv
<1>6. \A i \in Identities, t \in Moments : t > clock + 1 - Window => hits[i][t] = passed[i][t]
  BY <1>1, <1>3 DEF GateInv
<1>7. ASSUME ~verdict.allowed
      PROVE  /\ verdict.who \in Identities
             /\ verdict.resetAt \in Int
             /\ clock + 1 >= verdict.resetAt \/ Total(Live(hits[verdict.who], verdict.resetAt)) < Limit
  BY <1>1, <1>7 DEF GateInv
<1> QED
  BY <1>1, <1>2, <1>4, <1>5, <1>6, <1>7 DEF GateInv

\* A sweep drops nothing of the window that ends now.
LEMMA SweepKeepsWindow ==
  ASSUME GateInv, NEW i \in Identities
  PROVE  /\ Swept \in [Identities -> Logs]
         /\ \A t \in Moments : t > clock - Window => Swept[i][t] = hits[i][t]
         /\ \A t \in Moments : t > clock => Swept[i][t] = 0
         /\ Live(Swept[i], clock) = Live(hits[i], clock)
         /\ Live(hits[i], clock) = Live(passed[i], clock)
<1>1. clock \in Int /\ \A j \in Identities : hits[j] \in Logs
  BY DEF GateInv, Moments
<1>2. CASE clock - lastSweep < Window
  <2>1. Swept = hits
    BY <1>2 DEF Swept
  <2>2. Live(hits[i], clock) = Live(passed[i], clock)
    BY SameWindow DEF GateInv
  <2> QED
    BY <2>1, <2>2 DEF GateInv
<1>3. CASE ~(clock - lastSweep < Window)
  <2>1. Swept = [j \in Identities |-> Live(hits[j], clock)]
    BY <1>3 DEF Swept
  <2>2. \A j \in Identities : Live(hits[j], clock) \in Logs
    BY <1>1, LiveLog
  <2>3. Swept[i] = Live(hits[i], clock) /\ Swept \in [Identities -> Logs]
    BY <2>1, <2>2
  <2>4. \A t \in Moments : Swept[i][t] = IF t > clock - Window THEN hits[i][t] ELSE 0
    BY <1>1, <2>3, LiveLog
  <2>5. Live(Swept[i], clock) = Live(hits[i], clock)
    BY <2>4, SameWindow
  <2>6. Live(hits[i], clock) = Live(passed[i], clock)
    BY SameWindow DEF GateInv
  <2> QED
    BY <2>3, <2>4, <2>5, <2>6 DEF GateInv
<1> QED
  BY <1>2, <1>3

\* A refused request: the window is full, and once its oldest timestamp has left it
\* there is room.
LEMMA FullWindowReopens ==
  ASSUME NEW log \in Logs, ~Room(log), Total(log) <= Limit
  PROVE  LET oldest == Min({t \in Moments : log[t] > 0})
         IN  /\ Total(log) = Limit
             /\ oldest + Window \in Int
             /\ Total(Live(log, oldest + Window)) < Limit
<1> DEFINE oldest == Min({t \in Moments : log[t] > 0})
           later == Live(log, oldest + Window)
<1>1. Total(log) = Limit /\ Limit \in Nat /\ Limit > 0 /\ Window \in Nat /\ Window > 0
  BY StampsFinite, GateAssumption DEF Room
<1>2. oldest \in Moments /\ log[oldest] > 0
  BY <1>1, OldestStamp
<1> HIDE DEF oldest
<1>3. oldest \in Int /\ oldest + Window \in Int /\ oldest + Window - Window = oldest
  BY <1>1, <1>2 DEF Moments
<1>4. later \in Logs /\ (\A t \in Moments : later[t] <= log[t]) /\ later[oldest] = 0
  <2>1. PICK at \in Int : at = oldest + Window
    BY <1>3
  <2>2. /\ Live(log, at) \in Logs
        /\ \A t \in Moments : Live(log, at)[t] = IF t > at - Window THEN log[t] ELSE 0
        /\ \A t \in Moments : Live(log, at)[t] <= log[t]
    BY LiveLog
  <2>3. ~(oldest > at - Window)
    BY <1>1, <1>3, <2>1
  <2>4. Live(log, at)[oldest] = 0
    <3>1. \A t \in Moments : ~(t > at - Window) => Live(log, at)[t] = 0
      BY <2>2
    <3> QED
      BY <1>2, <2>3, <3>1, Zenon
  <2> QED
    BY <2>1, <2>2, <2>4
<1> HIDE DEF later
<1>5. Total(later) <= Total(log) /\ (Total(later) = Total(log) => Stamps(later) = Stamps(log))
  BY <1>4, TotalIsMonotone
<1>6. <<oldest, 1>> \in Stamps(log)
  <2>1. 1 <= log[oldest] /\ 1 \in 1..Limit
    BY <1>1, <1>2 DEF Logs
  <2> QED
    BY <1>2, <2>1 DEF Stamps
<1>7. <<oldest, 1>> \notin Stamps(later)
  BY <1>4 DEF Stamps
<1>8. Total(later) < Limit
  BY <1>1, <1>5, <1>6, <1>7, StampsFinite
<1> QED
  BY <1>1, <1>3, <1>8 DEF later, oldest

\* The limiter answers rightly and remembers what it let through.
LEMMA CheckKeepsGate ==
  ASSUME GateInv, NEW who \in Identities, Check(who), clock' = clock
  PROVE  GateInv'
<1> DEFINE log == Live(Swept[who], clock)
<1>0. clock \in Moments /\ clock \in Int /\ Limit \in Nat /\ Limit > 0 /\ Window \in Nat /\ Window > 0
  BY GateAssumption DEF GateInv, Moments
<1>1. /\ Swept \in [Identities -> Logs]
      /\ \A i \in Identities : Swept[i] \in Logs /\ passed[i] \in Logs
      /\ \A i \in Identities, t \in Moments : t > clock - Window => Swept[i][t] = hits[i][t]
      /\ \A i \in Identities, t \in Moments : t > clock => Swept[i][t] = 0
      /\ \A i \in Identities : Live(Swept[i], clock) = Live(hits[i], clock)
      /\ log = Live(passed[who], clock)
  BY SweepKeepsWindow DEF GateInv
<1>2. log \in Logs /\ \A t \in Moments : log[t] = IF t > clock - Window THEN Swept[who][t] ELSE 0
  BY <1>0, <1>1, LiveLog
<1>3. Total(log) <= Limit
  BY <1>1 DEF GateInv
<1>4. /\ hits' = [Swept EXCEPT ![who] = IF Room(log) THEN [log EXCEPT ![clock] = @ + 1] ELSE log]
      /\ passed' = IF Room(log) THEN [passed EXCEPT ![who][clock] = @ + 1] ELSE passed
      /\ verdict'.allowed = Room(log)
      /\ verdict'.who = who
      /\ verdict'.before = Total(log)
      /\ verdict'.resetAt = IF Room(log) THEN clock + Window
                            ELSE Min({t \in Moments : log[t] > 0}) + Window
  BY <1>1 DEF Check
<1> HIDE DEF log
<1>5. verdict'.allowed <=> verdict'.before < Limit
  BY <1>4 DEF Room
<1>6. passed \in [Identities -> Logs]
  BY DEF GateInv
<1>7. CASE Room(log)
  <2>1. Total(log) < Limit /\ log[clock] < Limit
    <3>1. Total(log) < Limit
      BY <1>7 DEF Room
    <3>2. log[clock] <= Total(log) /\ log[clock] \in Int /\ Total(log) \in Int
      BY <1>0, <1>2, MomentWithinTotal, StampsFinite DEF Logs
    <3> QED
      BY <1>0, <3>1, <3>2
  <2>2. [log EXCEPT ![clock] = @ + 1] \in Logs /\ Total([log EXCEPT ![clock] = @ + 1]) = Total(log) + 1
    BY <1>0, <1>2, <2>1, OneMore
  <2>3. clock > clock - Window /\ passed[who][clock] = hits[who][clock] /\ log[clock] = passed[who][clock]
    BY <1>0, <1>1, <1>2 DEF GateInv
  <2>4. [passed[who] EXCEPT ![clock] = @ + 1] \in Logs
    BY <1>0, <1>1, <2>1, <2>3, OneMore
  <2>5. hits' = [Swept EXCEPT ![who] = [log EXCEPT ![clock] = @ + 1]]
    BY <1>4, <1>7
  <2>6. passed' = [passed EXCEPT ![who] = [passed[who] EXCEPT ![clock] = @ + 1]]
    BY <1>4, <1>6, <1>7
  <2>7. hits' \in [Identities -> Logs] /\ passed' \in [Identities -> Logs]
    BY <1>1, <1>6, <2>2, <2>4, <2>5, <2>6
  <2>8. /\ hits'[who] = [log EXCEPT ![clock] = @ + 1]
        /\ passed'[who] = [passed[who] EXCEPT ![clock] = @ + 1]
        /\ \A i \in Identities \ {who} : hits'[i] = Swept[i] /\ passed'[i] = passed[i]
    BY <1>1, <1>6, <2>5, <2>6
  <2>9. \A i \in Identities, t \in Moments : t > clock => hits'[i][t] = 0 /\ passed'[i][t] = 0
    <3>1. ASSUME NEW t \in Moments, t > clock PROVE hits'[who][t] = 0 /\ passed'[who][t] = 0
      <4>1. t # clock /\ t > clock - Window
        BY <1>0, <3>1 DEF Moments
      <4>2. hits'[who][t] = log[t] /\ passed'[who][t] = passed[who][t]
        BY <1>1, <1>2, <2>8, <4>1 DEF Logs
      <4> QED
        BY <1>1, <1>2, <3>1, <4>1, <4>2 DEF GateInv
    <3>2. ASSUME NEW i \in Identities \ {who}, NEW t \in Moments, t > clock
          PROVE  hits'[i][t] = 0 /\ passed'[i][t] = 0
      BY <1>1, <2>8, <3>2 DEF GateInv
    <3> QED
      BY <3>1, <3>2
  <2>10. \A i \in Identities, t \in Moments : t > clock - Window => hits'[i][t] = passed'[i][t]
    <3>1. ASSUME NEW t \in Moments, t > clock - Window PROVE hits'[who][t] = passed'[who][t]
      <4>1. log[t] = passed[who][t]
        BY <1>1, <1>2, <3>1 DEF GateInv
      <4>2. CASE t = clock
        BY <1>0, <1>1, <1>2, <2>8, <4>1, <4>2 DEF Logs
      <4>3. CASE t # clock
        BY <1>1, <1>2, <2>8, <4>1, <4>3 DEF Logs
      <4> QED
        BY <4>2, <4>3
    <3>2. ASSUME NEW i \in Identities \ {who}, NEW t \in Moments, t > clock - Window
          PROVE  hits'[i][t] = passed'[i][t]
      <4>1. hits'[i] = Swept[i] /\ passed'[i] = passed[i]
        BY <2>8
      <4>2. Swept[i][t] = hits[i][t]
        BY <1>1, <3>2
      <4>3. hits[i][t] = passed[i][t]
        BY <3>2 DEF GateInv
      <4> QED
        BY <4>1, <4>2, <4>3
    <3> QED
      BY <3>1, <3>2
  <2>11. \A i \in Identities : Total(Live(hits'[i], clock)) <= Limit
    <3>1. Live(hits'[who], clock) = hits'[who]
      <4>1. hits'[who] \in Logs
        BY <2>2, <2>8
      <4>2. \A t \in Moments : ~(t > clock - Window) => hits'[who][t] = 0
        BY <1>2, <2>3, <2>8 DEF Logs
      <4>3. \A t \in Moments : Live(hits'[who], clock)[t] = hits'[who][t]
        BY <1>0, <4>1, <4>2, LiveLog
      <4>4. Live(hits'[who], clock) \in Logs
        BY <1>0, <4>1, LiveLog
      <4> QED
        BY <4>1, <4>3, <4>4 DEF Logs
    <3>2. Total(hits'[who]) <= Limit
      BY <1>0, <2>1, <2>2, <2>8, StampsFinite
    <3> QED
      BY <1>1, <2>8, <3>1, <3>2 DEF GateInv
  <2>12. verdict'.allowed
    BY <1>4, <1>7
  <2> QED
    BY <1>0, <1>5, <2>7, <2>9, <2>10, <2>11, <2>12 DEF GateInv
<1>8. CASE ~Room(log)
  <2>1. hits' = [Swept EXCEPT ![who] = log] /\ passed' = passed
    BY <1>4, <1>8
  <2>2. /\ hits'[who] = log
        /\ \A i \in Identities \ {who} : hits'[i] = Swept[i]
        /\ hits' \in [Identities -> Logs]
    BY <1>1, <1>2, <2>1
  <2>3. \A i \in Identities, t \in Moments : t > clock - Window => hits'[i][t] = Swept[i][t]
    BY <1>2, <2>2
  <2>4. \A i \in Identities, t \in Moments : t > clock => hits'[i][t] = 0
    <3>1. \A t \in Moments : t > clock => t > clock - Window
      BY <1>0 DEF Moments
    <3> QED
      BY <1>1, <2>3, <3>1
  <2>5. \A i \in Identities : Live(hits'[i], clock) = Live(hits[i], clock)
    <3>1. ASSUME NEW i \in Identities PROVE Live(hits'[i], clock) = Live(Swept[i], clock)
      BY <2>3, SameWindow
    <3> QED
      BY <1>1, <3>1
  <2>6. verdict'.who = who /\ verdict'.resetAt = Min({t \in Moments : log[t] > 0}) + Window
    BY <1>4, <1>8
  <2>7. verdict'.resetAt \in Int /\ Total(Live(log, verdict'.resetAt)) < Limit
    BY <1>2, <1>3, <1>8, <2>6, FullWindowReopens
  <2> QED
    BY <1>0, <1>1, <1>5, <1>6, <2>1, <2>2, <2>3, <2>4, <2>5, <2>6, <2>7 DEF GateInv
<1> QED
  BY <1>7, <1>8

\* Every step of the gate keeps its store truthful.
LEMMA StepKeepsGate ==
  ASSUME GateInv, [GateStep]_gateVars
  PROVE  GateInv'
<1>1. ASSUME NEW r \in Arrivals, Request(r) PROVE GateInv'
  <2>1. CASE VerifyCsrf(r) /\ IsSensitive(r)
    <3>1. r.from \in Identities
      BY DEF Arrivals
    <3>2. Check(r.from) /\ clock' = clock
      BY <1>1, <2>1 DEF Request
    <3> QED
      BY <3>1, <3>2, CheckKeepsGate
  <2>2. CASE ~(VerifyCsrf(r) /\ IsSensitive(r))
    BY <1>1, <2>2 DEF Request, GateInv
  <2> QED
    BY <2>1, <2>2
<1>2. ASSUME NEW who \in Identities, ActionRequest(who) PROVE GateInv'
  BY <1>2, CheckKeepsGate DEF ActionRequest
<1>3. CASE Tick
  BY <1>3, TickKeepsGate
<1>4. CASE NewProcess
  <2>1. GateIsEmpty'
    BY <1>4 DEF NewProcess, GateInv, GateIsEmpty
  <2> QED
    BY <2>1, GateStartsEmpty, PTL
<1>5. CASE UNCHANGED gateVars
  BY <1>5 DEF gateVars, GateInv
<1> QED
  BY <1>1, <1>2, <1>3, <1>4, <1>5 DEF GateStep

\* The limiter is exact (rate-limit.ts, check and sweep): it refuses exactly when the
\* limit of that identity is used up within the window, never lets more through, and by
\* the moment it names as the reset there is room again - for every limit and window,
\* however sweeps, other identities and refused requests come in between.
THEOREM LimiterIsExact == GateSpec => []LimitIsExact
<1>1. GateInit => GateInv
  <2>1. 1 \in Moments
    BY GateAssumption DEF Moments
  <2> QED
    BY <2>1, GateStartsEmpty DEF GateInit, GateIsEmpty
<1>2. GateInv => LimitIsExact
  <2> SUFFICES ASSUME GateInv PROVE LimitIsExact
    OBVIOUS
  <2>1. \A i \in Identities : Total(Live(passed[i], clock)) <= Limit
    <3>1. ASSUME NEW i \in Identities PROVE Live(hits[i], clock) = Live(passed[i], clock)
      BY SweepKeepsWindow
    <3> QED
      BY <3>1 DEF GateInv
  <2> QED
    BY <2>1 DEF GateInv, LimitIsExact
<1> QED
  BY <1>1, <1>2, StepKeepsGate, PTL DEF GateSpec

-----------------------------------------------------------------------------
(* Types of every part, together *)

MishapsCounted == mistakes \in 0..MaxMishaps

SweepDated == lastSweep \in -Window..MaxClock

\* The faults are counted, and the limiter has swept at a moment or never.
LEMMA Counted ==
  /\ AccountsSpec => []MishapsCounted
  /\ GateSpec => [](GateInv /\ SweepDated)
<1>1. AccountsSpec => []MishapsCounted
  <2>1. RolesInit => MishapsCounted
    BY RolesAssumption DEF RolesInit, MishapsCounted
  <2>2. MishapsCounted /\ [AccountsStep]_<<roleVars, accountVars>> => MishapsCounted'
    <3> SUFFICES ASSUME mistakes \in 0..MaxMishaps, [AccountsStep]_<<roleVars, accountVars>>
                 PROVE  mistakes' \in 0..MaxMishaps
      BY DEF MishapsCounted
    <3>1. CASE \E r \in Requests : TxFails(r)
      BY <3>1, RolesAssumption DEF TxFails
    <3>2. CASE \E r \in Requests : ProvisionProfile(r) \/ (Mutation(r) /\ ~TxFails(r))
      BY <3>2 DEF ProvisionProfile, Mutation, BeginGrant, BeginRevoke, GrantRead, InsertRole, RevokeRead,
                  RevokeCount, DeleteRole, Commit, Goes
    <3>3. CASE \E b \in Requests, u \in Users : BeginProvision(b, u)
      BY <3>3 DEF BeginProvision, Goes
    <3>4. CASE \E b \in Requests : \E u, at : Provisions(b, u, at)
      BY <3>4 DEF Provisions, BeginProvision, Goes
    <3>5. CASE UNCHANGED roleVars
      BY <3>5 DEF roleVars
    <3>6. CASE AuthStep /\ ~UNCHANGED roleVars /\ ~ \E r \in Requests : ProvisionProfile(r) \/ Mutation(r)
      <4>1. \E b \in Requests : \E u, at : Provisions(b, u, at)
        BY <3>6 DEF AuthStep, Mutation, FollowMenu, PostFails, UpdatePassword, SignedIn, Logout, Goto, Post,
                    Register, ResendVerification, ForgotPassword, BadLink, Open, Login, Google, FollowLink
      <4> QED
        BY <3>4, <4>1
    <3> QED
      BY <3>1, <3>2, <3>5, <3>6 DEF AccountsStep
  <2> QED
    BY <2>1, <2>2, PTL DEF AccountsSpec
<1>2. GateSpec => [](GateInv /\ SweepDated)
  <2>1. GateInit => GateInv /\ SweepDated
    <3>1. 1 \in Moments
      BY GateAssumption DEF Moments
    <3> QED
      BY <3>1, GateStartsEmpty, GateAssumption DEF GateInit, GateIsEmpty, SweepDated
  <2>2. GateInv /\ SweepDated /\ [GateStep]_gateVars => SweepDated'
    <3> SUFFICES ASSUME GateInv, lastSweep \in -Window..MaxClock, [GateStep]_gateVars
                 PROVE  lastSweep' \in -Window..MaxClock
      BY DEF SweepDated
    <3>1. lastSweep' \in {lastSweep, clock, -Window}
      BY DEF GateStep, Request, ActionRequest, Check, Tick, NewProcess, gateVars
    <3>2. clock \in -Window..MaxClock /\ -Window \in -Window..MaxClock
      BY GateAssumption DEF GateInv, Moments
    <3> QED
      BY <3>1, <3>2
  <2> QED
    BY <2>1, <2>2, StepKeepsGate, PTL DEF GateSpec
<1> QED
  BY <1>1, <1>2

\* Every reachable state of every part is typed, together: whatever members do beside paying
\* and managing photos.
THEOREM MembersTypeCorrect == MembersSpec => []TypeOK
<1>1. TypeInv => TalkTypeOK
  BY DEF TypeInv
<1>2. HeartsInv => SavedTypeOK
  BY DEF HeartsInv
<1>3. BrowseInv => BrowseTypeOK
  <2> SUFFICES ASSUME BrowseInv PROVE BrowseTypeOK
    OBVIOUS
  <2>1. visit.seen \in Seq(Goods)
    BY DEF BrowseInv, Walks
  <2>2. \A k \in DOMAIN visit.seen : visit.seen[k] \in Goods
    BY <2>1
  <2>3. asked \subseteq Urls
    BY CanonicalSort DEF BrowseInv, AskedRead
  <2> QED
    BY <2>2, <2>3 DEF BrowseInv, Walks, BrowseTypeOK
<1>4. BarInv => BarTypeOK
  BY DEF BarInv
<1>5. GateInv /\ SweepDated => GateTypeOK
  BY DEF GateInv, GateTypeOK, SweepDated, Logs
<1>6. AccountsInv => AccountsTypeOK
  BY DEF AccountsInv, PagesInv
<1>7. AccountsInv /\ MishapsCounted => RolesTypeOK
  <2> SUFFICES ASSUME AccountsInv, mistakes \in 0..MaxMishaps PROVE RolesTypeOK
    BY DEF MishapsCounted
  <2>1. RolesTyped
    BY DEF AccountsInv, RolesInv
  <2>2. \A k \in DOMAIN audit : audit[k] \in AuditEntry
    BY <2>1 DEF RolesTyped
  <2>3. \A r \in Requests : tx[r] \in Tx
    BY <2>1 DEF RolesTyped
  <2>4. granted \subseteq Users \X ROLES /\ profiles \subseteq Users
    BY <2>1 DEF RolesTyped
  <2>5. ASSUME NEW r \in Requests
        PROVE  /\ tx[r].pc \in {"idle", "profile", "read", "check", "count", "insert", "delete", "commit"}
               /\ tx[r].what \in {"none", "provision", "grant", "revoke"}
               /\ tx[r].profile \subseteq Users
               /\ tx[r].inserts \union tx[r].deletes \subseteq Users \X ROLES
    BY <2>3 DEF Tx
  <2> QED
    BY <2>2, <2>4, <2>5 DEF RolesTypeOK, AuditEntry
<1>8. AccountsSpec => []AccountsInv
  BY InitAccountsInv, StepAccountsInv, PTL DEF AccountsSpec
<1> QED
  BY <1>1, <1>2, <1>3, <1>4, <1>5, <1>6, <1>7, <1>8, Counted, WalksAreSound, WalksAreTyped, HeartsInvariant,
     BrowseInvariant, BarInvariant, DeskTypeCorrect, PTL DEF MembersSpec, TypeOK
=============================================================================
