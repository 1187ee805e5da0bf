------------------------------ MODULE Accounts -------------------------------
(***************************************************************************)
(* The ways into an account: the pages under app/(auth), the routes under  *)
(* app/api/auth that they post to, and the provisioning that signing in    *)
(* sets off.  Supabase Auth is external: it keeps the accounts, mails the  *)
(* links and sets the session cookie.  A browser has one page open and     *)
(* waits for one answer.                                                   *)
(***************************************************************************)
EXTENDS Roles

VARIABLES
    account,    \* external: [Users -> "none", "unverified" or "verified"]
    mail,       \* external: links that were mailed and not used
    session,    \* [Requests -> the user of the browser's cookie, or Nobody]
    page        \* [Requests -> the page the browser shows]

accountVars == <<account, mail, session, page>>

Anyone == "anyone"      \* no session

Blank(at) == [at |-> at, pc |-> "idle", note |-> "none", who |-> Anyone]

AccountsTypeOK ==
    /\ account \in [Users -> {"none", "unverified", "verified"}]
    /\ mail \subseteq [user: Users, kind: {"signup", "recovery"}]
    /\ session \in [Requests -> Users \union {Anyone}]
    /\ page \in [Requests -> [ at: {"home", "login", "register", "verify", "forgot", "reset", "account",
                                    "seller", "admin", "missing"},
                               pc: {"idle", "pending", "signing in"},
                               note: {"none", "error", "expired", "sent", "updated", "sign in"},
                               who: Users \union {Anyone} ]]

AccountsInit ==
    /\ account = [u \in Users |-> IF u \in profiles THEN "verified" ELSE "none"]
    /\ mail = {}
    /\ session = [b \in Requests |-> Anyone]
    /\ page = [b \in Requests |-> Blank("home")]

Shows(b, p) == page' = [page EXCEPT ![b] = p]

Goto(b, at) ==
    /\ page[b].pc = "idle"
    /\ Shows(b, Blank(at))
    /\ UNCHANGED <<account, mail, session, roleVars>>

\* A form is posted: the button is disabled until the answer.
Post(b, at) ==
    /\ page[b].at = at /\ page[b].pc = "idle"
    /\ Shows(b, [page[b] EXCEPT !.pc = "pending", !.note = "none"])
    /\ UNCHANGED <<account, mail, session, roleVars>>

\* Refused by the form, the middleware or the schema, or the answer does not come.
PostFails(b) ==
    /\ page[b].pc # "idle"
    /\ Shows(b, [Blank(page[b].at) EXCEPT !.note = "error"])
    /\ UNCHANGED <<account, mail, session, roleVars>>

-----------------------------------------------------------------------------
(* The forms *)

\* The answer to every form is the same, whether or not there is such an account.
Mailed(u, kind) == mail' = mail \union {[user |-> u, kind |-> kind]}

SignUp(u) ==
    IF account[u] = "none"
    THEN account' = [account EXCEPT ![u] = "unverified"] /\ Mailed(u, "signup")
    ELSE UNCHANGED <<account, mail>>

Register(b, u) ==
    /\ page[b].at = "register" /\ page[b].pc = "pending"
    /\ SignUp(u)
    /\ Shows(b, Blank("verify"))
    /\ UNCHANGED <<session, roleVars>>

Resend(u) == IF account[u] = "unverified" THEN Mailed(u, "signup") ELSE UNCHANGED mail

ResendVerification(b, u) ==
    /\ page[b].at = "verify" /\ page[b].pc = "pending"
    /\ Resend(u)
    /\ Shows(b, [Blank("verify") EXCEPT !.note = "sent"])
    /\ UNCHANGED <<account, session, roleVars>>

RequestReset(u) == IF account[u] = "verified" THEN Mailed(u, "recovery") ELSE UNCHANGED mail

ForgotPassword(b, u) ==
    /\ page[b].at = "forgot" /\ page[b].pc = "pending"
    /\ RequestReset(u)
    /\ Shows(b, [Blank("forgot") EXCEPT !.note = "sent"])
    /\ UNCHANGED <<account, session, roleVars>>

\* Only with a session, which the recovery link has set.
PasswordUpdated(b) == session[b] # Anyone

\* Then the page goes to /login.
UpdatePassword(b) ==
    /\ page[b].at = "reset" /\ page[b].pc = "pending"
    /\ Shows(b, [page[b] EXCEPT !.pc = "idle", !.note = IF PasswordUpdated(b) THEN "updated" ELSE "error"])
    /\ UNCHANGED <<account, mail, session, roleVars>>

\* The user is known; the request provisions the profile before it answers.
Provisions(b, u, at) ==
    /\ tx[b].pc = "idle"
    /\ Shows(b, [Blank(at) EXCEPT !.pc = "signing in", !.who = u])
    /\ BeginProvision(b, u)
    /\ UNCHANGED session

\* The right password of a verified account; a wrong one fails as any post does.
Login(b, u) ==
    /\ page[b].at = "login" /\ page[b].pc = "pending"
    /\ account[u] = "verified"
    /\ Provisions(b, u, "login")
    /\ UNCHANGED <<account, mail>>

-----------------------------------------------------------------------------
(* GET /api/auth/callback: a mailed link, or the return from Google *)

\* A link works once; a recovery link leads to the reset form.
FollowLink(b, link) ==
    /\ page[b].pc = "idle"
    /\ mail' = mail \ {link}
    /\ account' = [account EXCEPT ![link.user] = "verified"]
    /\ Provisions(b, link.user, IF link.kind = "recovery" THEN "reset" ELSE "home")

\* Spent, expired or without a code.
BadLink(b, at) ==
    /\ page[b].pc = "idle"
    /\ Shows(b, [Blank(at) EXCEPT !.note = IF at = "reset" THEN "expired" ELSE "error"])
    /\ UNCHANGED <<account, mail, session, roleVars>>

Google(b, u) ==
    /\ page[b].pc = "idle" /\ page[b].at \in {"login", "register"}
    /\ account' = [account EXCEPT ![u] = "verified"]
    /\ Provisions(b, u, "home")
    /\ UNCHANGED mail

\* The answer; a failed provisioning does not block the sign-in.
SignedIn(b) ==
    /\ page[b].pc = "signing in" /\ tx[b].pc = "idle"
    /\ session' = [session EXCEPT ![b] = page[b].who]
    /\ Shows(b, Blank(IF page[b].at = "reset" THEN "reset" ELSE "home"))
    /\ UNCHANGED <<account, mail, roleVars>>

SessionEnds(b) == session' = [session EXCEPT ![b] = Anyone]

\* The button navigates to the start page even when the request fails.
Logout(b) ==
    /\ page[b].pc = "idle"
    /\ SessionEnds(b) \/ UNCHANGED session
    /\ Shows(b, Blank("home"))
    /\ UNCHANGED <<account, mail, roleVars>>

-----------------------------------------------------------------------------
(* What a session opens *)

\* getAuthContext: the roles are read anew for every request.
RolesOf(b) == {role \in ROLES : <<session[b], role>> \in granted}

CanActAsSeller(roles) == roles \intersect {"seller", "admin"} # {}

\* checkAuthenticated, checkAnyRole and checkAdmin
Outcome(b, area) ==
    IF session[b] = Anyone THEN 401
    ELSE IF \/ area = "seller" /\ ~CanActAsSeller(RolesOf(b))
            \/ area = "admin" /\ "admin" \notin RolesOf(b)
         THEN 403 ELSE 200

\* runGuard: who is denied cannot tell that the area exists.
Guarded(b, area) ==
    CASE Outcome(b, area) = 401 -> [Blank("login") EXCEPT !.note = "sign in"]
      [] Outcome(b, area) = 403 -> Blank("missing")
      [] OTHER -> Blank(area)

\* The entries of the header's menu.
Menu(b) ==
    IF session[b] = Anyone THEN {"login", "register"}
    ELSE {"account"} \union (IF CanActAsSeller(RolesOf(b)) THEN {"seller"} ELSE {})
                     \union (IF "admin" \in RolesOf(b) THEN {"admin"} ELSE {})

Open(b, area) ==
    /\ page[b].pc = "idle"
    /\ Shows(b, IF area \in {"login", "register"} THEN Blank(area) ELSE Guarded(b, area))
    /\ UNCHANGED <<account, mail, session, roleVars>>

FollowMenu(b, area) == area \in Menu(b) /\ Open(b, area)

-----------------------------------------------------------------------------

AuthStep ==
    \/ \E b \in Requests :
         \/ PostFails(b) \/ UpdatePassword(b) \/ SignedIn(b) \/ Logout(b)
         \/ \E at \in {"home", "forgot", "verify"} : Goto(b, at)
         \/ \E at \in {"login", "register", "verify", "forgot", "reset"} : Post(b, at)
         \/ \E u \in Users : Register(b, u) \/ ResendVerification(b, u) \/ ForgotPassword(b, u)
                               \/ Login(b, u) \/ Google(b, u)
         \/ \E link \in mail : FollowLink(b, link)
         \/ \E at \in {"login", "reset"} : BadLink(b, at)
         \/ \E area \in {"account", "seller", "admin"} : Open(b, area) \/ FollowMenu(b, area)
         \/ \E area \in {"login", "register"} : FollowMenu(b, area)
    \/ /\ UNCHANGED accountVars
       /\ \E b \in Requests : ProvisionProfile(b) \/ InsertRole(b) \/ Commit(b) \/ TxFails(b)

\* Sign-ins while admins change roles.
AccountsStep ==
    \/ AuthStep
    \/ (\E r \in Requests : Mutation(r)) /\ UNCHANGED accountVars

AccountsSpec ==
    RolesInit /\ AccountsInit /\ [][AccountsStep]_<<roleVars, accountVars>>

-----------------------------------------------------------------------------
(* Properties *)

Entries(u, action, actors) ==
    {k \in DOMAIN audit : /\ audit[k].user = u /\ audit[k].role = "buyer"
                          /\ audit[k].action = action /\ audit[k].actor \in actors}

\* However many first sign-ins overlap, fail half-way or are repeated, a profile has the
\* buyer role unless an admin took it away, and one entry says where it came from: a
\* second only if it was taken away in between.  Who is signed in has a profile unless
\* a provisioning failed.
ProvisioningConverges ==
    /\ \A u \in Users :
         LET given == Entries(u, "granted", {System})
             taken == Entries(u, "revoked", Users)
         IN  /\ u \in profiles => <<u, "buyer">> \in granted \/ taken # {}
             /\ Cardinality(given) <= 1 + Cardinality(taken)
             /\ u \in profiles \ Founders => given # {}
             /\ u \notin profiles => given = {}
    /\ \A b \in Requests : session[b] # Anyone /\ mistakes = 0 => session[b] \in profiles
=============================================================================
