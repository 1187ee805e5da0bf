------------------------------ MODULE MCMembers ------------------------------
(***************************************************************************)
(* Small instances of everything members do beside paying and managing     *)
(* photos.  The parts share no state but the listing's status, which each  *)
(* takes as an input, so every behaviour stays in one scene: what the      *)
(* others hold is as it was in the beginning.                              *)
(***************************************************************************)
EXTENDS Members, TLC

VARIABLE scene

mcVars == <<talkVars, readVars, savedVars, browseVars, barVars, gateVars, roleVars, accountVars,
            deskVars, scene>>

\* Nobody compares two tokens or two requests but for equality.
Symmetry == Permutations(Tokens) \union Permutations(Requests)

Walks == {"walk by age", "walk by price", "walk by rank", "walk with a shared fingerprint"}

Scenes == {"start", "send", "thread", "inbox", "hearts", "bar", "gate", "accounts", "roles", "form"}
            \union Walks

-----------------------------------------------------------------------------
(* Conversations *)

ABuyer == CHOOSE b \in Buyers : TRUE
AText == CHOOSE x \in Texts : TRUE
APage == CHOOSE p \in Pages : TRUE

AboutOf == CHOOSE f \in [ConversationIds -> Listings] : IsInjective(f)

About(i, at) == [listing |-> AboutOf[i], snapshot |-> AboutOf[i], buyer |-> ABuyer, lastMessageAt |-> at]

OneConversation == [i \in ConversationIds |-> IF i = 1 THEN About(1, 2) ELSE NoConversation]

Said(id, at) ==
    [id |-> id, conversation |-> 1, sender |-> Seller, body |-> AText, token |-> NoToken, createdAt |-> at]

\* Old messages and old conversations with equal and with different times.
TalkScene ==
    CASE scene \in {"send", "thread"} ->
           /\ Quiet /\ conversations = OneConversation /\ now = 2
           /\ IF scene = "send" THEN messages = {}
              ELSE \E ats \in [2..4 -> 1..2] : messages = {Said(id, ats[id]) : id \in 2..4}
      [] scene = "inbox" ->
           /\ Quiet /\ messages = {} /\ now = 2
           /\ \E ats \in [ConversationIds -> 1..2] : conversations = [i \in ConversationIds |-> About(i, ats[i])]
      [] OTHER -> TalkInit

\* The seller writes without tokens while the seller reads.
Chatter(pages) ==
    \/ \E p \in pages, i \in ConversationIds : OpenThread(p, Seller, i) \/ Submit(p, AText)
    \/ \E s \in sends : (SendBegin(s) /\ failed' = failed) \/ SendInsert(s)
    \/ TimePasses

\* Two requests on their way and three answers at most; ids in order, as nothing is
\* sorted here.
Sending ==
    /\ \/ Mount(APage) \/ AnswerLost(APage) \/ OpenThread(APage, ABuyer, 1)
       \/ \E body \in Bodies :
            Cardinality(sends) < 2 /\ Cardinality(confirmed \union failed) < 3 /\ Submit(APage, body)
       \/ \E s \in sends : SendBegin(s) \/ SendInsert(s) \/ SendFails(s)
                             \/ (Cardinality(sends) < 2 /\ SendRepeated(s))
    /\ {m.id : m \in messages'} = 1..Cardinality(messages')

TalkNext ==
    \/ scene = "start" /\ now = 1 /\ StartStep /\ UNCHANGED readVars
    \/ scene = "send" /\ Sending /\ UNCHANGED readVars
    \/ scene = "thread" /\ Chatter({APage}) /\ UNCHANGED readVars
    \/ scene = "inbox" /\ Chatter(Pages) /\ Cardinality(sends' \union messages') < 3 /\ UNCHANGED readVars
    \/ scene = "thread" /\ thread.pc # "end" /\ (OpenMessages(Seller, 1) \/ OlderMessages) /\ UNCHANGED talkVars
    \/ scene = "inbox" /\ inbox.pc # "end" /\ (OpenInbox(Seller) \/ OlderConversations) /\ UNCHANGED talkVars

-----------------------------------------------------------------------------
(* The grid and its filter bar *)

AKind == CHOOSE k \in Kinds : TRUE
BKind == CHOOSE k \in Kinds : k # AKind
AWord == CHOOSE w \in Words : TRUE

\* Every search text is the name of a category.
MCNamed == [w \in Words |-> {AKind}]

\* The filters of one kind have the fingerprint of those of any kind.
MCHash == [url \in Urls |-> IF url.kind \in {NoKind, AKind} THEN url ELSE [url EXCEPT !.kind = NoKind]]

\* Equal keys in every order; a URL beside the plain one to mix cursors with.
Walk ==
    [ s \in Walks |->
        CASE s = "walk by age"   -> [ages |-> <<1, 1, 2>>, prices |-> <<1, 1, 2>>, other |-> [Plain EXCEPT !.kind = AKind]]
          [] s = "walk by price" -> [ages |-> <<2, 1, 1>>, prices |-> <<2, 1, 2>>, other |-> [Plain EXCEPT !.sort = "price_asc"]]
          [] s = "walk with a shared fingerprint" ->
               [ages |-> <<1, 1, 2>>, prices |-> <<1, 1, 1>>, other |-> [Plain EXCEPT !.kind = BKind]]
          [] s = "walk by rank"  -> [ages |-> <<2, 2, 1>>, prices |-> <<1, 1, 1>>, other |-> [Plain EXCEPT !.q = AWord]] ]

GoodsScene ==
    goods = [ g \in Goods |->
        [ published |-> TRUE, word |-> IF g = 2 THEN NoWord ELSE AWord, tag |-> CHOOSE x \in Tags : TRUE,
          kind |-> IF g = 3 THEN BKind ELSE AKind,
          place |-> CHOOSE x \in Places : TRUE, shop |-> IF g = 3 THEN 2 ELSE 1,
          price |-> IF scene \in Walks THEN Walk[scene].prices[g] ELSE 1,
          createdAt |-> IF scene \in Walks THEN Walk[scene].ages[g] ELSE 1 ] ]

\* One listing changes, to a price under the cap; the cache holds three pages.
BrowseNext ==
    /\ BrowseStep({Plain, Walk[scene].other})
    /\ Cardinality(touched') <= 1 /\ Cardinality(DOMAIN held') <= 3
    /\ \A g \in Goods : goods'[g].price <= MaxPrice

\* Until the first overlap, three filters at a time, and the drawer on a plain page.
BarNext ==
    LET set == {f \in DOMAIN Plain : intent'[f] # Plain[f]}
        resting == query = ParseBrowseQuery(Plain) /\ ~Pending /\ minText = NoPrice /\ maxText = NoPrice
    IN  /\ ~overlapped
        /\ BarStep
        /\ <<minText', maxText'>> \in {<<NoPrice, NoPrice>>, <<1, 2>>, <<2, 1>>, <<Unreadable, 2>>, <<1, 3>>}
        /\ intent'.sort # "price_desc" /\ intent'.kind \in {NoKind, AKind} /\ \A u \in nav' : u.kind \in {NoKind, AKind}
        /\ drawerVars' # drawerVars => resting
        /\ Cardinality(set) <= 3

-----------------------------------------------------------------------------
(* The gate and the accounts *)

\* One request of each kind the origin check tells apart.
Sample ==
    { [safe |-> FALSE, path |-> "payments", origin |-> o, referer |-> r, host |-> "served", from |-> 1] :
        o \in {"served", "foreign", "none"}, r \in {"app", "none"} }
    \union { [safe |-> s, path |-> p, origin |-> "none", referer |-> "none", host |-> "app", from |-> i] :
        s \in BOOLEAN, p \in {"webhook", "page"}, i \in Identities }

GateNext ==
    \/ \E r \in Sample : Request(r)
    \/ \E who \in Identities : ActionRequest(who)
    \/ Tick \/ NewProcess

\* The admins there are do not sign in.
AccountsNext ==
    /\ AuthStep
    /\ \A b \in Requests : page'[b].who \notin Founders
    /\ \A link \in mail' : link.user \notin Founders

\* Admins give and take while first sign-ins provision.
RolesNext ==
    /\ \E r \in Requests :
         \/ Mutation(r)
         \/ tx[r].pc = "idle" /\ \E u \in Users \ Founders : BeginProvision(r, u)
         \/ ProvisionProfile(r)
    /\ Len(audit') <= 3 /\ mistakes' = 0
    /\ \A r \in Requests : tx'[r].role # "seller"
    /\ UNCHANGED accountVars

-----------------------------------------------------------------------------

MCInit ==
    /\ scene \in Scenes
    /\ TalkScene /\ ReadInit
    /\ SavedInit
    /\ GoodsScene /\ BrowseInit
    /\ BarInit /\ (scene # "bar" => ~wide)
    /\ GateInit
    /\ RolesInit /\ AccountsInit
    /\ DeskInit /\ (scene # "form" => row = NoDraft)

OnlyTalk == UNCHANGED <<savedVars, browseVars, barVars, gateVars, roleVars, accountVars, deskVars>>
OnlyHearts == UNCHANGED <<talkVars, readVars, browseVars, barVars, gateVars, roleVars, accountVars, deskVars>>
OnlyGrid == UNCHANGED <<talkVars, readVars, savedVars, barVars, gateVars, roleVars, accountVars, deskVars>>
OnlyBar == UNCHANGED <<talkVars, readVars, savedVars, browseVars, gateVars, roleVars, accountVars, deskVars>>
OnlyGate == UNCHANGED <<talkVars, readVars, savedVars, browseVars, barVars, roleVars, accountVars, deskVars>>
OnlyAccounts == UNCHANGED <<talkVars, readVars, savedVars, browseVars, barVars, gateVars, deskVars>>
OnlyForm == UNCHANGED <<talkVars, readVars, savedVars, browseVars, barVars, gateVars, roleVars, accountVars>>

MCNext ==
    /\ \/ TalkNext /\ OnlyTalk
       \/ scene = "hearts" /\ HeartStep /\ OnlyHearts
       \/ scene \in Walks /\ BrowseNext /\ OnlyGrid
       \/ scene = "bar" /\ BarNext /\ OnlyBar
       \/ scene = "gate" /\ GateNext /\ OnlyGate
       \/ scene = "accounts" /\ AccountsNext /\ OnlyAccounts
       \/ scene = "roles" /\ RolesNext /\ OnlyAccounts
       \/ scene = "form" /\ DeskStep /\ OnlyForm
    /\ UNCHANGED scene

MCSpec == MCInit /\ [][MCNext]_mcVars
=============================================================================
