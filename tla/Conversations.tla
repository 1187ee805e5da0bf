---------------------------- MODULE Conversations ----------------------------
(***************************************************************************)
(* Conversations about the listings of one seller                          *)
(* (modules/messaging/service.ts, conversation-actions.ts, actions.ts) and *)
(* the pages that start them and send their messages (MessageSellerForm,   *)
(* MessageComposer).  A request is handled in the steps it awaits: the     *)
(* checks, then the insert.  Prisma stamps createdAt between the two, so   *)
(* messages may commit in another order than their timestamps.             *)
(***************************************************************************)
EXTENDS Integers, FiniteSets

CONSTANTS
    Buyers, Seller,
    Listings,           \* the seller's
    ConversationIds,    \* integers: ids break ties
    MessageIds,
    Texts,              \* bodies normalizeMessageBody accepts
    Tokens,             \* what crypto.randomUUID returns
    Pages,              \* open browser pages
    MaxTime, MaxFaults

NoListing == "no listing"
NoToken == "no token"
NoPage == "no page"
Nobody == "nobody"
Unacceptable == "unacceptable"      \* a body that is rejected

ASSUME TalkAssumption ==
    /\ NoListing \notin Listings /\ NoToken \notin Tokens /\ NoPage \notin Pages
    /\ MaxTime \in Nat \ {0} /\ MaxFaults \in Nat

VARIABLES
    listing,        \* [Listings -> "published", "hidden" or "removed"]
    conversations,  \* [ConversationIds -> row or NoConversation]
    messages,       \* set of rows
    starting,       \* [Pages -> the MessageSellerForm of the page]
    composer,       \* [Pages -> the MessageComposer of the page]
    sends,          \* sendMessageAction requests on their way
    tokens,         \* tokens generated so far
    now, mishaps,
    landed,         \* history: where startConversationAction redirected
    confirmed,      \* history: submissions that were answered with the redirect
    failed          \* history: submissions that were answered with an error

talkVars == <<listing, conversations, messages, starting, composer, sends, tokens, now,
              mishaps, landed, confirmed, failed>>

storeVars == <<listing, conversations, messages>>
historyVars == <<landed, confirmed, failed>>

Participants == Buyers \union {Seller}

Bodies == Texts \union {Unacceptable}

NoConversation == [listing |-> NoListing, snapshot |-> NoListing, buyer |-> Nobody, lastMessageAt |-> 0]

Conversation ==
    [ listing: Listings \union {NoListing},     \* null once the listing is removed
      snapshot: Listings,                       \* what it was about
      buyer: Buyers,
      lastMessageAt: 1..MaxTime ]

Message ==
    [ id: MessageIds, conversation: ConversationIds, sender: Participants,
      body: Texts, token: Tokens \union {NoToken}, createdAt: 1..MaxTime ]

Submission ==
    [ conversation: ConversationIds, sender: Participants,
      body: Bodies, token: Tokens \union {NoToken} ]

Send == [what: Submission, page: Pages \union {NoPage}, createdAt: 0..MaxTime]

FormIdle == [pc |-> "idle", buyer |-> Nobody, listing |-> NoListing]

Closed == [pc |-> "closed", who |-> Nobody, conversation |-> 0, token |-> NoToken]

TalkTypeOK ==
    /\ listing \in [Listings -> {"published", "hidden", "removed"}]
    /\ conversations \in [ConversationIds -> Conversation \union {NoConversation}]
    /\ messages \subseteq Message
    /\ starting \in [Pages -> [pc: {"idle", "create", "error"}, buyer: Buyers \union {Nobody},
                               listing: Listings \union {NoListing}]]
    /\ composer \in [Pages -> [pc: {"closed", "rendered", "mounted", "sending", "error"},
                               who: Participants \union {Nobody},
                               conversation: ConversationIds \union {0},
                               token: Tokens \union {NoToken}]]
    /\ sends \subseteq Send
    /\ tokens \subseteq Tokens
    /\ now \in 1..MaxTime /\ mishaps \in 0..MaxFaults
    /\ confirmed \subseteq Submission /\ failed \subseteq Submission
    /\ \A m, n \in messages : m.id = n.id => m = n

\* No request is on its way.
Quiet ==
    /\ listing = [l \in Listings |-> "published"]
    /\ starting = [p \in Pages |-> FormIdle]
    /\ composer = [p \in Pages |-> Closed]
    /\ sends = {}
    /\ tokens = {}
    /\ mishaps = 0
    /\ landed = {} /\ confirmed = {} /\ failed = {}

TalkInit ==
    /\ Quiet
    /\ conversations = [i \in ConversationIds |-> NoConversation]
    /\ messages = {}
    /\ now = 1

\* A request that fails, is repeated by the network, or loses its answer.
Mishap == mishaps < MaxFaults /\ mishaps' = mishaps + 1

Fine == UNCHANGED mishaps

TimePasses ==
    /\ now < MaxTime
    /\ now' = now + 1
    /\ UNCHANGED <<storeVars, starting, composer, sends, tokens, mishaps, historyVars>>

-----------------------------------------------------------------------------
(* What happens to the listing meanwhile *)

ListingMoves(l) ==
    /\ listing[l] # "removed"
    /\ \E s \in {"published", "hidden"} \ {listing[l]} : listing' = [listing EXCEPT ![l] = s]
    /\ UNCHANGED <<conversations, messages, starting, composer, sends, tokens, now, mishaps, historyVars>>

\* ON DELETE SET NULL: the conversation stays.
ListingRemoved(l) ==
    /\ listing[l] # "removed"
    /\ listing' = [listing EXCEPT ![l] = "removed"]
    /\ conversations' = [i \in ConversationIds |->
          IF conversations[i].listing = l
          THEN [conversations[i] EXCEPT !.listing = NoListing] ELSE conversations[i]]
    /\ UNCHANGED <<messages, starting, composer, sends, tokens, now, mishaps, historyVars>>

-----------------------------------------------------------------------------
(* Starting a conversation *)

\* The unique identity index; null listings are distinct.
SameIdentity(b, l) == {i \in ConversationIds : conversations[i].listing = l /\ conversations[i].buyer = b}

\* The form is rendered for a signed-in buyer.  Only a published listing may seed
\* a conversation; too many requests are refused alike.
StartBegin(p, b, l) ==
    /\ starting[p].pc # "create"
    /\ \/ listing[l] = "published" /\ starting' = [starting EXCEPT ![p] = [pc |-> "create", buyer |-> b, listing |-> l]]
       \/ starting' = [starting EXCEPT ![p] = [FormIdle EXCEPT !.pc = "error"]]
    /\ UNCHANGED <<storeVars, composer, sends, tokens, now, mishaps, historyVars>>

Created(i, b, l) ==
    conversations' = [conversations EXCEPT ![i] =
        [listing |-> l, snapshot |-> l, buyer |-> b, lastMessageAt |-> now]]

Lands(p, i) ==
    /\ landed' = landed \union {[buyer |-> starting[p].buyer, listing |-> starting[p].listing, conversation |-> i]}
    /\ starting' = [starting EXCEPT ![p] = FormIdle]

Unused == {i \in ConversationIds : conversations[i] = NoConversation}

\* Mutant: nothing stops a second row.
CreateWithoutIndex(p) ==
    /\ starting[p].pc = "create"
    /\ \E i \in Unused : Created(i, starting[p].buyer, starting[p].listing) /\ Lands(p, i)
    /\ Fine
    /\ UNCHANGED <<listing, messages, composer, sends, tokens, now, confirmed, failed>>

\* The insert, or the row that was there first.
StartCreate(p) ==
    LET b == starting[p].buyer
        l == starting[p].listing
    IN  /\ starting[p].pc = "create"
        /\ \/ /\ listing[l] # "removed" /\ SameIdentity(b, l) = {}
              /\ \E i \in Unused : Created(i, b, l) /\ Lands(p, i)
           \/ \E i \in SameIdentity(b, l) : Lands(p, i) /\ UNCHANGED conversations
        /\ Fine
        /\ UNCHANGED <<listing, messages, composer, sends, tokens, now, confirmed, failed>>

\* The listing went meanwhile, or the database failed, before or after its commit.
StartFails(p) ==
    LET b == starting[p].buyer
        l == starting[p].listing
    IN  /\ starting[p].pc = "create"
        /\ starting' = [starting EXCEPT ![p] = [FormIdle EXCEPT !.pc = "error"]]
        /\ \/ listing[l] = "removed" /\ Fine /\ UNCHANGED conversations
           \/ Mishap /\ UNCHANGED conversations
           \/ /\ Mishap /\ listing[l] # "removed" /\ SameIdentity(b, l) = {}
              /\ \E i \in Unused : Created(i, b, l)
        /\ UNCHANGED <<listing, messages, composer, sends, tokens, now, historyVars>>

-----------------------------------------------------------------------------
(* The composer *)

\* resolveConversationAccess
Access(who, i) == conversations[i] # NoConversation /\ who \in {conversations[i].buyer, Seller}

\* The thread page renders for a participant, whatever became of the listing.
OpenThread(p, who, i) ==
    /\ composer[p].pc = "closed"
    /\ Access(who, i)
    /\ composer' = [composer EXCEPT ![p] = [Closed EXCEPT !.pc = "rendered", !.who = who, !.conversation = i]]
    /\ UNCHANGED <<storeVars, starting, sends, tokens, now, mishaps, historyVars>>

\* The token is made after the mount, so that the markup has none.
Mount(p) ==
    /\ composer[p].pc = "rendered"
    /\ \E t \in Tokens \ tokens :
        /\ composer' = [composer EXCEPT ![p].pc = "mounted", ![p].token = t]
        /\ tokens' = tokens \union {t}
    /\ UNCHANGED <<storeVars, starting, sends, now, mishaps, historyVars>>

\* Before the mount the form is posted without a token; after an error with the same.
Submit(p, body) ==
    /\ composer[p].pc \in {"rendered", "mounted", "error"}
    /\ composer' = [composer EXCEPT ![p].pc = "sending"]
    /\ sends' = sends \union
          {[ what |-> [conversation |-> composer[p].conversation, sender |-> composer[p].who,
                       body |-> body, token |-> composer[p].token],
             page |-> p, createdAt |-> 0 ]}
    /\ UNCHANGED <<storeVars, starting, tokens, now, mishaps, historyVars>>

\* Mutant: the composer is reused with its token.
SentKeepsToken(s) ==
    IF s.page = NoPage THEN UNCHANGED <<composer, confirmed, failed>>
    ELSE /\ composer' = [composer EXCEPT ![s.page].pc = "mounted"]
         /\ confirmed' = confirmed \union {s.what}
         /\ UNCHANGED failed

\* A success redirects, which remounts the composer.
Sent(s) ==
    IF s.page = NoPage THEN UNCHANGED <<composer, confirmed, failed>>
    ELSE /\ composer' = [composer EXCEPT ![s.page].pc = "rendered", ![s.page].token = NoToken]
         /\ confirmed' = confirmed \union {s.what}
         /\ UNCHANGED failed

SendError(s) ==
    IF s.page = NoPage THEN UNCHANGED <<composer, confirmed, failed>>
    ELSE /\ composer' = [composer EXCEPT ![s.page].pc = "error"]
         /\ failed' = failed \union {s.what}
         /\ UNCHANGED confirmed

-----------------------------------------------------------------------------
(* sendConversationMessage *)

\* The access, the limit and the body are checked, then the row is stamped.
SendBegin(s) ==
    /\ s.createdAt = 0
    /\ \/ /\ Access(s.what.sender, s.what.conversation) /\ s.what.body \in Texts
          /\ sends' = (sends \ {s}) \union {[s EXCEPT !.createdAt = now]}
          /\ UNCHANGED <<composer, confirmed, failed>>
       \/ sends' = sends \ {s} /\ SendError(s)
    /\ UNCHANGED <<storeVars, starting, tokens, now, mishaps, landed>>

\* The unique submission index; null tokens are distinct.
SameSubmission(what) ==
    {m \in messages : /\ m.conversation = what.conversation /\ m.sender = what.sender
                      /\ m.token = what.token /\ m.token # NoToken}

\* Mutant: the trigger of migration 0013.
BumpUnconditionally(i, at) == conversations' = [conversations EXCEPT ![i].lastMessageAt = at]

\* The trigger of migration 0014.
BumpActivity(i, at) ==
    conversations' = [conversations EXCEPT ![i].lastMessageAt = IF @ < at THEN at ELSE @]

InsertMessage(s) ==
    /\ \E id \in MessageIds \ {m.id : m \in messages} :
        messages' = messages \union
            {[ id |-> id, conversation |-> s.what.conversation, sender |-> s.what.sender,
               body |-> s.what.body, token |-> s.what.token, createdAt |-> s.createdAt ]}
    /\ BumpActivity(s.what.conversation, s.createdAt)

\* Mutant: no unique index on the token.
SendInsertAlways(s) ==
    /\ s.createdAt # 0
    /\ InsertMessage(s) /\ Sent(s)
    /\ sends' = sends \ {s}
    /\ Fine
    /\ UNCHANGED <<listing, starting, tokens, now, landed>>

\* The insert, or the message that was stored under the token first.
SendInsert(s) ==
    /\ s.createdAt # 0
    /\ \/ SameSubmission(s.what) = {} /\ InsertMessage(s)
       \/ SameSubmission(s.what) # {} /\ UNCHANGED <<conversations, messages>>
    /\ Sent(s)
    /\ sends' = sends \ {s}
    /\ Fine
    /\ UNCHANGED <<listing, starting, tokens, now, landed>>

\* The database fails, before or after its commit.
SendFails(s) ==
    /\ s.createdAt # 0
    /\ Mishap
    /\ \/ SameSubmission(s.what) = {} /\ InsertMessage(s)
       \/ UNCHANGED <<conversations, messages>>
    /\ SendError(s)
    /\ sends' = sends \ {s}
    /\ UNCHANGED <<listing, starting, tokens, now, landed>>

\* The network delivers the request once more; nobody waits for that answer.
SendRepeated(s) ==
    /\ Mishap
    /\ sends' = sends \union {[s EXCEPT !.page = NoPage, !.createdAt = 0]}
    /\ sends' # sends
    /\ UNCHANGED <<storeVars, starting, composer, tokens, now, historyVars>>

\* The answer does not come: the page's error boundary renders the thread anew.
AnswerLost(p) ==
    /\ composer[p].pc = "sending"
    /\ Mishap
    /\ composer' = [composer EXCEPT ![p].pc = "rendered", ![p].token = NoToken]
    /\ sends' = {IF s.page = p THEN [s EXCEPT !.page = NoPage] ELSE s : s \in sends}
    /\ UNCHANGED <<storeVars, starting, tokens, now, historyVars>>

StartStep ==
    \/ \E p \in Pages : StartCreate(p) \/ StartFails(p)
    \/ \E p \in Pages, b \in Buyers, l \in Listings : StartBegin(p, b, l)
    \/ \E l \in Listings : ListingMoves(l) \/ ListingRemoved(l)

SendStep ==
    \/ \E p \in Pages : Mount(p) \/ AnswerLost(p)
    \/ \E p \in Pages, who \in Participants, i \in ConversationIds : OpenThread(p, who, i)
    \/ \E p \in Pages, body \in Bodies : Submit(p, body)
    \/ \E s \in sends : SendBegin(s) \/ SendInsert(s) \/ SendFails(s) \/ SendRepeated(s)
    \/ TimePasses

TalkSpec == TalkInit /\ [][StartStep \/ SendStep]_talkVars

-----------------------------------------------------------------------------
(* Properties *)

\* Whoever asks twice about a listing, from two pages or again after a failure, lands
\* in the same conversation.
SameListingSameThread ==
    \A x, y \in landed :
        x.buyer = y.buyer /\ x.listing = y.listing => x.conversation = y.conversation

IsStored(what) == \E m \in messages : /\ m.conversation = what.conversation /\ m.sender = what.sender
                                      /\ m.body = what.body /\ m.token = what.token

\* What the composer was told is sent is stored, unless the token already stood
\* for another text of the same page whose failure had been reported.
SentIsStored ==
    \A what \in confirmed :
        \/ IsStored(what)
        \/ \E f \in failed : /\ f = [what EXCEPT !.body = f.body]
                             /\ f.body # what.body /\ IsStored(f)

\* However often a submission is retried or delivered, it is stored once.
NothingTwice ==
    \A m \in messages : m.token # NoToken => Cardinality(SameSubmission(m)) = 1
=============================================================================
