-------------------------- MODULE ConversationsProofs --------------------------
(***************************************************************************)
(* Theorems of Conversations, for any number of buyers, listings, pages,   *)
(* texts, repeated deliveries and faults.                                  *)
(***************************************************************************)
EXTENDS Conversations, FiniteSetTheorems, TLAPS

-----------------------------------------------------------------------------
(* Types, and what a request holds *)

Started == \A p \in Pages : starting[p].pc = "create" =>
                starting[p].buyer \in Buyers /\ starting[p].listing \in Listings

Opened == \A p \in Pages : composer[p].pc # "closed" =>
                composer[p].who \in Participants /\ composer[p].conversation \in ConversationIds

\* A stamped message has its conversation and an accepted text.
Stamped == \A s \in sends : s.createdAt # 0 =>
                conversations[s.what.conversation] # NoConversation /\ s.what.body \in Texts

\* A page waits for the answer to one submission, made of what its composer holds.
Awaited == \A s \in sends : s.page # NoPage =>
    /\ composer[s.page] = [ pc |-> "sending", who |-> s.what.sender,
                            conversation |-> s.what.conversation, token |-> s.what.token ]
    /\ \A r \in sends : r.page = s.page => r = s

TypeInv == TalkTypeOK /\ Started /\ Opened /\ Stamped /\ Awaited

\* A row is told from no row by its snapshot.
LEMMA RowIsNotNone == \A c \in Conversation : c # NoConversation
  BY TalkAssumption DEF Conversation, NoConversation

\* Nobody has asked for anything: the first state is typed.
LEMMA InitTypeInv == TalkInit => TypeInv
<1> SUFFICES ASSUME TalkInit PROVE TypeInv
  OBVIOUS
<1>1. TalkTypeOK
  BY TalkAssumption DEF TalkInit, Quiet, TalkTypeOK, FormIdle, Closed
<1>2. Started /\ Opened /\ Stamped /\ Awaited
  BY DEF TalkInit, Quiet, Started, Opened, Stamped, Awaited, FormIdle, Closed
<1> QED
  BY <1>1, <1>2 DEF TypeInv

\* A new row, and the same rows beside it.
LEMMA CreatedRow ==
  ASSUME TypeInv, NEW i \in Unused, NEW b \in Buyers, NEW l \in Listings, Created(i, b, l)
  PROVE  /\ conversations' \in [ConversationIds -> Conversation \union {NoConversation}]
         /\ \A j \in ConversationIds : conversations[j] # NoConversation => conversations'[j] = conversations[j]
         /\ conversations'[i] = [listing |-> l, snapshot |-> l, buyer |-> b, lastMessageAt |-> now]
         /\ conversations'[i] # NoConversation
         /\ \A j \in ConversationIds \ {i} : conversations'[j] = conversations[j]
<1>1. i \in ConversationIds /\ conversations[i] = NoConversation
  BY DEF Unused
<1>2. [listing |-> l, snapshot |-> l, buyer |-> b, lastMessageAt |-> now] \in Conversation
  BY DEF TypeInv, TalkTypeOK, Conversation
<1> QED
  BY <1>1, <1>2, RowIsNotNone DEF TypeInv, TalkTypeOK, Created

\* The conversations and the form of one page change, and nothing else that is typed.
StartMoves(p) ==
    /\ starting' \in [Pages -> [pc: {"idle", "create", "error"}, buyer: Buyers \union {Nobody},
                                listing: Listings \union {NoListing}]]
    /\ \A q \in Pages \ {p} : starting'[q] = starting[q]
    /\ starting'[p].pc # "create"

\* A form that got its answer.
LEMMA FormAnswered ==
  ASSUME TypeInv, NEW p \in Pages, NEW pc \in {"idle", "error"},
         starting' = [starting EXCEPT ![p] = [FormIdle EXCEPT !.pc = pc]]
  PROVE  StartMoves(p)
  BY DEF TypeInv, TalkTypeOK, StartMoves, FormIdle

\* Typed as before, where only the rows and the forms of listings change.
LEMMA StartTyped ==
  ASSUME TypeInv,
         conversations' \in [ConversationIds -> Conversation \union {NoConversation}],
         \A i \in ConversationIds : conversations[i] # NoConversation => conversations'[i] # NoConversation,
         listing' \in [Listings -> {"published", "hidden", "removed"}],
         \/ starting' = starting
         \/ \E p \in Pages : StartMoves(p),
         mishaps' \in 0..MaxFaults,
         UNCHANGED <<messages, composer, sends, tokens, now, confirmed, failed>>
  PROVE  TypeInv'
<1>1. TalkTypeOK'
  BY DEF TypeInv, TalkTypeOK, StartMoves
<1>2. Started'
  BY DEF TypeInv, TalkTypeOK, Started, StartMoves
<1>3. Opened' /\ Stamped' /\ Awaited'
  BY DEF TypeInv, TalkTypeOK, Opened, Stamped, Awaited, Send, Submission
<1> QED
  BY <1>1, <1>2, <1>3 DEF TypeInv

\* A fault is counted, or there is none.
LEMMA FaultsCounted ==
  ASSUME TypeInv, Mishap \/ Fine
  PROVE  mishaps' \in 0..MaxFaults
  BY TalkAssumption DEF TypeInv, TalkTypeOK, Mishap, Fine

\* A request to start a conversation keeps the types.
LEMMA StartStepTypeInv ==
  ASSUME TypeInv, StartStep
  PROVE  TypeInv'
<1>1. ASSUME NEW p \in Pages, StartCreate(p)
      PROVE  TypeInv'
  <2> DEFINE b == starting[p].buyer  l == starting[p].listing
  <2>1. b \in Buyers /\ l \in Listings
    BY <1>1 DEF StartCreate, TypeInv, Started
  <2>2. starting' = [starting EXCEPT ![p] = [FormIdle EXCEPT !.pc = "idle"]]
    BY <1>1 DEF StartCreate, Lands, FormIdle
  <2>3. StartMoves(p) /\ mishaps' \in 0..MaxFaults
    BY <1>1, <2>2, FormAnswered, FaultsCounted DEF StartCreate
  <2>4. CASE \E i \in Unused : Created(i, b, l)
    <3>1. PICK i \in Unused : Created(i, b, l)
      BY <2>4
    <3>2. /\ conversations' \in [ConversationIds -> Conversation \union {NoConversation}]
          /\ \A j \in ConversationIds : conversations[j] # NoConversation => conversations'[j] # NoConversation
      BY <2>1, <3>1, CreatedRow
    <3> QED
      BY <1>1, <2>3, <3>2, StartTyped DEF StartCreate, TypeInv, TalkTypeOK
  <2>5. CASE UNCHANGED conversations
    BY <1>1, <2>3, <2>5, StartTyped DEF StartCreate, TypeInv, TalkTypeOK
  <2> QED
    BY <1>1, <2>4, <2>5 DEF StartCreate
<1>2. ASSUME NEW p \in Pages, StartFails(p)
      PROVE  TypeInv'
  <2> DEFINE b == starting[p].buyer  l == starting[p].listing
  <2>1. b \in Buyers /\ l \in Listings
    BY <1>2 DEF StartFails, TypeInv, Started
  <2>2. StartMoves(p) /\ mishaps' \in 0..MaxFaults
    BY <1>2, FormAnswered, FaultsCounted DEF StartFails
  <2>3. CASE \E i \in Unused : Created(i, b, l)
    <3>1. PICK i \in Unused : Created(i, b, l)
      BY <2>3
    <3>2. /\ conversations' \in [ConversationIds -> Conversation \union {NoConversation}]
          /\ \A j \in ConversationIds : conversations[j] # NoConversation => conversations'[j] # NoConversation
      BY <2>1, <3>1, CreatedRow
    <3> QED
      BY <1>2, <2>2, <3>2, StartTyped DEF StartFails, TypeInv, TalkTypeOK, historyVars
  <2>4. CASE UNCHANGED conversations
    BY <1>2, <2>2, <2>4, StartTyped DEF StartFails, TypeInv, TalkTypeOK, historyVars
  <2> QED
    BY <1>2, <2>3, <2>4 DEF StartFails
<1>3. ASSUME NEW p \in Pages, NEW b \in Buyers, NEW l \in Listings, StartBegin(p, b, l)
      PROVE  TypeInv'
  <2>1. /\ starting' \in [Pages -> [pc: {"idle", "create", "error"}, buyer: Buyers \union {Nobody},
                                    listing: Listings \union {NoListing}]]
        /\ Started'
    BY <1>3 DEF StartBegin, TypeInv, TalkTypeOK, Started, FormIdle
  <2>2. TalkTypeOK' /\ Opened' /\ Stamped' /\ Awaited'
    BY <1>3, <2>1 DEF StartBegin, TypeInv, TalkTypeOK, Opened, Stamped, Awaited, storeVars, historyVars
  <2> QED
    BY <2>1, <2>2 DEF TypeInv
<1>4. ASSUME NEW l \in Listings, ListingMoves(l)
      PROVE  TypeInv'
  BY <1>4, StartTyped DEF ListingMoves, TypeInv, TalkTypeOK, historyVars
<1>5. ASSUME NEW l \in Listings, ListingRemoved(l)
      PROVE  TypeInv'
  <2>1. /\ conversations' \in [ConversationIds -> Conversation \union {NoConversation}]
        /\ \A i \in ConversationIds : conversations[i] # NoConversation => conversations'[i] # NoConversation
    <3>1. ASSUME NEW i \in ConversationIds
          PROVE  /\ conversations'[i] \in Conversation \union {NoConversation}
                 /\ conversations[i] # NoConversation => conversations'[i] # NoConversation
      <4>1. CASE conversations[i].listing = l
        <5>1. conversations[i] \in Conversation
          BY <4>1, TalkAssumption DEF TypeInv, TalkTypeOK, NoConversation
        <5>2. conversations'[i] = [conversations[i] EXCEPT !.listing = NoListing]
          BY <1>5, <4>1 DEF ListingRemoved
        <5>3. conversations'[i] \in Conversation
          BY <5>1, <5>2 DEF Conversation
        <5> QED
          BY <5>3, RowIsNotNone
      <4>2. CASE conversations[i].listing # l
        BY <1>5, <4>2 DEF ListingRemoved, TypeInv, TalkTypeOK
      <4> QED
        BY <4>1, <4>2
    <3> QED
      BY <1>5, <3>1 DEF ListingRemoved
  <2> QED
    BY <1>5, <2>1, StartTyped DEF ListingRemoved, TypeInv, TalkTypeOK, historyVars
<1> QED
  BY <1>1, <1>2, <1>3, <1>4, <1>5 DEF StartStep

\* What the composers and the requests may be.
ComposerShape ==
    [pc: {"closed", "rendered", "mounted", "sending", "error"}, who: Participants \union {Nobody},
     conversation: ConversationIds \union {0}, token: Tokens \union {NoToken}]

\* Typed as before, where only composers, requests and answers change.
LEMMA SendTyped ==
  ASSUME TypeInv,
         composer' \in [Pages -> ComposerShape], Opened',
         sends' \subseteq Send, Stamped', Awaited', tokens' \subseteq Tokens,
         mishaps' \in 0..MaxFaults, confirmed' \subseteq Submission, failed' \subseteq Submission,
         UNCHANGED <<storeVars, starting, now>>
  PROVE  TypeInv'
  BY DEF TypeInv, TalkTypeOK, Started, ComposerShape, storeVars

\* An answer moves the composer of its page, if any, and is typed.
LEMMA AnswerTyped ==
  ASSUME TypeInv, NEW s \in sends, Sent(s) \/ SendError(s)
  PROVE  /\ composer' \in [Pages -> ComposerShape]
         /\ Opened'
         /\ confirmed' \subseteq Submission /\ failed' \subseteq Submission
         /\ \A p \in Pages \ {s.page} : composer'[p] = composer[p]
<1>1. s.what \in Submission /\ s.page \in Pages \union {NoPage}
  BY DEF TypeInv, TalkTypeOK, Send
<1>2. composer \in [Pages -> ComposerShape] /\ confirmed \subseteq Submission /\ failed \subseteq Submission
  BY DEF TypeInv, TalkTypeOK, ComposerShape
<1>3. CASE s.page = NoPage
  BY <1>2, <1>3 DEF Sent, SendError, TypeInv, Opened
<1>4. CASE s.page # NoPage
  <2>1. composer' \in [Pages -> ComposerShape]
    BY <1>1, <1>2, <1>4 DEF Sent, SendError, ComposerShape
  <2>2. composer[s.page].who \in Participants /\ composer[s.page].conversation \in ConversationIds
    <3>1. composer[s.page] = [ pc |-> "sending", who |-> s.what.sender,
                               conversation |-> s.what.conversation, token |-> s.what.token ]
      BY <1>4 DEF TypeInv, Awaited
    <3>2. s.what.sender \in Participants /\ s.what.conversation \in ConversationIds
      BY <1>1 DEF Submission
    <3> QED
      BY <3>1, <3>2
  <2>3. /\ composer'[s.page].who = composer[s.page].who
        /\ composer'[s.page].conversation = composer[s.page].conversation
        /\ \A p \in Pages \ {s.page} : composer'[p] = composer[p]
    BY <1>1, <1>2, <1>4 DEF Sent, SendError, ComposerShape
  <2>4. Opened'
    BY <1>1, <1>4, <2>2, <2>3 DEF TypeInv, Opened
  <2> QED
    BY <1>1, <1>2, <1>4, <2>1, <2>3, <2>4 DEF Sent, SendError
<1> QED
  BY <1>3, <1>4

\* The new row of a message, and the activity of its conversation.
LEMMA InsertTyped ==
  ASSUME TypeInv, NEW s \in sends, s.createdAt # 0, InsertMessage(s)
  PROVE  /\ conversations' \in [ConversationIds -> Conversation \union {NoConversation}]
         /\ \A i \in ConversationIds : conversations[i] # NoConversation => conversations'[i] # NoConversation
         /\ messages' \subseteq Message
         /\ \A m, n \in messages' : m.id = n.id => m = n
<1>1. s.what \in Submission /\ s.createdAt \in 1..MaxTime
  BY TalkAssumption DEF TypeInv, TalkTypeOK, Send
<1>2. /\ s.what.conversation \in ConversationIds /\ s.what.sender \in Participants
      /\ s.what.body \in Texts /\ s.what.token \in Tokens \union {NoToken}
      /\ conversations[s.what.conversation] # NoConversation
  BY <1>1 DEF Submission, TypeInv, Stamped
<1> DEFINE i == s.what.conversation
           at == s.createdAt
           row == [conversations[i] EXCEPT !.lastMessageAt = IF @ < at THEN at ELSE @]
<1>3. conversations[i] \in Conversation
  BY <1>2 DEF TypeInv, TalkTypeOK
<1>4. row \in Conversation
  <2>1. conversations[i].lastMessageAt \in 1..MaxTime
    BY <1>3 DEF Conversation
  <2>2. (IF conversations[i].lastMessageAt < at THEN at ELSE conversations[i].lastMessageAt) \in 1..MaxTime
    BY <1>1, <2>1
  <2> HIDE DEF at
  <2> QED
    BY <1>3, <2>2 DEF Conversation
<1>5. conversations' = [conversations EXCEPT ![i] = row]
  BY DEF InsertMessage, BumpActivity
<1>6. /\ conversations' \in [ConversationIds -> Conversation \union {NoConversation}]
      /\ \A j \in ConversationIds : conversations[j] # NoConversation => conversations'[j] # NoConversation
  <2> HIDE DEF row
  <2> QED
    BY <1>2, <1>4, <1>5, RowIsNotNone DEF TypeInv, TalkTypeOK
<1>7. PICK id \in MessageIds \ {m.id : m \in messages} :
        messages' = messages \union
            {[ id |-> id, conversation |-> s.what.conversation, sender |-> s.what.sender,
               body |-> s.what.body, token |-> s.what.token, createdAt |-> s.createdAt ]}
  BY DEF InsertMessage
<1>8. messages' \subseteq Message /\ \A m, n \in messages' : m.id = n.id => m = n
  BY <1>1, <1>2, <1>7 DEF TypeInv, TalkTypeOK, Message
<1> QED
  BY <1>6, <1>8

\* What a request that is over leaves is typed, whatever it wrote.
LEMMA OverTyped ==
  ASSUME TypeInv, NEW s \in sends, s.createdAt # 0,
         InsertMessage(s) \/ UNCHANGED <<conversations, messages>>,
         Sent(s) \/ SendError(s),
         Mishap \/ Fine,
         sends' = sends \ {s},
         UNCHANGED <<listing, starting, tokens, now, landed>>
  PROVE  TypeInv'
<1>1. /\ conversations' \in [ConversationIds -> Conversation \union {NoConversation}]
      /\ \A i \in ConversationIds : conversations[i] # NoConversation => conversations'[i] # NoConversation
      /\ messages' \subseteq Message
      /\ \A m, n \in messages' : m.id = n.id => m = n
  BY InsertTyped DEF TypeInv, TalkTypeOK
<1>2. /\ composer' \in [Pages -> ComposerShape] /\ Opened'
      /\ confirmed' \subseteq Submission /\ failed' \subseteq Submission
  BY AnswerTyped
<1>3. Started' /\ Stamped' /\ Awaited'
  <2>1. Started' /\ Stamped'
    BY <1>1 DEF TypeInv, TalkTypeOK, Started, Stamped, Send, Submission
  <2>2. Awaited'
    BY AnswerTyped DEF TypeInv, TalkTypeOK, Awaited, Send
  <2> QED
    BY <2>1, <2>2
<1>4. mishaps' \in 0..MaxFaults
  BY FaultsCounted
<1>5. TalkTypeOK'
  BY <1>1, <1>2, <1>4 DEF TypeInv, TalkTypeOK, ComposerShape
<1> QED
  BY <1>2, <1>3, <1>5 DEF TypeInv

\* A step of a composer or of a send keeps the types.
LEMMA SendStepTypeInv ==
  ASSUME TypeInv, SendStep
  PROVE  TypeInv'
<1> USE DEF storeVars, historyVars
<1>0. /\ composer \in [Pages -> ComposerShape] /\ sends \subseteq Send /\ tokens \subseteq Tokens
      /\ confirmed \subseteq Submission /\ failed \subseteq Submission /\ mishaps \in 0..MaxFaults
      /\ now \in 1..MaxTime
  BY DEF TypeInv, TalkTypeOK, ComposerShape
<1>1. ASSUME NEW p \in Pages, Mount(p)
      PROVE  TypeInv'
  <2>1. PICK t \in Tokens \ tokens :
          /\ composer' = [composer EXCEPT ![p].pc = "mounted", ![p].token = t]
          /\ tokens' = tokens \union {t}
    BY <1>1 DEF Mount
  <2>2. composer' \in [Pages -> ComposerShape] /\ tokens' \subseteq Tokens
    BY <1>0, <2>1 DEF ComposerShape
  <2>3. Opened' /\ Stamped' /\ Awaited'
    BY <1>0, <1>1, <2>1 DEF Mount, TypeInv, Opened, Stamped, Awaited, Send, ComposerShape
  <2> QED
    BY <1>0, <1>1, <2>2, <2>3, SendTyped DEF Mount
<1>2. ASSUME NEW p \in Pages, AnswerLost(p)
      PROVE  TypeInv'
  <2>1. composer' \in [Pages -> ComposerShape]
    BY <1>0, <1>2 DEF AnswerLost, ComposerShape
  <2>2. sends' \subseteq Send
    BY <1>0, <1>2 DEF AnswerLost, Send
  <2>3. Opened'
    BY <1>0, <1>2 DEF AnswerLost, TypeInv, Opened, ComposerShape
  <2>4. Stamped'
    BY <1>0, <1>2 DEF AnswerLost, TypeInv, Stamped, Send
  <2>5. Awaited'
    <3>1. \A s \in sends' : s.page # NoPage => s \in sends /\ s.page # p
      BY <1>0, <1>2, TalkAssumption DEF AnswerLost, Send
    <3> QED
      BY <1>0, <1>2, <3>1 DEF AnswerLost, TypeInv, Awaited, Send
  <2> QED
    BY <1>0, <1>2, <2>1, <2>2, <2>3, <2>4, <2>5, SendTyped, FaultsCounted DEF AnswerLost
<1>3. ASSUME NEW p \in Pages, NEW who \in Participants, NEW i \in ConversationIds, OpenThread(p, who, i)
      PROVE  TypeInv'
  <2>1. composer' \in [Pages -> ComposerShape]
    BY <1>0, <1>3 DEF OpenThread, ComposerShape, Closed
  <2>2. Opened' /\ Stamped' /\ Awaited'
    BY <1>0, <1>3 DEF OpenThread, TypeInv, Opened, Stamped, Awaited, Send, ComposerShape, Closed
  <2> QED
    BY <1>0, <1>3, <2>1, <2>2, SendTyped DEF OpenThread
<1>4. ASSUME NEW p \in Pages, NEW body \in Bodies, Submit(p, body)
      PROVE  TypeInv'
  <2> DEFINE new == [ what |-> [ conversation |-> composer[p].conversation, sender |-> composer[p].who,
                                 body |-> body, token |-> composer[p].token ],
                      page |-> p, createdAt |-> 0 ]
  <2>1. composer[p] \in ComposerShape /\ composer[p].pc # "closed" /\ composer[p].pc # "sending"
    BY <1>0, <1>4 DEF Submit
  <2>2. new \in Send
    BY <1>4, <2>1, TalkAssumption DEF TypeInv, Opened, Send, Submission, ComposerShape
  <2>3. sends' = sends \union {new} /\ composer' = [composer EXCEPT ![p].pc = "sending"]
    BY <1>4 DEF Submit
  <2>4. composer' \in [Pages -> ComposerShape] /\ sends' \subseteq Send
    BY <1>0, <2>2, <2>3 DEF ComposerShape
  <2>5. \A s \in sends : s.page # p
    <3> SUFFICES ASSUME NEW s \in sends, s.page = p PROVE FALSE
      OBVIOUS
    <3>1. composer[p] = [ pc |-> "sending", who |-> s.what.sender,
                          conversation |-> s.what.conversation, token |-> s.what.token ]
      BY TalkAssumption DEF TypeInv, Awaited
    <3>2. composer[p].pc = "sending"
      BY <3>1
    <3> QED
      BY <2>1, <3>2
  <2>6. Opened' /\ Stamped'
    BY <1>0, <1>4, <2>1, <2>3 DEF Submit, TypeInv, Opened, Stamped, ComposerShape
  <2>7. Awaited'
    <3>1. composer'[p] = [ pc |-> "sending", who |-> composer[p].who,
                           conversation |-> composer[p].conversation, token |-> composer[p].token ]
      BY <1>0, <2>1, <2>3 DEF ComposerShape
    <3>2. \A q \in Pages \ {p} : composer'[q] = composer[q]
      BY <1>0, <2>3
    <3> QED
      BY <1>0, <2>3, <2>5, <3>1, <3>2 DEF TypeInv, Awaited, Send
  <2> QED
    BY <1>0, <1>4, <2>4, <2>6, <2>7, SendTyped DEF Submit
<1>5. ASSUME NEW s \in sends, SendBegin(s)
      PROVE  TypeInv'
  <2>1. CASE /\ Access(s.what.sender, s.what.conversation) /\ s.what.body \in Texts
             /\ sends' = (sends \ {s}) \union {[s EXCEPT !.createdAt = now]}
             /\ UNCHANGED <<composer, confirmed, failed>>
    <3> DEFINE new == [s EXCEPT !.createdAt = now]
    <3>1. new \in Send /\ new.what = s.what /\ new.page = s.page
      BY <1>0, TalkAssumption DEF Send
    <3>2. sends' \subseteq Send
      BY <1>0, <2>1, <3>1
    <3>3. Opened' /\ Stamped'
      BY <1>0, <1>5, <2>1, <3>1 DEF SendBegin, TypeInv, Opened, Stamped, Access
    <3>4. Awaited'
      <4>1. \A r \in sends' : r = new \/ (r \in sends /\ r # s)
        BY <2>1
      <4> HIDE DEF new
      <4> QED
        BY <2>1, <3>1, <4>1 DEF TypeInv, Awaited
    <3> QED
      BY <1>0, <1>5, <2>1, <3>2, <3>3, <3>4, SendTyped DEF SendBegin
  <2>2. CASE sends' = sends \ {s} /\ SendError(s)
    <3>1. /\ composer' \in [Pages -> ComposerShape] /\ Opened'
          /\ confirmed' \subseteq Submission /\ failed' \subseteq Submission
          /\ \A p \in Pages \ {s.page} : composer'[p] = composer[p]
      BY <2>2, AnswerTyped
    <3>2. Stamped' /\ Awaited'
      BY <1>0, <1>5, <2>2, <3>1 DEF SendBegin, TypeInv, Stamped, Awaited, Send
    <3> QED
      BY <1>0, <1>5, <2>2, <3>1, <3>2, SendTyped DEF SendBegin
  <2> QED
    BY <1>5, <2>1, <2>2 DEF SendBegin
<1>6. ASSUME NEW s \in sends, SendInsert(s) \/ SendFails(s)
      PROVE  TypeInv'
  BY <1>6, OverTyped DEF SendInsert, SendFails
<1>7. ASSUME NEW s \in sends, SendRepeated(s)
      PROVE  TypeInv'
  <2> DEFINE new == [s EXCEPT !.page = NoPage, !.createdAt = 0]
  <2>1. new \in Send /\ new.page = NoPage /\ new.createdAt = 0
    <3> DEFINE half == [s EXCEPT !.page = NoPage]
    <3>1. half \in Send /\ half.page = NoPage
      BY <1>0 DEF Send
    <3>2. new = [half EXCEPT !.createdAt = 0]
      OBVIOUS
    <3>3. 0 \in 0..MaxTime
      BY TalkAssumption
    <3> HIDE DEF new, half
    <3> QED
      BY <3>1, <3>2, <3>3 DEF Send
  <2>2. sends' = sends \union {new}
    BY <1>7 DEF SendRepeated
  <2> HIDE DEF new
  <2>3. sends' \subseteq Send /\ Opened' /\ Stamped' /\ Awaited'
    BY <1>0, <1>7, <2>1, <2>2 DEF SendRepeated, TypeInv, Opened, Stamped, Awaited
  <2> QED
    BY <1>0, <1>7, <2>3, SendTyped, FaultsCounted DEF SendRepeated
<1>8. ASSUME TimePasses
      PROVE  TypeInv'
  <2>1. now' \in 1..MaxTime
    BY <1>0, <1>8, TalkAssumption DEF TimePasses
  <2>2. TalkTypeOK'
    BY <1>8, <2>1 DEF TimePasses, TypeInv, TalkTypeOK
  <2> QED
    BY <1>8, <2>2 DEF TimePasses, TypeInv, Started, Opened, Stamped, Awaited
<1> QED
  BY <1>1, <1>2, <1>3, <1>4, <1>5, <1>6, <1>7, <1>8 DEF SendStep

TalkStep == StartStep \/ SendStep

\* A step, or none, keeps the types.
LEMMA TypeInvStep == TypeInv /\ [TalkStep]_talkVars => TypeInv'
<1>1. TypeInv /\ UNCHANGED talkVars => TypeInv'
  BY DEF TypeInv, TalkTypeOK, Started, Opened, Stamped, Awaited, talkVars
<1> QED
  BY <1>1, StartStepTypeInv, SendStepTypeInv DEF TalkStep

\* Every reachable state is typed, a stamped message has its conversation, and a page
\* waits for one answer.
THEOREM TalkTypeCorrect == TalkSpec => []TypeInv
<1>1. TypeInv /\ [StartStep \/ SendStep]_talkVars => TypeInv'
  BY TypeInvStep DEF TalkStep
<1> QED
  BY InitTypeInv, <1>1, PTL DEF TalkSpec

-----------------------------------------------------------------------------
(* One conversation per listing and buyer *)

Taken == {i \in ConversationIds : conversations[i] # NoConversation}

\* While the listing is there the row refers to it.
Attached == \A i \in Taken :
    /\ conversations[i].listing \in {conversations[i].snapshot, NoListing}
    /\ listing[conversations[i].snapshot] # "removed" =>
          conversations[i].listing = conversations[i].snapshot

\* Stronger than the index, which forgets what a row was about.
OnePerSnapshot == \A i, j \in Taken :
    /\ conversations[i].snapshot = conversations[j].snapshot
    /\ conversations[i].buyer = conversations[j].buyer
    => i = j

\* Whoever was led to a conversation is its buyer and asked about its listing.
LedRight == \A x \in landed :
    /\ x.conversation \in Taken
    /\ conversations[x.conversation].snapshot = x.listing
    /\ conversations[x.conversation].buyer = x.buyer

IdentityInv == Attached /\ OnePerSnapshot /\ LedRight

\* Rows that differ in their activity only are the same conversations.
SameRows ==
    /\ conversations' \in [ConversationIds -> Conversation \union {NoConversation}]
    /\ \A i \in ConversationIds :
        /\ conversations'[i] # NoConversation <=> conversations[i] # NoConversation
        /\ conversations'[i].listing = conversations[i].listing
        /\ conversations'[i].snapshot = conversations[i].snapshot
        /\ conversations'[i].buyer = conversations[i].buyer

\* Nobody lands, no listing is removed and no row is made.
LEMMA QuietIdentity ==
  ASSUME TypeInv, IdentityInv, SameRows, landed' = landed,
         \A l \in Listings : listing[l] = "removed" <=> listing'[l] = "removed"
  PROVE  IdentityInv'
<1>1. Taken' = Taken
  BY DEF Taken, SameRows
<1>2. \A i \in Taken : conversations[i].snapshot \in Listings
  BY DEF Taken, TypeInv, TalkTypeOK, Conversation
<1>3. Attached'
  BY <1>1, <1>2 DEF IdentityInv, Attached, SameRows, Taken
<1>4. OnePerSnapshot' /\ LedRight'
  BY <1>1 DEF IdentityInv, OnePerSnapshot, LedRight, SameRows, Taken
<1> QED
  BY <1>3, <1>4 DEF IdentityInv

\* A row is inserted where the index has none.
LEMMA CreatedIdentity ==
  ASSUME TypeInv, IdentityInv, NEW i \in Unused, NEW b \in Buyers, NEW l \in Listings,
         Created(i, b, l), SameIdentity(b, l) = {}, listing[l] # "removed", listing' = listing,
         landed' \subseteq landed \union {[buyer |-> b, listing |-> l, conversation |-> i]}
  PROVE  IdentityInv'
<1>1. /\ i \in ConversationIds /\ i \notin Taken
      /\ conversations'[i] = [listing |-> l, snapshot |-> l, buyer |-> b, lastMessageAt |-> now]
      /\ conversations'[i] # NoConversation
      /\ \A j \in ConversationIds \ {i} : conversations'[j] = conversations[j]
  BY CreatedRow DEF Unused, Taken
<1>2. Taken' = Taken \union {i}
  BY <1>1 DEF Taken
<1>3. \A j \in Taken : j \in ConversationIds \ {i}
  BY <1>1 DEF Taken
<1>4. \A j \in Taken : ~(conversations[j].snapshot = l /\ conversations[j].buyer = b)
  BY DEF IdentityInv, Attached, SameIdentity, Taken
<1>5. Attached'
  BY <1>1, <1>2, <1>3 DEF IdentityInv, Attached
<1>6. OnePerSnapshot'
  BY <1>1, <1>2, <1>3, <1>4 DEF IdentityInv, OnePerSnapshot
<1>7. LedRight'
  BY <1>1, <1>2, <1>3 DEF IdentityInv, LedRight
<1> QED
  BY <1>5, <1>6, <1>7 DEF IdentityInv

\* The page is led to the row that the index found.
LEMMA FoundIdentity ==
  ASSUME TypeInv, IdentityInv, NEW b \in Buyers, NEW l \in Listings, NEW i \in SameIdentity(b, l),
         UNCHANGED <<conversations, listing>>,
         landed' = landed \union {[buyer |-> b, listing |-> l, conversation |-> i]}
  PROVE  IdentityInv'
<1>1. i \in Taken /\ conversations[i].snapshot = l /\ conversations[i].buyer = b
  BY TalkAssumption DEF SameIdentity, Taken, NoConversation, IdentityInv, Attached
<1>2. Attached' /\ OnePerSnapshot'
  BY DEF IdentityInv, Attached, OnePerSnapshot, Taken
<1>3. LedRight'
  BY <1>1 DEF IdentityInv, LedRight, Taken
<1> QED
  BY <1>2, <1>3 DEF IdentityInv

\* A step of a form or of a listing keeps conversations apart.
LEMMA StartStepIdentity ==
  ASSUME TypeInv, IdentityInv, StartStep
  PROVE  IdentityInv'
<1>1. ASSUME NEW p \in Pages, StartCreate(p)
      PROVE  IdentityInv'
  <2> DEFINE b == starting[p].buyer  l == starting[p].listing
  <2>1. b \in Buyers /\ l \in Listings
    BY <1>1 DEF StartCreate, TypeInv, Started
  <2>2. CASE /\ listing[l] # "removed" /\ SameIdentity(b, l) = {}
             /\ \E i \in Unused : Created(i, b, l) /\ Lands(p, i)
    BY <1>1, <2>1, <2>2, CreatedIdentity DEF StartCreate, Lands
  <2>3. CASE \E i \in SameIdentity(b, l) : Lands(p, i) /\ UNCHANGED conversations
    BY <1>1, <2>1, <2>3, FoundIdentity DEF StartCreate, Lands
  <2> QED
    BY <1>1, <2>2, <2>3 DEF StartCreate
<1>2. ASSUME NEW p \in Pages, StartFails(p)
      PROVE  IdentityInv'
  <2> DEFINE b == starting[p].buyer  l == starting[p].listing
  <2>1. b \in Buyers /\ l \in Listings
    BY <1>2 DEF StartFails, TypeInv, Started
  <2>2. listing' = listing /\ landed' = landed
    BY <1>2 DEF StartFails, historyVars
  <2>3. CASE /\ listing[l] # "removed" /\ SameIdentity(b, l) = {}
             /\ \E i \in Unused : Created(i, b, l)
    BY <2>1, <2>2, <2>3, CreatedIdentity
  <2>4. CASE UNCHANGED conversations
    BY <2>2, <2>4 DEF IdentityInv, Attached, OnePerSnapshot, LedRight, Taken
  <2> QED
    BY <1>2, <2>3, <2>4 DEF StartFails
<1>3. ASSUME NEW p \in Pages, NEW b \in Buyers, NEW l \in Listings, StartBegin(p, b, l)
      PROVE  IdentityInv'
  BY <1>3 DEF StartBegin, storeVars, historyVars, IdentityInv, Attached, OnePerSnapshot, LedRight, Taken
<1>4. ASSUME NEW l \in Listings, ListingMoves(l)
      PROVE  IdentityInv'
  <2>1. \A k \in Listings : listing[k] = "removed" <=> listing'[k] = "removed"
    BY <1>4 DEF ListingMoves, TypeInv, TalkTypeOK
  <2>2. SameRows /\ landed' = landed
    BY <1>4 DEF ListingMoves, SameRows, TypeInv, TalkTypeOK, historyVars
  <2> QED
    BY <2>1, <2>2, QuietIdentity
<1>5. ASSUME NEW l \in Listings, ListingRemoved(l)
      PROVE  IdentityInv'
  <2>1. listing' = [listing EXCEPT ![l] = "removed"] /\ landed' = landed
    BY <1>5 DEF ListingRemoved, historyVars
  <2>2. ASSUME NEW i \in Taken
        PROVE  /\ conversations[i] \in Conversation
               /\ conversations'[i].snapshot = conversations[i].snapshot
               /\ conversations'[i].buyer = conversations[i].buyer
               /\ conversations'[i].listing =
                     IF conversations[i].listing = l THEN NoListing ELSE conversations[i].listing
               /\ conversations'[i] \in Conversation
    <3>1. i \in ConversationIds /\ conversations[i] \in Conversation
      BY DEF Taken, TypeInv, TalkTypeOK
    <3>2. conversations'[i] = IF conversations[i].listing = l
                              THEN [conversations[i] EXCEPT !.listing = NoListing] ELSE conversations[i]
      BY <1>5, <3>1 DEF ListingRemoved
    <3> QED
      BY <3>1, <3>2 DEF Conversation
  <2>3. Taken' = Taken
    <3>1. ASSUME NEW i \in ConversationIds, i \notin Taken
          PROVE  conversations'[i] = NoConversation
      BY <1>5, <3>1, TalkAssumption DEF ListingRemoved, Taken, NoConversation
    <3> QED
      BY <2>2, <3>1, RowIsNotNone DEF Taken
  <2>4. Attached'
    <3>1. \A i \in Taken : conversations[i].snapshot \in Listings
      BY <2>2 DEF Conversation
    <3> QED
      BY <2>1, <2>2, <2>3, <3>1, TalkAssumption DEF IdentityInv, Attached, TypeInv, TalkTypeOK
  <2>5. OnePerSnapshot' /\ LedRight'
    BY <2>1, <2>2, <2>3 DEF IdentityInv, OnePerSnapshot, LedRight
  <2> QED
    BY <2>4, <2>5 DEF IdentityInv
<1> QED
  BY <1>1, <1>2, <1>3, <1>4, <1>5 DEF StartStep

\* Sending moves a conversation's activity at most.
LEMMA SendStepIdentity ==
  ASSUME TypeInv, IdentityInv, SendStep
  PROVE  IdentityInv'
<1>1. listing' = listing /\ landed' = landed
  BY DEF SendStep, Mount, AnswerLost, OpenThread, Submit, SendBegin, SendInsert, SendFails,
      SendRepeated, TimePasses, storeVars, historyVars
<1>2. \/ UNCHANGED conversations
      \/ \E s \in sends : s.createdAt # 0 /\ InsertMessage(s)
  BY DEF SendStep, Mount, AnswerLost, OpenThread, Submit, SendBegin, SendInsert, SendFails,
      SendRepeated, TimePasses, storeVars
<1>3. SameRows
  <2>1. CASE UNCHANGED conversations
    BY <2>1 DEF SameRows, TypeInv, TalkTypeOK
  <2>2. ASSUME NEW s \in sends, s.createdAt # 0, InsertMessage(s)
        PROVE  SameRows
    <3> DEFINE i == s.what.conversation
    <3>1. i \in ConversationIds /\ conversations[i] \in Conversation
      BY <2>2 DEF TypeInv, TalkTypeOK, Stamped, Send, Submission
    <3>2. /\ \A j \in ConversationIds \ {i} : conversations'[j] = conversations[j]
          /\ conversations'[i].listing = conversations[i].listing
          /\ conversations'[i].snapshot = conversations[i].snapshot
          /\ conversations'[i].buyer = conversations[i].buyer
      BY <2>2, <3>1 DEF InsertMessage, BumpActivity, TypeInv, TalkTypeOK, Conversation
    <3>3. /\ conversations' \in [ConversationIds -> Conversation \union {NoConversation}]
          /\ conversations'[i] # NoConversation
      BY <2>2, <3>1, InsertTyped, RowIsNotNone
    <3> QED
      BY <3>1, <3>2, <3>3, RowIsNotNone DEF SameRows
  <2> QED
    BY <1>2, <2>1, <2>2
<1> QED
  BY <1>1, <1>3, QuietIdentity

\* Whoever asks twice about a listing lands in the same conversation, from however many
\* pages, whatever fails in between, and also when the listing is removed meanwhile.
THEOREM OneThreadPerListing == TalkSpec => []SameListingSameThread
<1>1. TalkInit => TypeInv /\ IdentityInv
  BY InitTypeInv DEF TalkInit, Quiet, IdentityInv, Attached, OnePerSnapshot, LedRight, Taken
<1>2. TypeInv /\ IdentityInv /\ [StartStep \/ SendStep]_talkVars => TypeInv' /\ IdentityInv'
  <2>1. IdentityInv /\ UNCHANGED talkVars => IdentityInv'
    BY DEF IdentityInv, Attached, OnePerSnapshot, LedRight, Taken, talkVars
  <2> QED
    BY <2>1, TypeInvStep, StartStepIdentity, SendStepIdentity DEF TalkStep
<1>3. IdentityInv => SameListingSameThread
  BY DEF IdentityInv, OnePerSnapshot, LedRight, SameListingSameThread
<1> QED
  BY <1>1, <1>2, <1>3, PTL DEF TalkSpec

-----------------------------------------------------------------------------
(* One message per submission *)

\* The unique submission index, as a relation of rows.
OnePerToken == \A m, n \in messages :
    /\ m.conversation = n.conversation /\ m.sender = n.sender
    /\ m.token = n.token /\ m.token # NoToken
    => m = n

RowOf(s, id) ==
    [ id |-> id, conversation |-> s.what.conversation, sender |-> s.what.sender,
      body |-> s.what.body, token |-> s.what.token, createdAt |-> s.createdAt ]

\* Messages change by an insert that the index allows, and in no other way.
LEMMA MessageSteps ==
  ASSUME [TalkStep]_talkVars
  PROVE  \/ messages' = messages
         \/ \E s \in sends : /\ SendInsert(s) \/ SendFails(s)
                             /\ SameSubmission(s.what) = {}
                             /\ \E id : messages' = messages \union {RowOf(s, id)}
<1>1. ASSUME StartStep PROVE messages' = messages
  BY <1>1 DEF StartStep, StartCreate, StartFails, StartBegin, ListingMoves, ListingRemoved, storeVars
<1>2. ASSUME SendStep
      PROVE  \/ messages' = messages
             \/ \E s \in sends : /\ SendInsert(s) \/ SendFails(s)
                                 /\ SameSubmission(s.what) = {}
                                 /\ InsertMessage(s)
  BY <1>2 DEF SendStep, Mount, AnswerLost, OpenThread, Submit, SendBegin, SendInsert, SendFails,
      SendRepeated, TimePasses, storeVars
<1> QED
  BY <1>1, <1>2 DEF TalkStep, talkVars, InsertMessage, RowOf

\* The row that is added has a submission of its own.
LEMMA OnePerTokenStep == OnePerToken /\ [TalkStep]_talkVars => OnePerToken'
<1> SUFFICES ASSUME OnePerToken, [TalkStep]_talkVars PROVE OnePerToken'
  OBVIOUS
<1>1. CASE messages' = messages
  BY <1>1 DEF OnePerToken
<1>2. ASSUME NEW s \in sends, SameSubmission(s.what) = {}, NEW id, messages' = messages \union {RowOf(s, id)}
      PROVE  OnePerToken'
  BY <1>2 DEF OnePerToken, SameSubmission, RowOf
<1> QED
  BY <1>1, <1>2, MessageSteps

\* A submission is stored once, however often it is retried, repeated by the network or
\* answered with a false failure.
THEOREM StoredOnce == TalkSpec => []NothingTwice
<1>1. TalkInit => OnePerToken
  BY DEF TalkInit, OnePerToken
<1>2. OnePerToken /\ [StartStep \/ SendStep]_talkVars => OnePerToken'
  BY OnePerTokenStep DEF TalkStep
<1>3. OnePerToken => NothingTwice
  <2> SUFFICES ASSUME OnePerToken, NEW m \in messages, m.token # NoToken
               PROVE  Cardinality(SameSubmission(m)) = 1
    BY DEF NothingTwice
  <2>1. SameSubmission(m) = {m}
    BY DEF OnePerToken, SameSubmission
  <2> QED
    BY <2>1, FS_Singleton
<1> QED
  BY <1>1, <1>2, <1>3, PTL DEF TalkSpec

-----------------------------------------------------------------------------
(* What is reported as sent is stored *)

Key(m) == [conversation |-> m.conversation, sender |-> m.sender, body |-> m.body, token |-> m.token]

\* What was said before under some token: stored, or on its way unattended.
Said == {Key(m) : m \in messages} \union {s.what : s \in {r \in sends : r.page = NoPage}}

SameToken(x, what) == x.token = what.token /\ what.token # NoToken

\* No two composers have one token, and none has one that was not made.
TokensApart ==
    /\ \A p, q \in Pages : SameToken(composer[p], composer[q]) => p = q
    /\ \A p \in Pages : composer[p].token \in tokens \union {NoToken}
    /\ \A x \in Said : x.token \in tokens \union {NoToken}

\* Under the token of a composer nothing was said elsewhere, and nothing at all that
\* was not reported as failed, but for the submission that is on its way.
SaidByComposer == \A p \in Pages, x \in Said : SameToken(x, composer[p]) =>
    /\ x.conversation = composer[p].conversation /\ x.sender = composer[p].who
    /\ composer[p].pc # "sending" => x \in failed

SaidOrFailed == \A s \in sends, x \in Said :
    s.page # NoPage /\ SameToken(x, s.what) => x = s.what \/ x \in failed

TokenInv == TokensApart /\ SaidByComposer /\ SaidOrFailed

\* Everything that was said is a submission.
LEMMA SaidTyped == TypeInv => Said \subseteq Submission
  BY DEF TypeInv, TalkTypeOK, Said, Key, Message, Submission, Send, Bodies

\* An insert says what was on its way.
LEMMA InsertSays ==
  ASSUME TypeInv, NEW s \in sends, NEW id, messages' = messages \union {RowOf(s, id)}, sends' \subseteq sends
  PROVE  Said' \subseteq Said \union {s.what}
<1>1. Key(RowOf(s, id)) = s.what \/ s.what \notin Submission
  BY DEF Key, RowOf, Submission
<1>2. s.what \in Submission
  BY DEF TypeInv, TalkTypeOK, Send
<1> QED
  BY <1>1, <1>2 DEF Said

\* The composer that waits for a request holds what it was made of.
LEMMA AwaitedFields ==
  ASSUME TypeInv, NEW s \in sends, s.page # NoPage
  PROVE  /\ s.page \in Pages /\ composer[s.page].pc = "sending"
         /\ composer[s.page].who = s.what.sender
         /\ composer[s.page].conversation = s.what.conversation
         /\ composer[s.page].token = s.what.token
<1>1. s.page \in Pages
  BY DEF TypeInv, TalkTypeOK, Send
<1>2. composer[s.page] = [ pc |-> "sending", who |-> s.what.sender,
                           conversation |-> s.what.conversation, token |-> s.what.token ]
  BY DEF TypeInv, Awaited
<1> QED
  BY <1>1, <1>2

\* A request under the token of a composer is the one that the composer waits for, or
\* one that nobody waits for and that was said before.
LEMMA WhoseToken ==
  ASSUME TypeInv, TokenInv, NEW s \in sends, NEW p \in Pages, SameToken(s.what, composer[p])
  PROVE  \/ s.page = NoPage /\ s.what \in Said
         \/ /\ s.page = p /\ composer[p].pc = "sending"
            /\ s.what.conversation = composer[p].conversation /\ s.what.sender = composer[p].who
<1>1. CASE s.page = NoPage
  BY <1>1 DEF Said
<1>2. CASE s.page # NoPage
  <2>1. s.page = p
    BY <1>2, AwaitedFields DEF TokenInv, TokensApart, SameToken
  <2> QED
    BY <1>2, <2>1, AwaitedFields
<1> QED
  BY <1>1, <1>2

\* Every request is under a token that was made.
LEMMA TokenMade ==
  ASSUME TypeInv, TokenInv, NEW s \in sends
  PROVE  s.what.token \in tokens \union {NoToken}
<1>1. CASE s.page = NoPage
  BY <1>1 DEF Said, TokenInv, TokensApart
<1>2. CASE s.page # NoPage
  BY <1>2, AwaitedFields DEF TokenInv, TokensApart
<1> QED
  BY <1>1, <1>2

\* Two requests under one token: the one that is waited for was said or failed before
\* the other was.
LEMMA TwoRequests ==
  ASSUME TypeInv, TokenInv, NEW r \in sends, NEW s \in sends, s.page # NoPage, SameToken(r.what, s.what)
  PROVE  r.what = s.what \/ r.what \in failed
<1>1. s.page \in Pages /\ composer[s.page].token = s.what.token
  BY AwaitedFields
<1>2. SameToken(r.what, composer[s.page])
  BY <1>1 DEF SameToken
<1>3. CASE r.page = NoPage
  BY <1>3 DEF Said, TokenInv, SaidOrFailed
<1>4. CASE r.page = s.page
  BY <1>4 DEF TypeInv, Awaited
<1> QED
  BY <1>1, <1>2, <1>3, <1>4, WhoseToken

\* What is on its way is said once more, while the composers stay.
LEMMA RepeatTokens ==
  ASSUME TypeInv, TokenInv, NEW S \in SUBSET {r.what : r \in sends}, Said' \subseteq Said \union S,
         UNCHANGED <<composer, tokens, failed>>,
         \A s \in sends' : s.page # NoPage => \E r \in sends : r.page = s.page /\ r.what = s.what
  PROVE  TokenInv'
<1>1. TokensApart'
  BY TokenMade DEF TokenInv, TokensApart, SameToken
<1>2. SaidByComposer'
  <2> SUFFICES ASSUME NEW p \in Pages, NEW x \in Said', SameToken(x, composer[p])
               PROVE  /\ x.conversation = composer[p].conversation /\ x.sender = composer[p].who
                      /\ composer[p].pc # "sending" => x \in failed
    BY DEF SaidByComposer, SameToken
  <2>1. CASE x \in Said
    BY <2>1 DEF TokenInv, SaidByComposer
  <2>2. ASSUME NEW r \in sends, x = r.what
        PROVE  /\ x.conversation = composer[p].conversation /\ x.sender = composer[p].who
               /\ composer[p].pc # "sending" => x \in failed
    BY <2>1, <2>2, WhoseToken
  <2> QED
    BY <2>1, <2>2
<1>3. SaidOrFailed'
  <2> SUFFICES ASSUME NEW s \in sends', s.page # NoPage, NEW x \in Said', SameToken(x, s.what)
               PROVE  x = s.what \/ x \in failed
    BY DEF SaidOrFailed, SameToken
  <2>1. PICK t \in sends : t.page = s.page /\ t.what = s.what
    OBVIOUS
  <2>2. CASE x \in Said
    BY <2>1, <2>2 DEF TokenInv, SaidOrFailed
  <2>3. ASSUME NEW r \in sends, x = r.what
        PROVE  x = s.what \/ x \in failed
    BY <2>1, <2>3, TwoRequests
  <2> QED
    BY <2>2, <2>3
<1> QED
  BY <1>1, <1>2, <1>3 DEF TokenInv

\* The answer to a page: it lets go of its token, or learns that the submission failed.
LEMMA AnswerTokens ==
  ASSUME TypeInv, TokenInv, NEW s \in sends, s.page # NoPage, Sent(s) \/ SendError(s),
         Said' \subseteq Said \union {s.what}, sends' = sends \ {s}, tokens' = tokens
  PROVE  TokenInv'
<1> DEFINE p == s.page
<1>1. /\ p \in Pages /\ composer \in [Pages -> ComposerShape]
      /\ composer[p].token = s.what.token /\ composer[p].pc = "sending"
      /\ composer[p].conversation = s.what.conversation /\ composer[p].who = s.what.sender
  BY AwaitedFields DEF TypeInv, TalkTypeOK, ComposerShape
<1>2. /\ \A q \in Pages \ {p} : composer'[q] = composer[q]
      /\ \/ composer'[p].token = NoToken /\ failed' = failed
         \/ /\ composer'[p].token = composer[p].token /\ composer'[p].who = composer[p].who
            /\ composer'[p].conversation = composer[p].conversation
            /\ failed' = failed \union {s.what}
  BY <1>1 DEF Sent, SendError, ComposerShape
<1>3. \A r \in sends' : r \in sends /\ r.page # p
  BY DEF TypeInv, Awaited
<1>4. TokensApart'
  <2>1. s.what.token \in tokens \union {NoToken}
    BY TokenMade
  <2> QED
    BY <1>1, <1>2, <2>1 DEF TokenInv, TokensApart, SameToken
<1>5. SaidByComposer'
  <2> SUFFICES ASSUME NEW q \in Pages, NEW x \in Said', SameToken(x, composer'[q])
               PROVE  /\ x.conversation = composer'[q].conversation /\ x.sender = composer'[q].who
                      /\ x \in failed' \/ composer'[q].pc = "sending"
    BY DEF SaidByComposer, SameToken
  <2>1. CASE q # p
    <3>1. x \in Said
      BY <1>1, <1>2, <2>1 DEF TokenInv, TokensApart, SameToken
    <3> QED
      BY <1>2, <2>1, <3>1 DEF TokenInv, SaidByComposer
  <2>2. CASE q = p
    <3>1. /\ composer'[p].token = composer[p].token /\ composer'[p].who = composer[p].who
          /\ composer'[p].conversation = composer[p].conversation
          /\ failed' = failed \union {s.what}
      BY <1>2, <2>2 DEF SameToken
    <3>2. CASE x = s.what
      BY <1>1, <2>2, <3>1, <3>2
    <3>3. CASE x \in Said
      <4>1. SameToken(x, composer[p]) /\ SameToken(x, s.what)
        BY <1>1, <2>2, <3>1 DEF SameToken
      <4>2. x = s.what \/ x \in failed
        BY <3>3, <4>1 DEF TokenInv, SaidOrFailed
      <4> QED
        BY <1>1, <2>2, <3>1, <3>3, <4>1, <4>2 DEF TokenInv, SaidByComposer
    <3> QED
      BY <3>2, <3>3
  <2> QED
    BY <2>1, <2>2
<1>6. SaidOrFailed'
  <2> SUFFICES ASSUME NEW r \in sends', r.page # NoPage, NEW x \in Said', SameToken(x, r.what)
               PROVE  x = r.what \/ x \in failed
    BY <1>2 DEF SaidOrFailed, SameToken
  <2>1. CASE x \in Said
    BY <1>3, <2>1 DEF TokenInv, SaidOrFailed
  <2>2. CASE x = s.what
    BY <1>3, <2>2, TwoRequests
  <2> QED
    BY <2>1, <2>2
<1> QED
  BY <1>4, <1>5, <1>6 DEF TokenInv

\* A request is over, whether a page waited for it or nobody did.
LEMMA OverTokens ==
  ASSUME TypeInv, TokenInv, NEW s \in sends, Sent(s) \/ SendError(s),
         Said' \subseteq Said \union {s.what}, sends' = sends \ {s}, tokens' = tokens
  PROVE  TokenInv'
<1>1. CASE s.page = NoPage
  <2>1. UNCHANGED <<composer, failed>>
    BY <1>1 DEF Sent, SendError
  <2>2. {s.what} \in SUBSET {r.what : r \in sends}
    OBVIOUS
  <2> QED
    BY <2>1, <2>2, RepeatTokens
<1>2. CASE s.page # NoPage
  BY <1>2, AnswerTokens
<1> QED
  BY <1>1, <1>2

\* A step of a form or of a listing says nothing.
LEMMA StartStepTokens ==
  ASSUME TypeInv, TokenInv, StartStep
  PROVE  TokenInv'
<1>1. UNCHANGED <<messages, sends, composer, tokens, failed>>
  BY DEF StartStep, StartCreate, StartFails, StartBegin, ListingMoves, ListingRemoved, storeVars, historyVars
<1> QED
  BY <1>1 DEF TokenInv, TokensApart, SaidByComposer, SaidOrFailed, Said, SameToken

\* Every step of a composer or of a send keeps the tokens in order.
LEMMA SendStepTokens ==
  ASSUME TypeInv, TokenInv, SendStep
  PROVE  TokenInv'
<1> USE DEF storeVars, historyVars
<1>0. composer \in [Pages -> ComposerShape] /\ sends \subseteq Send
  BY DEF TypeInv, TalkTypeOK, ComposerShape
<1>1. ASSUME NEW p \in Pages, Mount(p)
      PROVE  TokenInv'
  <2>1. PICK t \in Tokens \ tokens :
          /\ composer' = [composer EXCEPT ![p].pc = "mounted", ![p].token = t]
          /\ tokens' = tokens \union {t}
    BY <1>1 DEF Mount
  <2>2. /\ composer'[p].token = t /\ \A q \in Pages \ {p} : composer'[q] = composer[q]
        /\ t \notin tokens \union {NoToken} /\ tokens' = tokens \union {t}
    BY <1>0, <2>1, TalkAssumption DEF ComposerShape
  <2>3. sends' = sends /\ failed' = failed
    BY <1>1 DEF Mount
  <2>4. Said' = Said
    BY <1>1 DEF Mount, Said
  <2>5. \A q \in Pages \ {p} : composer'[q].token \in tokens \union {NoToken}
    BY <2>2 DEF TokenInv, TokensApart
  <2>6. TokensApart'
    <3>1. ASSUME NEW q \in Pages, NEW r \in Pages, SameToken(composer'[q], composer'[r]) PROVE q = r
      <4>1. CASE q = p \/ r = p
        BY <2>2, <2>5, <3>1, <4>1 DEF SameToken
      <4>2. CASE q # p /\ r # p
        BY <2>2, <3>1, <4>2 DEF TokenInv, TokensApart
      <4> QED
        BY <4>1, <4>2
    <3>2. \A q \in Pages : composer'[q].token \in tokens' \union {NoToken}
      BY <2>2, <2>5
    <3>3. \A x \in Said' : x.token \in tokens' \union {NoToken}
      BY <2>2, <2>4 DEF TokenInv, TokensApart
    <3> QED
      BY <3>1, <3>2, <3>3 DEF TokensApart, SameToken
  <2>7. SaidByComposer'
    <3> SUFFICES ASSUME NEW q \in Pages, NEW x \in Said, SameToken(x, composer'[q])
                 PROVE  /\ x.conversation = composer'[q].conversation /\ x.sender = composer'[q].who
                        /\ composer'[q].pc # "sending" => x \in failed
      BY <2>4, <2>3 DEF SaidByComposer, SameToken
    <3>1. q # p
      BY <2>2 DEF TokenInv, TokensApart, SameToken
    <3>2. composer'[q] = composer[q]
      BY <2>2, <3>1
    <3> QED
      BY <3>2 DEF TokenInv, SaidByComposer
  <2> QED
    BY <2>4, <2>6, <2>7, <2>3 DEF TokenInv, SaidOrFailed, SameToken
<1>2. ASSUME NEW p \in Pages, AnswerLost(p)
      PROVE  TokenInv'
  <2>1. /\ composer'[p].token = NoToken /\ \A q \in Pages \ {p} : composer'[q] = composer[q]
        /\ tokens' = tokens /\ failed' = failed /\ messages' = messages
    BY <1>0, <1>2 DEF AnswerLost, ComposerShape
  <2>2. \A s \in sends' : \/ s \in sends /\ s.page # p
                          \/ s.page = NoPage /\ \E r \in sends : r.page = p /\ r.what = s.what
    BY <1>0, <1>2 DEF AnswerLost, Send
  <2>3. \A x \in Said' : x \in Said \/ \E r \in sends : r.page = p /\ x = r.what
    BY <2>1, <2>2 DEF Said
  <2>4. TokensApart'
    BY <2>1, <2>3, TokenMade DEF TokenInv, TokensApart, SameToken
  <2>5. SaidByComposer'
    <3> SUFFICES ASSUME NEW q \in Pages, NEW x \in Said', SameToken(x, composer'[q])
                 PROVE  /\ x.conversation = composer'[q].conversation /\ x.sender = composer'[q].who
                        /\ composer'[q].pc # "sending" => x \in failed
      BY <2>1 DEF SaidByComposer, SameToken
    <3>1. q # p /\ composer'[q] = composer[q]
      BY <2>1 DEF SameToken
    <3>2. CASE x \in Said
      BY <3>1, <3>2 DEF TokenInv, SaidByComposer
    <3>3. ASSUME NEW r \in sends, r.page = p, x = r.what
          PROVE  FALSE
      BY <3>1, <3>3, WhoseToken, TalkAssumption
    <3> QED
      BY <2>3, <3>1, <3>2, <3>3
  <2>6. SaidOrFailed'
    <3> SUFFICES ASSUME NEW s \in sends', s.page # NoPage, NEW x \in Said', SameToken(x, s.what)
                 PROVE  x = s.what \/ x \in failed
      BY <2>1 DEF SaidOrFailed, SameToken
    <3>1. s \in sends
      BY <2>2
    <3>2. CASE x \in Said
      BY <3>1, <3>2 DEF TokenInv, SaidOrFailed
    <3>3. ASSUME NEW r \in sends, x = r.what
          PROVE  x = s.what \/ x \in failed
      BY <3>1, <3>3, TwoRequests
    <3> QED
      BY <2>3, <3>2, <3>3
  <2> QED
    BY <2>4, <2>5, <2>6 DEF TokenInv
<1>3. ASSUME NEW p \in Pages, NEW who \in Participants, NEW i \in ConversationIds, OpenThread(p, who, i)
      PROVE  TokenInv'
  <2>1. /\ composer'[p].token = NoToken /\ \A q \in Pages \ {p} : composer'[q] = composer[q]
        /\ UNCHANGED <<tokens, failed, messages, sends>>
    BY <1>0, <1>3 DEF OpenThread, Closed
  <2>2. Said' = Said
    BY <2>1 DEF Said
  <2> QED
    BY <2>1, <2>2 DEF TokenInv, TokensApart, SaidByComposer, SaidOrFailed, SameToken
<1>4. ASSUME NEW p \in Pages, NEW body \in Bodies, Submit(p, body)
      PROVE  TokenInv'
  <2> DEFINE what == [ conversation |-> composer[p].conversation, sender |-> composer[p].who,
                       body |-> body, token |-> composer[p].token ]
             new == [what |-> what, page |-> p, createdAt |-> 0]
  <2>1. composer[p] \in ComposerShape /\ composer[p].pc # "sending"
    BY <1>0, <1>4 DEF Submit
  <2>2. sends' = sends \union {new} /\ UNCHANGED <<tokens, failed, messages>>
    BY <1>4 DEF Submit
  <2>3. /\ composer'[p].token = composer[p].token /\ composer'[p].who = composer[p].who
        /\ composer'[p].conversation = composer[p].conversation /\ composer'[p].pc = "sending"
        /\ \A q \in Pages \ {p} : composer'[q] = composer[q]
    BY <1>0, <1>4 DEF Submit, ComposerShape
  <2>4. Said' = Said
    BY <2>2, TalkAssumption DEF Said
  <2>5. TokensApart' /\ SaidByComposer'
    BY <2>2, <2>3, <2>4 DEF TokenInv, TokensApart, SaidByComposer, SameToken
  <2>6. SaidOrFailed'
    <3>1. ASSUME NEW x \in Said, SameToken(x, composer[p]) PROVE x \in failed
      BY <2>1, <3>1 DEF TokenInv, SaidByComposer
    <3> QED
      BY <2>2, <2>4, <3>1 DEF TokenInv, SaidOrFailed, SameToken
  <2> QED
    BY <2>5, <2>6 DEF TokenInv
<1>5. ASSUME NEW s \in sends, SendBegin(s)
      PROVE  TokenInv'
  <2>1. tokens' = tokens /\ messages' = messages
    BY <1>5 DEF SendBegin
  <2>2. CASE sends' = (sends \ {s}) \union {[s EXCEPT !.createdAt = now]} /\ UNCHANGED <<composer, confirmed, failed>>
    <3> DEFINE new == [s EXCEPT !.createdAt = now]
    <3>1. new.what = s.what /\ new.page = s.page
      BY <1>0 DEF Send
    <3>2. /\ \A r \in sends' : \E t \in sends : t.page = r.page /\ t.what = r.what
          /\ Said' \subseteq Said \union {}
      <4> HIDE DEF new
      <4> QED
        BY <2>1, <2>2, <3>1 DEF Said, new
    <3> QED
      BY <2>1, <2>2, <3>2, RepeatTokens
  <2>3. CASE sends' = sends \ {s} /\ SendError(s)
    <3>1. Said' \subseteq Said
      BY <2>1, <2>3 DEF Said
    <3> QED
      BY <2>1, <2>3, <3>1, OverTokens
  <2> QED
    BY <1>5, <2>2, <2>3 DEF SendBegin
<1>6. ASSUME NEW s \in sends, SendInsert(s) \/ SendFails(s)
      PROVE  TokenInv'
  <2>1. sends' = sends \ {s} /\ tokens' = tokens /\ (Sent(s) \/ SendError(s))
    BY <1>6 DEF SendInsert, SendFails
  <2>2. Said' \subseteq Said \union {s.what}
    <3>1. CASE messages' = messages
      BY <2>1, <3>1 DEF Said
    <3>2. CASE \E id : messages' = messages \union {RowOf(s, id)}
      BY <2>1, <3>2, InsertSays
    <3> QED
      BY <1>6, <3>1, <3>2 DEF SendInsert, SendFails, InsertMessage, RowOf
  <2> QED
    BY <2>1, <2>2, OverTokens
<1>7. ASSUME NEW s \in sends, SendRepeated(s)
      PROVE  TokenInv'
  <2> DEFINE new == [s EXCEPT !.page = NoPage, !.createdAt = 0]
  <2>1. new.page = NoPage /\ new.what = s.what
    BY <1>0 DEF Send
  <2>2. sends' = sends \union {new} /\ UNCHANGED <<composer, tokens, failed, messages>>
    BY <1>7 DEF SendRepeated
  <2>3. /\ Said' \subseteq Said \union {s.what}
        /\ \A r \in sends' : r.page # NoPage => r \in sends
    <3> HIDE DEF new
    <3> QED
      BY <2>1, <2>2 DEF Said
  <2>4. {s.what} \in SUBSET {r.what : r \in sends}
    OBVIOUS
  <2> QED
    BY <2>2, <2>3, <2>4, RepeatTokens
<1>8. ASSUME TimePasses
      PROVE  TokenInv'
  BY <1>8 DEF TimePasses, TokenInv, TokensApart, SaidByComposer, SaidOrFailed, Said, SameToken
<1> QED
  BY <1>1, <1>2, <1>3, <1>4, <1>5, <1>6, <1>7, <1>8 DEF SendStep

\* Rows and reported failures stay, so what was true of an answer stays true.
LEMMA SentIsStoredStep ==
  ASSUME TypeInv, TokenInv, SentIsStored, [TalkStep]_talkVars
  PROVE  SentIsStored'
<1>1. messages \subseteq messages'
  BY MessageSteps
<1>2. /\ failed \subseteq failed'
      /\ \/ confirmed' = confirmed
         \/ \E s \in sends : SendInsert(s) /\ s.page # NoPage /\ confirmed' = confirmed \union {s.what}
  <2>1. CASE StartStep
    BY <2>1 DEF StartStep, StartCreate, StartFails, StartBegin, ListingMoves, ListingRemoved, historyVars
  <2>2. CASE SendStep
    BY <2>2 DEF SendStep, Mount, AnswerLost, OpenThread, Submit, SendBegin, SendInsert, SendFails,
        SendRepeated, TimePasses, Sent, SendError, historyVars
  <2>3. CASE UNCHANGED talkVars
    BY <2>3 DEF talkVars
  <2> QED
    BY <2>1, <2>2, <2>3 DEF TalkStep
<1>3. \A what : IsStored(what) => IsStored(what)'
  BY <1>1 DEF IsStored
<1>4. ASSUME NEW s \in sends, SendInsert(s), s.page # NoPage
      PROVE  \/ IsStored(s.what)'
             \/ \E f \in failed : /\ f = [s.what EXCEPT !.body = f.body]
                                  /\ f.body # s.what.body /\ IsStored(f)'
  <2>1. CASE InsertMessage(s)
    <3>1. PICK id : RowOf(s, id) \in messages'
      BY <2>1 DEF InsertMessage, RowOf
    <3> QED
      BY <3>1 DEF IsStored, RowOf
  <2>2. ASSUME NEW m \in SameSubmission(s.what), messages' = messages
        PROVE  \/ IsStored(s.what)'
               \/ \E f \in failed : /\ f = [s.what EXCEPT !.body = f.body]
                                    /\ f.body # s.what.body /\ IsStored(f)'
    <3> DEFINE f == Key(m)
    <3>1. m \in messages /\ f \in Said /\ SameToken(f, s.what)
      BY DEF SameSubmission, Said, Key, SameToken
    <3>2. f = s.what \/ f \in failed
      BY <1>4, <3>1 DEF TokenInv, SaidOrFailed
    <3>3. IsStored(f)'
      BY <2>2, <3>1 DEF IsStored, Key
    <3>4. f = [s.what EXCEPT !.body = f.body]
      <4>1. s.what \in Submission
        BY DEF TypeInv, TalkTypeOK, Send
      <4> QED
        BY <4>1 DEF Submission, SameSubmission, Key
    <3>5. CASE f.body = s.what.body
      <4>1. s.what \in Submission
        BY DEF TypeInv, TalkTypeOK, Send
      <4>2. f = s.what
        BY <3>4, <3>5, <4>1 DEF Submission
      <4> QED
        BY <3>3, <4>2
    <3> HIDE DEF f
    <3> QED
      BY <3>2, <3>3, <3>4, <3>5
  <2> QED
    BY <1>4, <2>1, <2>2 DEF SendInsert
<1> QED
  BY <1>2, <1>3, <1>4 DEF SentIsStored

\* What the composer was told is sent is stored, however requests, repeated deliveries
\* and lost answers interleave, unless the token stood for a text reported as failed.
THEOREM SentMeansStored == TalkSpec => []SentIsStored
<1>1. TalkInit => TypeInv /\ TokenInv /\ SentIsStored
  <2> SUFFICES ASSUME TalkInit PROVE TokenInv /\ SentIsStored
    BY InitTypeInv
  <2>1. Said = {} /\ sends = {} /\ confirmed = {}
    BY DEF TalkInit, Quiet, Said
  <2>2. \A p \in Pages : composer[p].token = NoToken
    BY DEF TalkInit, Quiet, Closed
  <2> QED
    BY <2>1, <2>2 DEF TokenInv, TokensApart, SaidByComposer, SaidOrFailed, SameToken, SentIsStored
<1>2. TypeInv /\ TokenInv /\ [StartStep \/ SendStep]_talkVars => TypeInv' /\ TokenInv'
  <2>1. TokenInv /\ UNCHANGED talkVars => TokenInv'
    BY DEF TokenInv, TokensApart, SaidByComposer, SaidOrFailed, Said, SameToken, talkVars
  <2> QED
    BY <2>1, TypeInvStep, StartStepTokens, SendStepTokens DEF TalkStep
<1>3. TypeInv /\ TokenInv /\ SentIsStored /\ [StartStep \/ SendStep]_talkVars => SentIsStored'
  BY SentIsStoredStep DEF TalkStep
<1> QED
  BY <1>1, <1>2, <1>3, PTL DEF TalkSpec
=============================================================================
