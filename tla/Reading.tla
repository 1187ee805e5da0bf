------------------------------- MODULE Reading -------------------------------
(***************************************************************************)
(* Walks through the inbox and through a thread, page by page, while       *)
(* messages are sent (listConversationSummariesForCurrentUser,             *)
(* listRecentConversationMessages, modules/messaging/cursor.ts and the two *)
(* pages under app/messages).                                              *)
(***************************************************************************)
EXTENDS Conversations, Keyset

CONSTANTS
    InboxSize,      \* SUMMARIES_PAGE_SIZE
    ThreadSize      \* MESSAGES_PAGE_SIZE

\* Ids order rows, a page has a row, and no cursor is the first page's.
ASSUME ReadAssumption ==
    /\ MessageIds \subseteq Int /\ ConversationIds \subseteq Int
    /\ InboxSize \in Nat \ {0} /\ ThreadSize \in Nat \ {0}
    /\ NoCursor \notin [owner: Participants \union ConversationIds, key: Int, id: Int]

VARIABLES
    inbox,      \* the walk through an inbox
    thread      \* the walk through a conversation

readVars == <<inbox, thread>>

NoWalk == [pc |-> "none", who |-> Nobody, of |-> 0, cursor |-> NoCursor, seen |-> <<>>, start |-> {}]

ReadTypeOK == \A w \in {inbox, thread} :
    /\ w.pc \in {"none", "more", "end"}
    /\ w.who \in Participants \union {Nobody}
    /\ w.of \in ConversationIds \union {0}

ReadInit == inbox = NoWalk /\ thread = NoWalk

\* The walk goes on from where its cursor points, and has seen these rows.
Step(walk, rows, cursor, size, owner) ==
    LET items == Rows(rows, cursor, size)
        next == NextCursor(rows, cursor, size, owner)
    IN  [walk EXCEPT !.pc = IF next = NoCursor THEN "end" ELSE "more",
                     !.cursor = next,
                     !.seen = @ \o [k \in DOMAIN items |-> items[k].id]]

InboxRows(who) ==
    {[key |-> conversations[i].lastMessageAt, id |-> i] : i \in {j \in ConversationIds : Access(who, j)}}

OpenInbox(who) ==
    LET rows == InboxRows(who)
    IN  /\ rows # {}
        /\ inbox' = Step([NoWalk EXCEPT !.who = who, !.start = rows], rows, NoCursor, InboxSize, who)
        /\ UNCHANGED thread

\* "Older conversations"
OlderConversations ==
    /\ inbox.pc = "more"
    /\ inbox' = Step(inbox, InboxRows(inbox.who), Decode(inbox.cursor, inbox.who), InboxSize, inbox.who)
    /\ UNCHANGED thread

ThreadRows(i) ==
    {[key |-> m.createdAt, id |-> m.id] : m \in {n \in messages : n.conversation = i}}

OpenMessages(who, i) ==
    LET rows == ThreadRows(i)
    IN  /\ Access(who, i)
        /\ thread' = Step([NoWalk EXCEPT !.who = who, !.of = i, !.start = rows], rows, NoCursor, ThreadSize, i)
        /\ UNCHANGED inbox

\* "Load older messages"
OlderMessages ==
    /\ thread.pc = "more"
    /\ Access(thread.who, thread.of)
    /\ thread' = Step(thread, ThreadRows(thread.of), Decode(thread.cursor, thread.of), ThreadSize, thread.of)
    /\ UNCHANGED inbox

ReadStep ==
    \/ \E who \in Participants : OpenInbox(who)
    \/ OlderConversations
    \/ \E who \in Participants, i \in ConversationIds : OpenMessages(who, i)
    \/ OlderMessages

\* Whoever reads, others start conversations and send meanwhile.
ReadSpec ==
    /\ TalkInit /\ ReadInit
    /\ [][ \/ (StartStep /\ UNCHANGED readVars)
          \/ (SendStep /\ UNCHANGED readVars)
          \/ (ReadStep /\ UNCHANGED talkVars) ]_<<talkVars, readVars>>

-----------------------------------------------------------------------------
(* Properties *)

Once(seen, id) == \E k \in DOMAIN seen : seen[k] = id

NoRepeat(seen) == \A j, k \in DOMAIN seen : seen[j] = seen[k] => j = k

\* A walk through a thread shows what was there when it began exactly once,
\* whatever is sent meanwhile and however equal the timestamps are.
ThreadPagesComplete ==
    /\ NoRepeat(thread.seen)
    /\ thread.pc = "end" => \A row \in thread.start : Once(thread.seen, row.id)

\* A walk through an inbox never repeats a conversation, and misses one only if
\* it was active since: activity moves a conversation towards the front alone.
InboxPagesComplete ==
    /\ NoRepeat(inbox.seen)
    /\ inbox.pc = "end" =>
         \A row \in inbox.start :
            Once(inbox.seen, row.id) \/ conversations[row.id].lastMessageAt > row.key
=============================================================================
