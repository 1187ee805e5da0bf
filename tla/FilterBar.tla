------------------------------ MODULE FilterBar ------------------------------
(***************************************************************************)
(* The filter controls of /browse (components/marketplace/FilterBar.tsx).  *)
(* The selects and chips show the query of the page; the text boxes keep   *)
(* what is typed and put it into the URL after a pause.  A navigation      *)
(* takes a while, the page shows the old query until it arrives, and a     *)
(* newer one discards it.  A timer fires at any time after it was set.     *)
(***************************************************************************)
EXTENDS BrowseQuery

\* A link to a search has a text (normText makes nothing of an empty one).
ASSUME BarAssumption == NoWord \notin Words

VARIABLES
    query,      \* the query prop: the page that is shown
    nav,        \* the navigations on their way: none or the newest
    qBox,       \* the search box and its timer
    placeBox,   \* the location box and its timer
    minText, maxText, priceErr,
    drawer,     \* the mobile drawer is open
    wide,       \* the viewport is at or above the desktop breakpoint
    intent,     \* history: the query that the user's changes amount to
    overlapped  \* history: something changed while something else was under way

barVars == <<query, nav, qBox, placeBox, minText, maxText, priceErr, drawer, wide, intent, overlapped>>

pageVars == <<query, nav>>
textVars == <<minText, maxText, priceErr>>
drawerVars == <<drawer, wide>>
userVars == <<intent, overlapped>>

Unreadable == -2        \* a text majorToMinor does not read

\* The timer holds the query that its effect closed over.
Box(text) == [text |-> text, timer |-> {}]

BarTypeOK ==
    /\ query \in Urls /\ nav \subseteq Urls
    /\ qBox.text \in Words \union {NoWord} /\ qBox.timer \subseteq Urls
    /\ placeBox.text \in Places \union {NoPlace} /\ placeBox.timer \subseteq Urls
    /\ {minText, maxText} \subseteq Prices \union {NoPrice, Unreadable}
    /\ priceErr \in BOOLEAN /\ drawer \in BOOLEAN /\ wide \in BOOLEAN /\ ~(drawer /\ wide)
    /\ intent \in Urls /\ overlapped \in BOOLEAN

BarInit ==
    /\ query = ParseBrowseQuery(Plain)
    /\ nav = {}
    /\ qBox = Box(NoWord) /\ placeBox = Box(NoPlace)
    /\ minText = NoPrice /\ maxText = NoPrice /\ priceErr = FALSE
    /\ drawer = FALSE /\ wide \in BOOLEAN
    /\ intent = query /\ overlapped = FALSE

\* The user changes something, and whether that may get in the way of something else.
Means(next, inTheWay) == intent' = next /\ overlapped' = (overlapped \/ inTheWay)

\* The cursor is not carried over.
Push(next) == nav' = {ParseBrowseQuery(BuildBrowseHref(next))} /\ UNCHANGED query

\* Mutant: the boxes are initialised once.
ArriveWithoutReset ==
    \E next \in nav : query' = next /\ nav' = {} /\ UNCHANGED <<qBox, placeBox, textVars, drawerVars, userVars>>

\* The URL is read, the props change, and the effects reset what they watch.
Arrive ==
    \E next \in nav :
        /\ query' = next /\ nav' = {}
        /\ qBox' = IF next.q = query.q \/ next.q = qBox.text THEN qBox ELSE Box(next.q)
        /\ placeBox' = IF next.place = query.place \/ next.place = placeBox.text THEN placeBox ELSE Box(next.place)
        /\ IF <<next.minPrice, next.maxPrice>> = <<query.minPrice, query.maxPrice>>
           THEN UNCHANGED textVars
           ELSE minText' = next.minPrice /\ maxText' = next.maxPrice /\ priceErr' = FALSE
        /\ UNCHANGED <<drawerVars, userVars>>

-----------------------------------------------------------------------------
(* The text boxes *)

\* The effect of a new text clears the timer of the old one.
TypeText(text) ==
    /\ text # qBox.text
    /\ qBox' = [text |-> text, timer |-> IF text = query.q THEN {} ELSE {query}]
    /\ Means(intent, nav # {} \/ placeBox.timer # {})
    /\ UNCHANGED <<pageVars, placeBox, textVars, drawerVars>>

\* A cleared search takes a relevance sort with it.
Searching(url, text) ==
    [url EXCEPT !.q = text, !.sort = IF text = NoWord /\ @ = "relevance" THEN "newest" ELSE @]

TextPause ==
    \E old \in qBox.timer :
        /\ Push(Searching(old, qBox.text))
        /\ Means(Searching(intent, qBox.text), nav # {} \/ placeBox.timer # {})
        /\ qBox' = Box(qBox.text)
        /\ UNCHANGED <<placeBox, textVars, drawerVars>>

TypePlace(text) ==
    /\ text # placeBox.text
    /\ placeBox' = [text |-> text, timer |-> IF text = query.place THEN {} ELSE {query}]
    /\ Means(intent, nav # {} \/ qBox.timer # {})
    /\ UNCHANGED <<pageVars, qBox, textVars, drawerVars>>

PlacePause ==
    \E old \in placeBox.timer :
        /\ Push([old EXCEPT !.place = placeBox.text])
        /\ Means([intent EXCEPT !.place = placeBox.text], nav # {} \/ qBox.timer # {})
        /\ placeBox' = Box(placeBox.text)
        /\ UNCHANGED <<qBox, textVars, drawerVars>>

Pending == nav # {} \/ qBox.timer # {} \/ placeBox.timer # {}

TypePrice(low, high) ==
    /\ minText' = low /\ maxText' = high
    /\ UNCHANGED <<pageVars, qBox, placeBox, priceErr, drawerVars, userVars>>

\* On blur; a price above the cap means the cap, which the URL is read with.
ApplyPrice ==
    LET wrong == \/ Unreadable \in {minText, maxText}
                 \/ minText # NoPrice /\ maxText # NoPrice /\ minText > maxText
        next == Priced(query, minText, maxText)
    IN  /\ priceErr' = wrong
        /\ IF wrong \/ next = query
           THEN UNCHANGED <<pageVars, userVars>>
           ELSE Push(next) /\ Means(Priced(intent, Capped(minText), Capped(maxText)), Pending)
        /\ UNCHANGED <<qBox, placeBox, minText, maxText, drawerVars>>

-----------------------------------------------------------------------------
(* Selects, chips and the drawer *)

\* patch and push: what the page shows changes, and what the user means likewise.
Patched(next, meant) ==
    /\ Push(next) /\ Means(meant, Pending)
    /\ UNCHANGED <<qBox, placeBox, textVars, drawerVars>>

Toggled(url, tag) == [url EXCEPT !.tags = IF tag \in @ THEN @ \ {tag} ELSE @ \union {tag}]

ToggleTag(tag) == Patched(Toggled(query, tag), Toggled(intent, tag))

Choose(kind) == Patched([query EXCEPT !.kind = kind], [intent EXCEPT !.kind = kind])

\* Relevance is offered with a search only.
ChooseSort(sort) ==
    /\ sort = "relevance" => query.q # NoWord
    /\ Patched([query EXCEPT !.sort = sort], [intent EXCEPT !.sort = sort])

AnyPrice(url) == Priced(url, NoPrice, NoPrice)

\* What has a chip of its own, beside the tags.
RemoveChip ==
    \/ query.kind # NoKind /\ Choose(NoKind)
    \/ /\ query.place # NoPlace
       /\ Patched([query EXCEPT !.place = NoPlace], [intent EXCEPT !.place = NoPlace])
    \/ query # AnyPrice(query) /\ Patched(AnyPrice(query), AnyPrice(intent))

\* The same query, whatever there was before.
Anew(url) == Patched(url, url)

ClearAll == Anew([Plain EXCEPT !.sort = "newest"])

\* Back, forward or a link to another search.
Elsewhere(word) == Anew([Plain EXCEPT !.q = word, !.sort = "relevance"])

OpenDrawer ==
    /\ ~wide
    /\ drawer' = TRUE
    /\ UNCHANGED <<pageVars, qBox, placeBox, textVars, wide, userVars>>

CloseDrawer ==
    /\ drawer' = FALSE
    /\ UNCHANGED <<pageVars, qBox, placeBox, textVars, wide, userVars>>

\* An open drawer does not outlive its trigger.
Resize ==
    /\ wide' = ~wide
    /\ drawer' = (drawer /\ ~wide')
    /\ UNCHANGED <<pageVars, qBox, placeBox, textVars, userVars>>

BarStep ==
    \/ Arrive
    \/ \E text \in Words \union {NoWord} : TypeText(text)
    \/ \E text \in Places \union {NoPlace} : TypePlace(text)
    \/ TextPause \/ PlacePause
    \/ \E low, high \in Prices \union {NoPrice, Unreadable} : TypePrice(low, high)
    \/ ApplyPrice
    \/ \E tag \in Tags : ToggleTag(tag)
    \/ \E kind \in Kinds \union {NoKind} : Choose(kind)
    \/ \E sort \in BrowseSorts : ChooseSort(sort)
    \/ RemoveChip \/ ClearAll
    \/ \E word \in Words : Elsewhere(word)
    \/ OpenDrawer \/ CloseDrawer \/ Resize

BarSpec == BarInit /\ [][BarStep]_barVars

-----------------------------------------------------------------------------
(* Property *)

\* One change after the other, each let finish, the page shows the query they amount to
\* and its boxes say so: a debounce keeps what was chosen before it, a box follows a
\* removed chip or a link, and no URL that leaves out a default means another query.
BarFollowsUser ==
    ~Pending /\ ~overlapped =>
        query = intent /\ qBox.text = query.q /\ placeBox.text = query.place
=============================================================================
