------------------------------- MODULE Browse --------------------------------
(***************************************************************************)
(* The public grid (modules/catalog/public-catalog.ts, app/browse,         *)
(* app/shop): a visitor walks from page to page while sellers take         *)
(* listings off, edit them and publish them again.  Pages come from the    *)
(* cache of lib/catalog-cache.ts, which another instance does not clear.   *)
(***************************************************************************)
EXTENDS BrowseQuery, Keyset

CONSTANTS
    Goods,      \* listings; integers: ids break ties
    PageSize,   \* DEFAULT_PAGE_SIZE
    Named,      \* [Words -> SUBSET Kinds]: resolveCategorySlugsFromQuery
    AllShops    \* no seller scope

\* Ids order the rows, a page has a row, and no cursor is the first page's.
ASSUME BrowseAssumption ==
    /\ Goods \subseteq Nat \ {0} /\ IsFiniteSet(Goods)
    /\ PageSize \in Nat \ {0}
    /\ NoCursor \notin [owner: BrowseSorts \X {Hash[url] : url \in Urls}, key: Int, id: Int]

VARIABLES
    goods,      \* [Goods -> the columns the grid filters and sorts by]
    held,       \* pages in the cache, by their key
    visit,      \* the walk of a visitor
    touched,    \* history: listings that changed since the beginning
    asked       \* history: queries that a page was asked for

browseVars == <<goods, held, visit, touched, asked>>

Good ==
    [ published: BOOLEAN, word: Words \union {NoWord}, tag: Tags, kind: Kinds, place: Places,
      shop: {1, 2},
      price: Prices, createdAt: 1..2 ]

NoVisit == [pc |-> "none", shop |-> AllShops, query |-> ParseBrowseQuery(Plain), cursor |-> NoCursor, seen |-> <<>>]

\* The search text is in the listing or names its category.
Found(g, q) == q = NoWord \/ goods[g].word = q \/ goods[g].kind \in Named[q]

Matches(g, query) ==
    /\ goods[g].published
    /\ Found(g, query.q)
    /\ query.tags = {} \/ goods[g].tag \in query.tags
    /\ query.kind \in {NoKind, goods[g].kind}
    /\ query.place \in {NoPlace, goods[g].place}
    /\ query.minPrice = NoPrice \/ goods[g].price >= query.minPrice
    /\ query.maxPrice = NoPrice \/ goods[g].price <= query.maxPrice

InShop(g, shop) == shop = AllShops \/ goods[g].shop = shop

\* The ordering of the sort, as a descending key and id; what only the category
\* matches has the lowest rank.
SortRow(g, query) ==
    CASE query.sort = "newest"     -> [key |-> goods[g].createdAt, id |-> g]
      [] query.sort = "price_asc"  -> [key |-> -goods[g].price, id |-> -g]
      [] query.sort = "price_desc" -> [key |-> goods[g].price, id |-> g]
      [] query.sort = "relevance"  -> [key |-> IF goods[g].word = query.q THEN 1 ELSE 0, id |-> g]

Listed(shop, query) ==
    {SortRow(g, query) : g \in {h \in Goods : Matches(h, query) /\ InShop(h, shop)}}

\* The listing a row stands for.
Item(row) == IF row.id < 0 THEN -row.id ELSE row.id

\* listPublishedListingsUncached: a cursor of another sort or fingerprint is no cursor.
PageOf(shop, query, cursor) ==
    LET bound == Decode(cursor, Binding(query))
        rows == Rows(Listed(shop, query), bound, PageSize)
    IN  [ items |-> [k \in DOMAIN rows |-> Item(rows[k])],
          next |-> NextCursor(Listed(shop, query), bound, PageSize, Binding(query)),
          first |-> bound = NoCursor ]

\* The key of the cache: scope, sort, cursor and fingerprint.
CacheKey(shop, query, cursor) == <<shop, query.sort, cursor, FilterFingerprint(query)>>

\* listPublishedListings
Served(shop, query, cursor) ==
    LET key == CacheKey(shop, query, cursor)
    IN  IF key \in DOMAIN held THEN held[key] ELSE PageOf(shop, query, cursor)

BrowseTypeOK ==
    /\ goods \in [Goods -> Good]
    /\ visit.pc \in {"none", "more", "end"}
    /\ \A k \in DOMAIN visit.seen : visit.seen[k] \in Goods
    /\ touched \subseteq Goods
    /\ asked \subseteq Urls

BrowseInit ==
    /\ goods \in [Goods -> Good]
    /\ held = [key \in {} |-> NoCursor]
    /\ visit = NoVisit
    /\ touched = {}
    /\ asked = {}

\* A page is asked for; a page that no cursor bounds begins the walk anew.
Visit(shop, query, cursor) ==
    LET page == Served(shop, query, cursor)
    IN  /\ visit' = [ pc |-> IF page.next = NoCursor THEN "end" ELSE "more",
                      shop |-> shop, query |-> query, cursor |-> page.next,
                      seen |-> IF page.first THEN page.items ELSE visit.seen \o page.items ]
        /\ held' = [key \in DOMAIN held \union {CacheKey(shop, query, cursor)} |->
                       IF key \in DOMAIN held THEN held[key] ELSE page]
        /\ asked' = asked \union {query}
        /\ UNCHANGED <<goods, touched>>

OpenBrowse(url) == Visit(AllShops, ParseBrowseQuery(url), NoCursor)

\* The storefront takes nothing but the cursor from its URL.
OpenShop(shop) == Visit(shop, ParseBrowseQuery(Plain), NoCursor)

\* The link carries the canonical URL of the query and the cursor.
NextPage ==
    /\ visit.pc = "more"
    /\ Visit(visit.shop, ParseBrowseQuery(BuildBrowseHref(visit.query)), visit.cursor)

\* A URL with the filters of one page and the cursor of another.
MixedUrl(url) ==
    /\ visit.pc = "more"
    /\ visit.shop = AllShops
    /\ ParseBrowseQuery(url) # visit.query
    /\ Visit(AllShops, ParseBrowseQuery(url), visit.cursor)

\* The entry is older than its TTL.
Expire(key) ==
    /\ held' = [k \in DOMAIN held \ {key} |-> held[k]]
    /\ UNCHANGED <<goods, visit, touched, asked>>

\* Paused, edited, published again; by this instance, which clears its cache, or by
\* another.
Changes(g) ==
    /\ \/ goods' = [goods EXCEPT ![g].published = ~@]
       \/ ~goods[g].published /\ \E p \in Prices : p # goods[g].price /\ goods' = [goods EXCEPT ![g].price = p]
    /\ held' \in {held, [key \in {} |-> NoCursor]}
    /\ touched' = touched \union {g}
    /\ UNCHANGED <<visit, asked>>

BrowseStep(urls) ==
    \/ \E url \in urls : OpenBrowse(url) \/ MixedUrl(url)
    \/ \E shop \in {1, 2} : OpenShop(shop)
    \/ NextPage
    \/ \E key \in DOMAIN held : Expire(key)
    \/ \E g \in Goods : Changes(g)

BrowseSpec == BrowseInit /\ [][BrowseStep(Urls)]_browseVars

-----------------------------------------------------------------------------
(* Properties *)

Shown(g) == {k \in DOMAIN visit.seen : visit.seen[k] = g}

\* Of the filters somebody asked for, no two have one hash.
HashTells == \A q, r \in asked : Hash[Filters(q)] = Hash[Filters(r)] => Filters(q) = Filters(r)

\* A walk shows a listing nobody touched exactly once, if it belongs there, from
\* whatever cached pages it is pieced together and whatever its URL once was, as long as
\* the hash tells the filters apart; and by newest it shows no listing twice, touched or
\* not and whatever filters share a hash.
BrowsePagesComplete ==
    /\ HashTells => \A g \in Goods \ touched :
        visit.pc = "end" =>
          Cardinality(Shown(g)) = IF Matches(g, visit.query) /\ InShop(g, visit.shop) THEN 1 ELSE 0
    /\ visit.query.sort = "newest" => \A g \in Goods : Cardinality(Shown(g)) <= 1
=============================================================================
