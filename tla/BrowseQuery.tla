----------------------------- MODULE BrowseQuery -----------------------------
(***************************************************************************)
(* What a /browse URL means (modules/catalog/browse-query.ts) and the URL  *)
(* that a query is written to (browse-url.ts).  A URL and a query have the *)
(* same fields; a query is a URL that has been read.  One word stands for  *)
(* the search text and its spelling, one set of tags for the multi-valued  *)
(* filters (sizes, conditions), one kind for the single-valued ones that   *)
(* are chosen from a list (category, department).                          *)
(***************************************************************************)
EXTENDS Integers

CONSTANTS
    Words,      \* search texts after normText
    Tags,       \* sizes and conditions
    Kinds,      \* categories, departments
    Places,     \* locations after normText
    Prices,     \* minor units
    MaxPrice,   \* MAX_PRICE_MINOR
    Hash        \* [Urls -> fingerprints]: 32 bits of FNV-1a, so two filters may share one

ASSUME QueryAssumption == Prices \subseteq Nat /\ MaxPrice \in Prices

NoWord == "no word"
NoKind == "any kind"
NoPlace == "anywhere"
NoPrice == -1
NoSort == "default"

BrowseSorts == {"newest", "price_asc", "price_desc", "relevance"}

Urls ==
    [ q: Words \union {NoWord}, tags: SUBSET Tags, kind: Kinds \union {NoKind},
      place: Places \union {NoPlace},
      minPrice: Prices \union {NoPrice}, maxPrice: Prices \union {NoPrice},
      sort: BrowseSorts \union {NoSort} ]

Plain == [ q |-> NoWord, tags |-> {}, kind |-> NoKind, place |-> NoPlace,
           minPrice |-> NoPrice, maxPrice |-> NoPrice, sort |-> NoSort ]

DefaultSortFor(q) == IF q = NoWord THEN "newest" ELSE "relevance"

Capped(price) == IF price > MaxPrice THEN MaxPrice ELSE price

Priced(url, low, high) == [url EXCEPT !.minPrice = low, !.maxPrice = high]

\* Prices are capped, a reversed range is dropped, and relevance needs a search text.
ParseBrowseQuery(raw) ==
    LET url == Priced(raw, Capped(raw.minPrice), Capped(raw.maxPrice))
        reversed == url.minPrice # NoPrice /\ url.maxPrice # NoPrice /\ url.minPrice > url.maxPrice
        implied == url.sort = NoSort \/ (url.sort = "relevance" /\ url.q = NoWord)
    IN  [url EXCEPT !.minPrice = IF reversed THEN NoPrice ELSE @,
                    !.maxPrice = IF reversed THEN NoPrice ELSE @,
                    !.sort = IF implied THEN DefaultSortFor(url.q) ELSE @]

\* The canonical URL omits the default sort.
BuildBrowseHref(query) ==
    [query EXCEPT !.sort = IF query.sort = DefaultSortFor(query.q) THEN NoSort ELSE @]

\* Everything that defines the result but the sort and the cursor.
Filters(query) == [query EXCEPT !.sort = NoSort]

\* Mutant: a filter that the fingerprint forgets.
FingerprintWithoutKind(query) == Hash[[Filters(query) EXCEPT !.kind = NoKind]]

FilterFingerprint(query) == Hash[Filters(query)]

\* What a cursor is bound to: the sort and the fingerprint.
Binding(query) == <<query.sort, FilterFingerprint(query)>>
=============================================================================
