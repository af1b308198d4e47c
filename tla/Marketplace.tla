----------------------------- MODULE Marketplace ----------------------------
(****************************************************************************)
(* The marketplace: ratings and reviews of a strategy with their pages      *)
(* (marketplace/ratings.py), search over the catalogue with its orders and  *)
(* pages (marketplace/search.py), and the routes that call them. The routes *)
(* do not suspend between two calls of a store. A reader who pages through  *)
(* the reviews meets what others submit meanwhile. Users and listings are   *)
(* numbers in the order of their ids and names.                             *)
(****************************************************************************)
EXTENDS Integers, Sequences, SequencesExt, FiniteSets, FiniteSetsExt

CONSTANTS Raters, Stars,
          PageLimit,      \* limit of a page; a search asks for one at least
          MaxSubmissions,
          Catalog         \* listings in the order of their names: score, downloads

ASSUME MarketAssumption ==
    /\ IsFiniteSet(Raters) /\ Raters \subseteq Nat /\ IsFiniteSet(Stars) /\ Stars \subseteq Nat \ {0}
    /\ PageLimit \in Nat \ {0} /\ Catalog \in Seq([score : Nat, downloads : Nat])

VARIABLES mkRatings,  \* bucket of the strategy: user -> stars, review?, updated; 0: none
          mkClock,
          mkReader,   \* a reader of the pages: next offset, seen, asked for, "withdrawn"
          mkSearch    \* the search: query given?, sort ("none": no search yet)

mkVars == <<mkRatings, mkClock, mkReader, mkSearch>>

NoReader == [offset |-> -1, seen |-> {}, owed |-> {}, withdrawn |-> FALSE, finished |-> FALSE]
Sorts == {"relevance", "downloads", "name"}

\* Records with a review that is not blank, the latest first, then the greater id.
Reviewed == {u \in Raters : mkRatings[u].review}
MutReviewBefore(u, v) == mkRatings[u].updated < mkRatings[v].updated \/
                         (mkRatings[u].updated = mkRatings[v].updated /\ u > v)
ReviewBefore(u, v) ==
    \/ mkRatings[u].updated > mkRatings[v].updated
    \/ mkRatings[u].updated = mkRatings[v].updated /\ u > v
ReviewRank(u) == Cardinality({v \in Reviewed : ReviewBefore(v, u)})
ListReviews == [i \in 1 .. Cardinality(Reviewed) |-> CHOOSE u \in Reviewed : ReviewRank(u) = i - 1]
PageOf(seq, start, limit) == SubSeq(seq, start + 1, Min({start + limit, Len(seq)}))

\* get_aggregate, the distribution: every rating counts, with or without a review.
GetAggregate ==
    LET rated == {u \in Raters : mkRatings[u].stars # 0}
    IN [s \in Stars |-> Cardinality({u \in rated : mkRatings[u].stars = s})]

\* Listings kept for a query, in order: the primary key down, then the name.
SortKey(sort, l) == CASE sort = "downloads" -> Catalog[l].downloads
                      [] sort = "relevance" -> Catalog[l].score
                      [] OTHER -> 0
Hits == {l \in DOMAIN Catalog : mkSearch.query => Catalog[l].score > 0}
\* An empty query has nothing to be relevant to and falls back to downloads.
EffectiveSort == IF ~mkSearch.query /\ mkSearch.sort = "relevance" THEN "downloads" ELSE mkSearch.sort
ListingBefore(k, l) ==
    \/ SortKey(EffectiveSort, k) > SortKey(EffectiveSort, l)
    \/ SortKey(EffectiveSort, k) = SortKey(EffectiveSort, l) /\ k < l
ListingRank(l) == Cardinality({k \in Hits : ListingBefore(k, l)})
Listed == [i \in 1 .. Cardinality(Hits) |-> CHOOSE l \in Hits : ListingRank(l) = i - 1]
\* search: one page and whether there is another.
MutSearchPage(page) ==
    LET start == (page - 1) * PageLimit
    IN [results |-> PageOf(Listed, start, PageLimit), total |-> Len(Listed),
        more |-> start + PageLimit <= Len(Listed)]
SearchPage(page) ==
    LET start == (page - 1) * PageLimit
    IN [results |-> PageOf(Listed, start, PageLimit), total |-> Len(Listed),
        more |-> start + PageLimit < Len(Listed)]

MarketInit ==
    /\ mkRatings = [u \in Raters |-> [stars |-> 0, review |-> FALSE, updated |-> 0]]
    /\ mkClock = 0 /\ mkReader = NoReader
    /\ mkSearch = [query |-> FALSE, sort |-> "none"]

\* submit_rating: one record per user; a later one replaces it. Two submissions
\* may carry the same time.
SubmitRating(u, s, text, passes) ==
    /\ mkClock < MaxSubmissions
    /\ mkClock' = IF passes THEN mkClock + 1 ELSE mkClock
    /\ mkRatings' = [mkRatings EXCEPT ![u] = [stars |-> s, review |-> text, updated |-> mkClock']]
    /\ mkRatings' # mkRatings
    /\ mkReader' = [mkReader EXCEPT !.owed = @ \ {u},
                                    !.withdrawn = @ \/ (mkRatings[u].review /\ ~text)]
    /\ UNCHANGED mkSearch

\* get_ratings for the first page, and for the page after the one last read.
OpenReviews ==
    /\ mkReader = NoReader
    /\ mkReader' = [NoReader EXCEPT !.offset = 0, !.owed = Reviewed]
    /\ UNCHANGED <<mkRatings, mkClock, mkSearch>>
ReadReviews ==
    LET page == PageOf(ListReviews, mkReader.offset, PageLimit)
    IN /\ mkReader.offset >= 0 /\ ~mkReader.finished
       /\ mkReader' = [mkReader EXCEPT !.offset = @ + PageLimit, !.seen = @ \cup ToSet(page),
                                       !.finished = mkReader.offset + PageLimit >= Len(ListReviews)]
       /\ UNCHANGED <<mkRatings, mkClock, mkSearch>>

\* search_strategies with another query or order.
SearchStrategies(q, sort) ==
    /\ mkSearch' = [query |-> q, sort |-> sort] /\ mkSearch' # mkSearch
    /\ UNCHANGED <<mkRatings, mkClock, mkReader>>

MarketNext ==
    \/ \E u \in Raters, s \in Stars, text, passes \in BOOLEAN : SubmitRating(u, s, text, passes)
    \/ OpenReviews \/ ReadReviews
    \/ \E q \in BOOLEAN, sort \in Sorts : SearchStrategies(q, sort)

----------------------------------------
\* Who reads all the pages of the reviews sees every review that was there from the
\* start and was not resubmitted, whatever others submit meanwhile, unless one of
\* them takes a review back. The pages of a search show every hit once, in order,
\* and promise another page exactly when there is one. Every review is counted.
PagesComplete ==
    /\ mkReader.finished /\ ~mkReader.withdrawn => mkReader.owed \subseteq mkReader.seen
    /\ Len(ListReviews) <= MapThenSumSet(LAMBDA s : GetAggregate[s], Stars)
    /\ mkSearch.sort # "none" =>
       LET pages == 1 .. Len(Catalog) + 1
           shown == FlattenSeq([p \in pages |-> SearchPage(p).results])
       IN /\ Len(shown) = Cardinality(Hits) /\ ToSet(shown) = Hits
          /\ \A i \in 1 .. Len(shown) - 1 : ListingBefore(shown[i], shown[i + 1])
          /\ \A p \in pages : SearchPage(p).more <=> SearchPage(p + 1).results # <<>>
=============================================================================
