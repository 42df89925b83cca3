----------------------------- MODULE QuoteCache -----------------------------
(***************************************************************************)
(* Prices of one symbol on their way to a decision: the tickers of the     *)
(* screener's stream worker, the market data cache, and the resolver that  *)
(* confirms an open: the paper trader asks it once, the live trader clears *)
(* the cache and has both books read, twice.  Two threads put tickers into *)
(* the cache: the refresh worker, which keeps the first stream worker for  *)
(* good, and the screener page, which keeps the one it connected to.  A    *)
(* third streams the books of exchanges whose tickers have no bid and ask. *)
(*                                                                         *)
(* A price is as old as the market it describes; ages count ticks and stop *)
(* at Old, beyond the larger of the two limits.  Faults:                   *)
(*   rest   the REST order book cannot be read, or has no levels           *)
(***************************************************************************)
EXTENDS Integers, FiniteSets

CONSTANTS
  Venues,
  Bare,           \* those whose tickers have no bid and ask: their books are streamed
  Unstamped,      \* those whose books may carry no time
  Untimed,        \* those whose tickers carry no time
  QuoteAge,       \* quote_max_age_seconds, in ticks
  BookAge,        \* book_max_age_seconds, in ticks
  Desync,         \* _CACHE_MAX_DESYNC_MS, in ticks
  QuoteFaults

ASSUME AgesAssumption ==
  /\ QuoteAge \in Nat /\ BookAge \in Nat /\ Desync \in Nat
  /\ QuoteFaults \subseteq {"rest"}

VARIABLES
  latest,      \* latest[e]: the ticker the first stream worker holds, and its age
  replaced,    \* the screener was reconnected: the first worker has stopped
  viewing,     \* the stream worker the page reads: "first" or "next"
  quotes,      \* the cache's futures quotes: what they hold, their age, and
               \* how long ago their recv_time_ms is
  books,       \* the cache's order books: their age, and whether they carry a time
  asking,      \* the legs a running open has yet to resolve over REST
  resolved,    \* the legs the last step resolved
  opener,      \* what confirms an open: "none", the live "check1" and "check2", or
               \* "spread": a spread is wanted, or a check has no price for a leg
  pending,     \* the legs a running open has yet to resolve from the cache
  lapsed,      \* history: those of them whose book was fresh once and then was not
  synced,      \* the live check found the two legs of one time
  begun,       \* the age of the live check
  estimated    \* the books a check that passed in the last step estimated fills on

feeds == <<latest, replaced, viewing>>
cache == <<quotes, books>>
check == <<opener, synced, begun>>
outcome == <<resolved, estimated>>
cacheVars == <<feeds, cache, asking, check, pending, lapsed, outcome>>

Old == 1 + IF QuoteAge > BookAge THEN QuoteAge ELSE BookAge
Nothing == [there |-> FALSE, age |-> Old]
Uncached == [there |-> FALSE, timed |-> TRUE, age |-> Old]
Never == Old + 1
NoQuote == [depth |-> FALSE, age |-> Old, recv |-> Never]
Aged(age) == [there |-> TRUE, age |-> age]

CacheInit ==
  /\ latest = [e \in Venues |-> Nothing]
  /\ replaced = FALSE
  /\ viewing = "first"
  /\ quotes = [e \in Venues |-> NoQuote]
  /\ books = [e \in Venues |-> Uncached]
  /\ asking = {} /\ resolved = {} /\ pending = {} /\ lapsed = {}
  /\ opener = "none" /\ synced = FALSE /\ begun = 0 /\ estimated = {}

\* resolved and estimated are those of the last step.
NoOutcome == resolved' = {} /\ estimated' = {}

Older(age) == IF age < Old THEN age + 1 ELSE age

\* Time passes: everything that was read ages.
Ticks ==
  /\ latest' = [e \in Venues |-> [latest[e] EXCEPT !.age = Older(@)]]
  /\ quotes' = [e \in Venues |-> [quotes[e] EXCEPT !.age = Older(@), !.recv = Older(@)]]
  /\ books' = [e \in Venues |-> [books[e] EXCEPT !.age = Older(@)]]
  /\ NoOutcome
  /\ begun' = IF opener \in {"check1", "check2"} THEN Older(begun) ELSE 0
  /\ UNCHANGED <<replaced, viewing, asking, opener, synced, pending>>

-----------------------------------------------------------------------------
\* The streams.

\* One without bid and ask shows no price that could be new.
TickerArrives(e) ==
  /\ ~replaced
  /\ latest' = [latest EXCEPT ![e] = Aged(IF e \in Bare THEN Old ELSE 0)]
  /\ NoOutcome
  /\ UNCHANGED <<replaced, viewing, cache, asking, check, pending>>

\* The page's Reconnect button.  Whoever holds the old worker keeps it.
Reconnects ==
  /\ ~replaced
  /\ replaced' = TRUE
  /\ NoOutcome
  /\ UNCHANGED <<latest, viewing, cache, asking, check, pending>>

PageConnects ==
  /\ replaced
  /\ viewing' = "next"
  /\ NoOutcome
  /\ UNCHANGED <<latest, replaced, cache, asking, check, pending>>

Stamps(e) == IF e \in Unstamped THEN BOOLEAN ELSE {TRUE}

\* MarketDataCacheMemory: whoever puts last is read.
PutOrderBook(e, age, timed) ==
  books' = [books EXCEPT ![e] = [there |-> TRUE, timed |-> timed, age |-> age]]
PutQuote(e, age, recv) ==
  quotes' = [quotes EXCEPT ![e] = [depth |-> TRUE, age |-> age, recv |-> recv]]

\* _publish_book: the book, and a quote as old as the book says it is.
PublishBook(e) ==
  /\ e \in Bare
  /\ \E age \in {0, Old}, timed \in Stamps(e) :
       /\ PutOrderBook(e, age, timed)
       /\ PutQuote(e, age, IF timed THEN age ELSE 0)
  /\ NoOutcome
  /\ UNCHANGED <<feeds, asking, check, pending>>

\* refresh() puts every ticker it is given into the cache with the present
\* time, whenever the stream last sent it, and over the quote a streamed book
\* has left.
Refresh(tickers) ==
  quotes' = [e \in Venues |->
    IF tickers[e].there
    THEN [depth |-> e \notin Bare, age |-> IF e \in Bare THEN Old ELSE tickers[e].age, recv |-> 0]
    ELSE quotes[e]]

\* The refresh worker reads the first stream worker for good, the page the one
\* it connected to; of the next one's tickers only their ages matter.
Ingests ==
  /\ \/ (\E e \in Venues : latest[e].there) /\ Refresh(latest)
     \/ viewing = "next" /\ \E seen \in [Venues -> {Nothing} \cup {Aged(age) : age \in 0 .. Old}] :
          Refresh(seen)
  /\ NoOutcome
  /\ UNCHANGED <<feeds, books, asking, check, pending>>

-----------------------------------------------------------------------------
\* ExecutableSpreadResolver, asked by the trader before it opens.

Leg(e, age, by) == [ex |-> e, age |-> age, by |-> by]

\* top_of_book_sync; the trader's tickers are those of the first worker.  What
\* carries no time counts as new, and a quote as new as it was put.
TopOfBookSync(e, by) ==
  IF books[e].there /\ (books[e].timed => books[e].age <= BookAge)
  THEN {Leg(e, books[e].age, by)}
  ELSE IF quotes[e].depth /\ quotes[e].recv <= QuoteAge
  THEN {Leg(e, quotes[e].age, by)}
  ELSE IF latest[e].there /\ e \notin Bare /\ (e \in Untimed \/ latest[e].age <= QuoteAge)
  THEN {Leg(e, latest[e].age, by)}
  ELSE {}

\* A book without a time does not count.
FreshBook(e) == books[e].there /\ books[e].timed /\ books[e].age <= BookAge

\* Mutant: a quote that came in lately does as well.
NeedsBookOrQuote(e) == ~FreshBook(e) /\ ~(quotes[e].depth /\ quotes[e].recv <= QuoteAge)

NeedsRestBook(e) == ~FreshBook(e)

\* Both legs are read over REST as soon as one of them needs it; otherwise the
\* gather looks into the cache, which is not what the check has looked at.
EntrySpreadForOpen ==
  /\ pending = {}
  /\ \/ /\ opener = "none" /\ \E e \in Venues : NeedsRestBook(e)
        /\ asking' = Venues /\ opener' = "spread" /\ UNCHANGED pending
     \/ /\ \A e \in Venues : ~NeedsRestBook(e)
        /\ pending' = Venues /\ UNCHANGED <<asking, opener>>
  /\ NoOutcome
  /\ UNCHANGED <<feeds, cache, synced, begun>>

\* One leg of the gather, from the cache as it is by now: time has passed, other
\* threads have put, and a live check may have cleared it.
LooksUp(e) ==
  /\ e \in pending
  /\ pending' = pending \ {e}
  /\ resolved' = TopOfBookSync(e, "cache") /\ estimated' = {}
  /\ UNCHANGED <<feeds, cache, asking, check>>

\* exit_spread with fetch_fresh, as for a live close:
\* both legs are read, whatever the cache holds.
ExitSpread ==
  /\ opener = "none"
  /\ asking' = Venues /\ opener' = "spread"
  /\ NoOutcome
  /\ UNCHANGED <<feeds, cache, synced, begun, pending>>

\* Who wants the spread alone ends with the gather.
Asks(left, purpose) ==
  /\ asking' = left
  /\ opener' = IF purpose = "spread" /\ left = {} THEN "none" ELSE purpose
  /\ begun' = IF purpose = "spread" THEN 0 ELSE begun
  /\ estimated' = {}

\* One leg of the gather.
ReadsBook(e) ==
  /\ e \in asking
  /\ Asks(asking \ {e}, opener)
  /\ resolved' = {Leg(e, 0, "rest")}
  /\ \E timed \in Stamps(e) : PutOrderBook(e, 0, timed)
  /\ UNCHANGED <<feeds, quotes, synced, pending>>

ReadFails(e) ==
  /\ e \in asking /\ "rest" \in QuoteFaults
  /\ resolved' = TopOfBookSync(e, "fallback")
  /\ Asks(asking \ {e}, IF TopOfBookSync(e, "fallback") = {} THEN "spread" ELSE opener)
  /\ UNCHANGED <<feeds, cache, synced, pending>>

-----------------------------------------------------------------------------
\* LiveAutoTrader._run_open_check: the cache is cleared, both legs are read,
\* and what is in the cache then is looked at, step by step, while the other
\* threads go on putting.

BeginsCheck(name) ==
  /\ quotes' = [e \in Venues |-> NoQuote] /\ books' = [e \in Venues |-> Uncached]
  /\ asking' = Venues /\ opener' = name /\ begun' = 0 /\ synced' = FALSE

RunOpenCheck ==
  /\ opener = "none"
  /\ BeginsCheck("check1")
  /\ NoOutcome
  /\ UNCHANGED <<feeds, pending>>

Rejects ==
  /\ opener \in {"check1", "check2"} /\ asking = {}
  /\ opener' = "none" /\ synced' = FALSE /\ begun' = 0 /\ NoOutcome
  /\ UNCHANGED <<feeds, cache, asking, pending>>

\* _leg_recv_time_ms
StampOf(e) == IF books[e].there /\ books[e].timed THEN books[e].age ELSE quotes[e].recv

Apart(k, l) == IF k < l THEN l - k ELSE k - l

\* The legs are of one time; the spread and the limits may reject as well.
InSync ==
  /\ opener \in {"check1", "check2"} /\ asking = {} /\ ~synced
  /\ \A d, e \in Venues : StampOf(e) # Never /\ Apart(StampOf(d), StampOf(e)) <= Desync
  /\ synced' = TRUE /\ NoOutcome
  /\ UNCHANGED <<feeds, cache, asking, opener, begun, pending>>

\* _estimate_fill_price
HasDepth(e) == books[e].there

\* Depth and fills are estimated on the cached books, so there must be two.
Passes ==
  /\ synced
  /\ \A e \in Venues : HasDepth(e)
  /\ estimated' = {[ex |-> e, age |-> books[e].age, begun |-> begun] : e \in Venues}
  /\ resolved' = {}
  /\ IF opener = "check1" THEN BeginsCheck("check2")
     ELSE /\ opener' = "none" /\ synced' = FALSE /\ begun' = 0
          /\ UNCHANGED <<cache, asking>>
  /\ UNCHANGED <<feeds, pending>>

CacheMoves ==
  \/ Ticks \/ Reconnects \/ PageConnects \/ Ingests \/ EntrySpreadForOpen \/ ExitSpread
  \/ RunOpenCheck \/ Rejects \/ InSync \/ Passes
  \/ \E e \in Venues :
       TickerArrives(e) \/ PublishBook(e) \/ LooksUp(e) \/ ReadsBook(e) \/ ReadFails(e)

\* Of the legs a gather has yet to look up, those whose book has run out, was
\* replaced by an old one, or was cleared.
Lapses == lapsed' = {e \in pending : e \in lapsed \/ (FreshBook(e) /\ ~FreshBook(e)')}

CacheNext == CacheMoves /\ Lapses

CacheSpec == CacheInit /\ [][CacheNext]_cacheVars

-----------------------------------------------------------------------------
\* Properties.

\* The prices an open or a close is confirmed with are no older than the book
\* limit when a leg is resolved, although the cache holds quotes of a stopped
\* stream worker that look new and books without a time.  A leg may be older only
\* if its own REST read failed, or its book was fresh when the resolver checked
\* and no more when the gather looked it up: a price is never used because the
\* check was content with less than a book.  And a live check never passes on an
\* older leg: the books it estimates the fills on were read since it began, or
\* streamed.
OpensOnFreshPrices ==
  /\ \A l \in resolved :
       l.by = "rest" \/ (l.by = "cache" /\ l.ex \notin lapsed) => l.age <= BookAge
  /\ \A l \in estimated : l.ex \notin Bare => l.age <= l.begun
=============================================================================
